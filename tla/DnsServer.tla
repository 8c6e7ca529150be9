----------------------------- MODULE DnsServer -----------------------------
(***************************************************************************)
(* The life of the DNS server task (main/dns_server.c): it opens its two   *)
(* sockets into file-scope variables and serves until a restart flag is    *)
(* set; the watchdog, which reads at two heartbeats running that the task  *)
(* has not been round its loop for 15 s, sets the flag, pauses 1.5 s and   *)
(* creates another task. Nothing waits for the old one.                    *)
(*                                                                         *)
(* What is answered to a query is left out. A call in the loop may hang    *)
(* (the proxy's mutex is held during name resolution, proxy_gateway.c:195) *)
(* and may come back or not.                                               *)
(***************************************************************************)
EXTENDS Naturals, FiniteSets

CONSTANTS
  Tasks,        \* as many tasks as fit in the heap
  Socks,        \* the sockets lwIP has
  None          \* NULL, and socket -1

ASSUME DnsAssumption == None \notin Tasks /\ None \notin Socks

VARIABLES
  pc,                 \* pc[t]: "none", or where the task is
  dns_srv_sock, dns_ext_sock,
  open, bound,        \* sockets open; sockets that hold port 53
  dns_restart_flag,
  dns_task_handle,
  alive,              \* dns_last_alive_ms seen from the watchdog's clock:
                      \*   "fresh", "late" (15 s) or "ahead" of it
  dns_stuck_count,
  creator,            \* dns_server_start(), then the watchdog: "create",
                      \*   "handle", "watch", "compare", "flag", "pause"
  new_h,              \* its local variable
  lapses              \* history: "slow" (a task outlived the pause),
                      \*   "refused" (no task or no socket to be had),
                      \*   "wrapped" (the reading that ended a task was false)

sockVars == <<dns_srv_sock, dns_ext_sock, open, bound>>
watchVars == <<dns_stuck_count, creator, new_h>>
vars == <<pc, sockVars, dns_restart_flag, dns_task_handle, alive, watchVars,
          lapses>>

TaskPcs == {"none", "start", "srv", "ext", "bind", "check", "recv", "call",
            "close", "forget", "handle"}

Goto(t, l) == pc' = [pc EXCEPT ![t] = l]

-----------------------------------------------------------------------------
(* dns_server_task()                                                       *)

\* The flag of the task before is cleared.
KeepFlag(t) ==                          \* mutant: not cleared
  /\ pc[t] = "start" /\ Goto(t, "srv")
  /\ UNCHANGED <<sockVars, dns_restart_flag, dns_task_handle, alive, watchVars,
                 lapses>>
ClearFlag(t) ==
  /\ pc[t] = "start" /\ Goto(t, "srv")
  /\ dns_restart_flag' = FALSE
  /\ UNCHANGED <<sockVars, dns_task_handle, alive, watchVars, lapses>>

OpenSrv(t) ==
  /\ pc[t] = "srv"
  /\ \/ \E s \in Socks \ open :
          /\ open' = open \cup {s} /\ dns_srv_sock' = s
          /\ Goto(t, "ext") /\ UNCHANGED lapses
     \/ /\ dns_srv_sock' = None /\ lapses' = lapses \cup {"refused"}
        /\ Goto(t, "handle") /\ UNCHANGED open
  /\ UNCHANGED <<dns_ext_sock, bound, dns_restart_flag, dns_task_handle, alive,
                 watchVars>>

\* Without the second socket the first is closed.
OpenExt(t) ==
  /\ pc[t] = "ext"
  /\ \/ \E s \in Socks \ open :
          /\ open' = open \cup {s} /\ dns_ext_sock' = s
          /\ Goto(t, "bind") /\ UNCHANGED <<dns_srv_sock, bound, lapses>>
     \/ /\ dns_ext_sock' = None /\ lapses' = lapses \cup {"refused"}
        /\ open' = open \ {dns_srv_sock} /\ bound' = bound \ {dns_srv_sock}
        /\ dns_srv_sock' = None
        /\ Goto(t, "handle")
  /\ UNCHANGED <<dns_restart_flag, dns_task_handle, alive, watchVars>>

\* The port is free when no socket holds it.
Bind(t) ==
  /\ pc[t] = "bind"
  /\ \/ /\ dns_srv_sock \in open /\ bound = {}
        /\ bound' = {dns_srv_sock}
        /\ Goto(t, "check")
        /\ UNCHANGED <<dns_srv_sock, dns_ext_sock, open>>
     \/ /\ ~(dns_srv_sock \in open /\ bound = {})
        /\ open' = open \ {dns_srv_sock, dns_ext_sock}
        /\ bound' = bound \ {dns_srv_sock, dns_ext_sock}
        /\ dns_srv_sock' = None /\ dns_ext_sock' = None
        /\ Goto(t, "handle")
  /\ UNCHANGED <<dns_restart_flag, dns_task_handle, alive, watchVars, lapses>>

\* The head of the loop. The watchdog may have read the clock just before.
Check(t) ==
  /\ pc[t] = "check"
  /\ \/ dns_restart_flag /\ Goto(t, "close") /\ UNCHANGED alive
     \/ /\ ~dns_restart_flag /\ Goto(t, "recv")
        /\ \/ alive' = "fresh"
           \/ creator = "compare" /\ alive' = "ahead"
  /\ UNCHANGED <<sockVars, dns_restart_flag, dns_task_handle, watchVars, lapses>>

\* recvfrom() on whatever the variable holds: a query, or a timeout (at once
\* when there is no socket). The calls that answer a query may hang.
Receive(t) ==
  /\ pc[t] = "recv"
  /\ \/ dns_srv_sock \in bound /\ Goto(t, "call")
     \/ Goto(t, "check")
  /\ UNCHANGED <<sockVars, dns_restart_flag, dns_task_handle, alive, watchVars,
                 lapses>>

Answer(t) ==
  /\ pc[t] = "call" /\ Goto(t, "check")
  /\ UNCHANGED <<sockVars, dns_restart_flag, dns_task_handle, alive, watchVars,
                 lapses>>

\* After the loop.
LeaveOpen(t) ==                         \* mutant: the sockets are not closed
  /\ pc[t] = "close" /\ Goto(t, "forget")
  /\ UNCHANGED <<sockVars, dns_restart_flag, dns_task_handle, alive, watchVars,
                 lapses>>
Close(t) ==
  /\ pc[t] = "close" /\ Goto(t, "forget")
  /\ open' = open \ {dns_srv_sock, dns_ext_sock}
  /\ bound' = bound \ {dns_srv_sock, dns_ext_sock}
  /\ UNCHANGED <<dns_srv_sock, dns_ext_sock, dns_restart_flag, dns_task_handle,
                 alive, watchVars, lapses>>

Forget(t) ==
  /\ pc[t] = "forget" /\ Goto(t, "handle")
  /\ dns_srv_sock' = None /\ dns_ext_sock' = None
  /\ UNCHANGED <<open, bound, dns_restart_flag, dns_task_handle, alive,
                 watchVars, lapses>>

End(t) ==
  /\ pc[t] = "handle" /\ Goto(t, "none")
  /\ dns_task_handle' = None
  /\ UNCHANGED <<sockVars, dns_restart_flag, alive, watchVars, lapses>>

TaskStep(t) ==
  \/ ClearFlag(t) \/ OpenSrv(t) \/ OpenExt(t) \/ Bind(t) \/ Check(t)
  \/ Receive(t) \/ Close(t) \/ Forget(t) \/ End(t)

-----------------------------------------------------------------------------
(* dns_server_start() and dns_server_watchdog_tick()                       *)

\* 15 s go by before a heartbeat without a round of the loop: no task is in it
\* but one that hangs.
TimePasses ==
  /\ alive # "late" /\ creator = "watch"
  /\ \A t \in Tasks : pc[t] \in {"none", "call"}
  /\ alive' = "late"
  /\ UNCHANGED <<pc, sockVars, dns_restart_flag, dns_task_handle, watchVars,
                 lapses>>

\* A heartbeat reads the clock, then calls dns_server_watchdog_tick().
Heartbeat ==
  /\ creator = "watch" /\ creator' = "compare"
  /\ UNCHANGED <<pc, sockVars, dns_restart_flag, dns_task_handle, alive,
                 dns_stuck_count, new_h, lapses>>

\* now_ms - dns_last_alive_ms is unsigned: a time ahead of the clock is huge.
Stuck == dns_task_handle # None /\ alive \in {"late", "ahead"}
\* The first heartbeat that finds the task stuck only counts it.
ActAtOnce(n) == TRUE                    \* mutant: no second look
SecondLook(n) == n + 1 >= 2
Tick ==
  /\ creator = "compare"
  /\ IF Stuck /\ SecondLook(dns_stuck_count)
     THEN creator' = "flag" /\ UNCHANGED dns_stuck_count
     ELSE /\ creator' = "watch"
          /\ dns_stuck_count' = IF Stuck THEN dns_stuck_count + 1 ELSE 0
  /\ alive' = IF alive = "ahead" THEN "fresh" ELSE alive
  /\ lapses' = IF Stuck /\ alive = "ahead" /\ dns_stuck_count > 0
               THEN lapses \cup {"wrapped"} ELSE lapses
  /\ UNCHANGED <<pc, sockVars, dns_restart_flag, dns_task_handle, new_h>>

\* shutdown() does nothing to a datagram socket of lwIP.
SignalOnly ==                           \* mutant: no pause
  /\ creator = "flag" /\ creator' = "create"
  /\ dns_restart_flag' = TRUE
  /\ dns_task_handle' = None
  /\ UNCHANGED <<pc, sockVars, alive, dns_stuck_count, new_h, lapses>>
Signal ==
  /\ creator = "flag" /\ creator' = "pause"
  /\ dns_restart_flag' = TRUE
  /\ dns_task_handle' = None
  /\ UNCHANGED <<pc, sockVars, alive, dns_stuck_count, new_h, lapses>>

PauseEnds ==
  /\ creator = "pause" /\ creator' = "create"
  /\ alive' = "fresh"
  /\ lapses' = IF \A t \in Tasks : pc[t] = "none" THEN lapses
               ELSE lapses \cup {"slow"}
  /\ UNCHANGED <<pc, sockVars, dns_restart_flag, dns_task_handle,
                 dns_stuck_count, new_h>>

Create ==
  /\ creator = "create" /\ creator' = "handle"
  /\ \/ \E t \in Tasks : /\ pc[t] = "none" /\ Goto(t, "start")
                         /\ new_h' = t /\ UNCHANGED lapses
     \/ new_h' = None /\ lapses' = lapses \cup {"refused"} /\ UNCHANGED pc
  /\ UNCHANGED <<sockVars, dns_restart_flag, dns_task_handle, alive,
                 dns_stuck_count>>

SetHandle ==
  /\ creator = "handle" /\ creator' = "watch"
  /\ dns_task_handle' = new_h
  /\ dns_stuck_count' = 0
  /\ UNCHANGED <<pc, sockVars, dns_restart_flag, alive, new_h, lapses>>

WatchStep == Heartbeat \/ Tick \/ Signal \/ PauseEnds \/ Create \/ SetHandle

-----------------------------------------------------------------------------
Init ==
  /\ pc = [t \in Tasks |-> "none"]
  /\ dns_srv_sock = None /\ dns_ext_sock = None /\ open = {} /\ bound = {}
  /\ dns_restart_flag = FALSE /\ dns_task_handle = None
  /\ alive = "fresh" /\ dns_stuck_count = 0
  /\ creator = "create" /\ new_h = None
  /\ lapses = {}

Next ==
  \/ \E t \in Tasks : TaskStep(t) \/ Answer(t)
  \/ TimePasses \/ WatchStep

Spec == Init /\ [][Next]_vars

\* Tasks run and the watchdog beats; a hang that lasts is late in the end,
\* heartbeats or not (SF); a call that hangs need not come back.
FairSpec ==
  /\ Spec
  /\ \A t \in Tasks : WF_vars(TaskStep(t))
  /\ SF_vars(TimePasses) /\ WF_vars(WatchStep)

-----------------------------------------------------------------------------
(* Properties.                                                             *)

TypeOK ==
  /\ pc \in [Tasks -> TaskPcs]
  /\ dns_srv_sock \in Socks \cup {None} /\ dns_ext_sock \in Socks \cup {None}
  /\ open \in SUBSET Socks /\ bound \in SUBSET Socks
  /\ dns_restart_flag \in BOOLEAN /\ alive \in {"fresh", "late", "ahead"}
  /\ dns_task_handle \in Tasks \cup {None} /\ new_h \in Tasks \cup {None}
  /\ dns_stuck_count \in 0..1
  /\ creator \in {"create", "handle", "watch", "compare", "flag", "pause"}
  /\ lapses \in SUBSET {"slow", "refused", "wrapped"}

Alive == {t \in Tasks : pc[t] # "none"}

\* While every task that was told to end did so within the pause, there is one
\* server at most.
OneServer ==
  "slow" \notin lapses => \A t, u \in Alive : t = u

\* ... and no socket is open that the variables do not name, so restarts leak
\* none, whatever call failed on the way.
NoSocketLost ==
  "slow" \notin lapses => open \subseteq {dns_srv_sock, dns_ext_sock}

\* The watchdog is blind to a task whose handle it does not have: it has the
\* handle of every task that serves.
ServerIsWatched ==
  "slow" \notin lapses =>
    \A t \in Tasks :
      pc[t] \in {"check", "recv", "call"} /\ creator \in {"watch", "compare"} =>
        dns_task_handle = t

\* The watchdog ends nobody but a task that hangs or has just come back from a
\* hang: never one that starts, waits for a query or is ending. One reading
\* that the clock made false does not mislead it, only a second one.
OnlyHungIsEnded ==
  [][creator = "compare" /\ creator' = "flag" /\ "wrapped" \notin lapses' =>
       \A t \in Alive : pc[t] \in {"call", "check"}]_vars

Serving == \E t \in Tasks : pc[t] = "recv" /\ dns_srv_sock \in bound

\* DNS is served again and again, hangs or not, rightly ended or not, as long as
\* tasks end within the pause and nothing is refused.
KeepsServing == []({"slow", "refused"} \cap lapses = {}) => []<>Serving

\* The task in order, in parts: types, its sockets, its handle.
Safety ==
  /\ TypeOK /\ NoSocketLost /\ ServerIsWatched
=============================================================================
