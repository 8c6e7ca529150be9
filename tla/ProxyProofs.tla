---------------------------- MODULE ProxyProofs ----------------------------
(***************************************************************************)
(* Proofs about the proxy.                                                 *)
(*                                                                         *)
(* ProxyGateway, for any hosts, ports and number of saves: as long as one  *)
(* mutex was made, memory and flash agree, and the address that is cached  *)
(* is that of the host.                                                    *)
(*                                                                         *)
(* ProxyRelay, for any answers, buffers and receives: whatever fails,      *)
(* nothing stays open or allocated; the head ends where the blank line is; *)
(* the phone is told the status and the length upstream gave; upstream     *)
(* gets the phone's body and the phone upstream's, each from its beginning *)
(* and whole if nothing went wrong; and no step of the handler leads back. *)
(***************************************************************************)
EXTENDS ProxyGateway, ProxyRelay, SequenceTheorems, WellFoundedInduction, TLAPS

Forms == [enabled : BOOLEAN, host : Hosts \cup {Empty}, port : Ports]
Keys == [enabled : BOOLEAN \cup {None}, host : Hosts \cup {Empty, None},
         port : Ports \cup {None}]
Ops == {"none", "save", "invalidate", "upstream", "enabled"}

\* The types of what is shared, of what a task keeps to itself, and of what is
\* being saved.
Shared ==
  /\ g_cfg \in Configs /\ g_loaded \in BOOLEAN
  /\ g_cfg_mutex \in Mutexes \cup {None} /\ owner \in [Mutexes -> Tasks \cup {None}]
  /\ flash \in Keys /\ torn \in BOOLEAN /\ twice \in BOOLEAN /\ saves \in Nat
Private ==
  /\ pc \in [Tasks -> Pcs] /\ op \in [Tasks -> Ops]
  /\ got \in [Tasks -> BOOLEAN \cup {None}] /\ ok \in BOOLEAN
  /\ \A t \in Tasks : pc[t] = "fill" => got[t] \in BOOLEAN
Saving ==
  /\ op["httpd"] = "save" => form \in Forms
  /\ op["dns"] \in {"none", "enabled"}
  /\ \A t \in Tasks : pc[t] # "idle" => op[t] # "none"
  /\ pc["httpd"] \in {"save", "enabled_key", "host_key", "port_key", "memory"} =>
       op["httpd"] = "save"

\* A mutex is made before it is taken, and what replaces it comes second.
Made ==
  ~twice => \A t \in Tasks : Inside(t) \/ pc[t] = "take" => g_cfg_mutex # None

Types == Shared /\ Private /\ Saving /\ Made

\* Whoever is inside has the mutex.
Held == \A t \in Tasks : Inside(t) => owner[g_cfg_mutex] = t

\* Loading starts from the defaults, and what was read is still what flash has.
Loading ==
  \A t \in Tasks :
    /\ pc[t] \in {"defaults", "load", "fill"} => ~g_loaded
    /\ pc[t] \in {"load", "fill"} => g_cfg = Defaults
    /\ pc[t] = "fill" /\ ~torn => got[t] = Key("enabled", FALSE)

\* The keys that are written so far, if none failed.
Written ==
  /\ ok /\ pc["httpd"] \in {"host_key", "port_key", "memory"} =>
       flash.enabled = form.enabled
  /\ ok /\ pc["httpd"] \in {"port_key", "memory"} => flash.host = form.host
  /\ ok /\ pc["httpd"] = "memory" => flash.port = form.port

Agree ==
  g_loaded /\ ~torn =>
    /\ g_cfg.enabled = Reloaded.enabled
    /\ g_cfg.host = Reloaded.host /\ g_cfg.port = Reloaded.port

Resolved == g_cfg.resolved_ip \in {None, g_cfg.host}

OneMutex == Held /\ Loading /\ Written /\ Agree /\ Resolved

IInv == Types /\ (~twice => OneMutex)

-----------------------------------------------------------------------------
LEMMA InitTypes == GatewayInit => Types
<1> SUFFICES ASSUME GatewayInit PROVE Types
  OBVIOUS
<1> USE GatewayAssumption DEF GatewayInit
<1>1. g_cfg \in Configs
  BY DEF Defaults, Configs
<1>2. flash \in Keys
  BY DEF NoKeys, Keys
<1>3. Shared
  BY <1>1, <1>2 DEF Shared, Mutexes, Tasks
<1>4. Private
  BY DEF Private, Tasks, Pcs, Ops
<1>5. Saving
  BY DEF Saving, Tasks
<1>6. Made
  BY DEF Made, Inside
<1> QED BY <1>3, <1>4, <1>5, <1>6 DEF Types

LEMMA InitIInv == GatewayInit => IInv
<1> SUFFICES ASSUME GatewayInit PROVE IInv
  OBVIOUS
<1>1. OneMutex
  BY DEF GatewayInit, OneMutex, Held, Inside, Loading, Written, Agree, Resolved,
         Defaults, Tasks
<1> QED BY <1>1, InitTypes DEF IInv

-----------------------------------------------------------------------------
(* A step keeps the types.                                                 *)

\* A task gives the mutex back, or had none to take.
Leave(t) == Unlock(t) \/ LockFails(t) \/ LockGone(t)

LEMMA LeaveIs ==
  ASSUME NEW t \in Tasks, Leave(t)
  PROVE  /\ UNCHANGED <<g_cfg, g_loaded, flash, torn, saves, got>>
         /\ IF op[t] = "save"
            THEN /\ pc' = [pc EXCEPT ![t] = "init"]
                 /\ op' = [op EXCEPT ![t] = "invalidate"]
                 /\ form' = NoKeys /\ ok' = TRUE
            ELSE /\ pc' = [pc EXCEPT ![t] = "idle"]
                 /\ op' = [op EXCEPT ![t] = "none"]
                 /\ UNCHANGED <<form, ok>>
  BY DEF Leave, Unlock, LockFails, LockGone, Return, Goto, cfgVars, flashVars

LEMMA SharedStep ==
  ASSUME Types, GatewayNext
  PROVE  Shared'
<1> USE GatewayAssumption DEF Types, Shared, Tasks, Mutexes
<1>1. ASSUME NEW t \in Tasks, LockInit(t) \/ AskEnabled(t) \/ Enabled(t) \/ LoadRead(t)
      PROVE  Shared'
  BY <1>1 DEF LockInit, AskEnabled, Enabled, LoadRead, cfgVars, lockVars,
              flashVars, saveVars
<1>2. ASSUME NEW t \in Tasks, LockCreate(t) PROVE Shared'
  BY <1>2 DEF LockCreate, Replace, cfgVars, flashVars, saveVars
<1>3. ASSUME NEW t \in Tasks, Lock(t) \/ Leave(t) PROVE Shared'
  BY <1>3 DEF Lock, Leave, Unlock, LockFails, LockGone, Replace, lockVars,
              cfgVars, flashVars, saveVars
<1>4. ASSUME NEW t \in Tasks, SetDefaults(t) PROVE Shared'
  <2>1. g_cfg' \in Configs
    BY <1>4 DEF SetDefaults, Defaults, Configs
  <2> QED BY <1>4, <2>1 DEF SetDefaults, lockVars, flashVars, saveVars
<1>5. ASSUME NEW t \in Tasks, LoadFill(t) PROVE Shared'
  <2>1. got[t] \in BOOLEAN
    BY <1>5 DEF LoadFill, At, Private
  <2>2. /\ Key("host", g_cfg.host) \in Hosts \cup {Empty}
        /\ Key("port", g_cfg.port) \in Ports
    BY DEF Key, Keys, Configs
  <2>3. g_cfg' \in Configs
    BY <1>5, <2>1, <2>2 DEF LoadFill, Configs
  <2> QED BY <1>5, <2>3 DEF LoadFill, lockVars, flashVars, saveVars
<1>6. CASE PostForm \/ AskUpstream \/ SaveCheck \/ Upstream
  BY <1>6 DEF PostForm, AskUpstream, SaveCheck, Upstream, cfgVars, lockVars,
              flashVars, saveVars
<1>7. CASE SaveKeys
  <2>1. form \in Forms
    BY <1>7 DEF SaveKeys, SaveKey, At, Saving
  <2>2. flash' \in Keys
    BY <1>7, <2>1 DEF SaveKeys, SaveKey, Keys, Forms
  <2> QED BY <1>7, <2>2 DEF SaveKeys, SaveKey, cfgVars, lockVars
<1>8. CASE SaveMemory
  <2>1. form \in Forms
    BY <1>8 DEF SaveMemory, At, Saving
  <2>2. g_cfg' \in Configs
    BY <1>8, <2>1 DEF SaveMemory, WithoutAddress, Configs, Forms, cfgVars
  <2> QED BY <1>8, <2>2 DEF SaveMemory, cfgVars, lockVars, saveVars
<1>9. CASE Invalidate \/ Resolve
  <2>1. g_cfg' \in Configs
    BY <1>9 DEF Invalidate, Resolve, Configs
  <2> QED BY <1>9, <2>1 DEF Invalidate, Resolve, lockVars, flashVars, saveVars
<1>10. CASE Restart
  <2>1. g_cfg' \in Configs
    BY <1>10 DEF Restart, Defaults, Configs
  <2> QED BY <1>10, <2>1 DEF Restart, flashVars
<1> QED
  BY <1>1, <1>2, <1>3, <1>4, <1>5, <1>6, <1>7, <1>8, <1>9, <1>10
     DEF GatewayNext, Locking, Leave, HttpdStep

LEMMA PrivateStep ==
  ASSUME Types, GatewayNext
  PROVE  Private'
<1> USE DEF Types, Private, Tasks, Goto, At, Ops, Pcs
<1>1. ASSUME NEW t \in Tasks, LockInit(t) \/ LockCreate(t) \/ SetDefaults(t) \/ Enabled(t)
      PROVE  Private'
  BY <1>1 DEF LockInit, LockCreate, Replace, SetDefaults, Enabled, saveVars
<1>2. ASSUME NEW t \in Tasks, Lock(t) PROVE Private'
  BY <1>2 DEF Lock, saveVars, Saving
<1>3. ASSUME NEW t \in Tasks, LoadRead(t) PROVE Private'
  <2>1. Key("enabled", FALSE) \in BOOLEAN
    BY DEF Key, Shared, Keys
  <2> QED BY <1>3, <2>1 DEF LoadRead, saveVars
<1>4. ASSUME NEW t \in Tasks, LoadFill(t) PROVE Private'
  BY <1>4 DEF LoadFill, saveVars, Saving
<1>5. ASSUME NEW t \in Tasks, Leave(t) PROVE Private'
  <2>1. got' = got /\ ok' \in BOOLEAN
    <3>1. ok \in BOOLEAN
      OBVIOUS
    <3>2. CASE op[t] = "save"
      <4>1. ok' = TRUE /\ got' = got
        BY <1>5, <3>2, LeaveIs
      <4> QED BY <4>1
    <3>3. CASE op[t] # "save"
      <4>1. ok' = ok /\ got' = got
        BY <1>5, <3>3, LeaveIs
      <4> QED BY <3>1, <4>1
    <3> QED BY <3>2, <3>3
  <2>2. pc' \in [Tasks -> Pcs] /\ op' \in [Tasks -> Ops]
    <3>1. CASE op[t] = "save"
      <4>1. /\ pc' = [pc EXCEPT ![t] = "init"]
            /\ op' = [op EXCEPT ![t] = "invalidate"]
        BY <1>5, <3>1, LeaveIs
      <4> QED BY <4>1
    <3>2. CASE op[t] # "save"
      <4>1. /\ pc' = [pc EXCEPT ![t] = "idle"]
            /\ op' = [op EXCEPT ![t] = "none"]
        BY <1>5, <3>2, LeaveIs
      <4> QED BY <4>1
    <3> QED BY <3>1, <3>2
  <2>3. \A u \in Tasks : pc'[u] = "fill" => pc[u] = "fill"
    BY <1>5, LeaveIs
  <2> HIDE DEF Types, Pcs, Tasks, Ops
  <2>4. Private
    BY DEF Types
  <2> QED BY <2>1, <2>2, <2>3, <2>4
<1>6. ASSUME NEW t \in Tasks, AskEnabled(t) PROVE Private'
  BY <1>6 DEF AskEnabled, Call, saveVars
<1>7. CASE PostForm \/ AskUpstream
  BY <1>7 DEF PostForm, AskUpstream, Call, saveVars
<1>8. CASE SaveCheck \/ SaveMemory \/ Invalidate \/ Upstream \/ Resolve
  <2>1. CASE SaveCheck
    BY <2>1 DEF SaveCheck, saveVars
  <2>3. CASE SaveMemory
    BY <2>3 DEF SaveMemory, saveVars
  <2>2. CASE Invalidate \/ Upstream \/ Resolve
    BY <2>2 DEF Invalidate, Upstream, Resolve, saveVars
  <2> QED BY <1>8, <2>1, <2>2, <2>3
<1>9. CASE SaveKeys
  <2>1. pc' \in [Tasks -> Pcs] /\ \A t \in Tasks : pc'[t] = "fill" => pc[t] = "fill"
    <3>1. CASE SaveKey("enabled", "enabled_key")
      BY <3>1 DEF SaveKey, NextKey
    <3>2. CASE SaveKey("host", "host_key")
      BY <3>2 DEF SaveKey, NextKey
    <3>3. CASE SaveKey("port", "port_key")
      BY <3>3 DEF SaveKey, NextKey
    <3> QED BY <1>9, <3>1, <3>2, <3>3 DEF SaveKeys
  <2>2. ok' \in BOOLEAN /\ UNCHANGED <<op, got>>
    BY <1>9 DEF SaveKeys, SaveKey
  <2> HIDE DEF Types, Pcs, Tasks, Ops
  <2>3. Private
    BY DEF Types
  <2> QED BY <2>1, <2>2, <2>3
<1>10. CASE Restart
  BY <1>10 DEF Restart
<1> QED
  BY <1>1, <1>2, <1>3, <1>4, <1>5, <1>6, <1>7, <1>8, <1>9, <1>10
     DEF GatewayNext, Locking, Leave, HttpdStep

LEMMA SavingStep ==
  ASSUME Types, GatewayNext
  PROVE  Saving'
<1> USE DEF Types, Private, Saving, Tasks, Goto, At, Ops
<1>1. ASSUME NEW t \in Tasks, LockInit(t) \/ LockCreate(t) \/ SetDefaults(t) \/ Enabled(t)
      PROVE  Saving'
  BY <1>1 DEF LockInit, LockCreate, Replace, SetDefaults, Enabled, saveVars
<1>2. ASSUME NEW t \in Tasks, Lock(t) PROVE Saving'
  BY <1>2 DEF Lock, saveVars
<1>3. ASSUME NEW t \in Tasks, LoadRead(t) PROVE Saving'
  BY <1>3 DEF LoadRead, saveVars
<1>4. ASSUME NEW t \in Tasks, LoadFill(t) PROVE Saving'
  BY <1>4 DEF LoadFill, saveVars
<1>5. ASSUME NEW t \in Tasks, Leave(t) PROVE Saving'
  <2>1. CASE op[t] = "save"
    BY <1>5, <2>1, LeaveIs
  <2>2. CASE op[t] # "save"
    BY <1>5, <2>2, LeaveIs
  <2> QED BY <2>1, <2>2
<1>6. ASSUME NEW t \in Tasks, AskEnabled(t) PROVE Saving'
  BY <1>6 DEF AskEnabled, Call, saveVars
<1>7. CASE PostForm
  <2>1. form' \in Forms
    BY <1>7 DEF PostForm, Forms
  <2> QED BY <1>7, <2>1 DEF PostForm, Call
<1>8. CASE AskUpstream
  BY <1>8 DEF AskUpstream, Call, saveVars
<1>9. CASE SaveCheck \/ SaveMemory \/ Invalidate \/ Upstream \/ Resolve
  BY <1>9 DEF SaveCheck, SaveMemory, Invalidate, Upstream, Resolve, saveVars
<1>10. CASE SaveKeys
  BY <1>10 DEF SaveKeys, SaveKey, NextKey
<1>11. CASE Restart
  BY <1>11 DEF Restart
<1> QED
  BY <1>1, <1>2, <1>3, <1>4, <1>5, <1>6, <1>7, <1>8, <1>9, <1>10, <1>11
     DEF GatewayNext, Locking, Leave, HttpdStep

LEMMA MadeStep ==
  ASSUME Types, GatewayNext
  PROVE  Made'
<1> USE DEF Types, Private, Made, Inside, Tasks, Goto, At
<1>1. ASSUME NEW t \in Tasks,
             SetDefaults(t) \/ Enabled(t) \/ LoadRead(t)
      PROVE  Made'
  BY <1>1 DEF SetDefaults, Enabled, LoadRead, lockVars
<1>2. ASSUME NEW t \in Tasks, LockInit(t) PROVE Made'
  <2>1. CASE g_cfg_mutex = None
    BY <1>2, <2>1 DEF LockInit, lockVars
  <2>2. CASE g_cfg_mutex # None
    BY <1>2, <2>2 DEF LockInit, lockVars
  <2> QED BY <2>1, <2>2
<1>3. ASSUME NEW t \in Tasks, Lock(t) PROVE Made'
  BY <1>3 DEF Lock
<1>4. ASSUME NEW t \in Tasks, LoadFill(t) PROVE Made'
  BY <1>4 DEF LoadFill, lockVars
<1>5. ASSUME NEW t \in Tasks, LockCreate(t) PROVE Made'
  BY <1>5, GatewayAssumption DEF LockCreate, Replace, Mutexes
<1>6. ASSUME NEW t \in Tasks, Leave(t) PROVE Made'
  <2>1. CASE Unlock(t) \/ LockGone(t)
    BY <2>1, LeaveIs DEF Unlock, LockGone, Leave, lockVars
  <2>2. CASE LockFails(t)
    BY <2>2, LeaveIs DEF LockFails, Replace, Leave
  <2> QED BY <1>6, <2>1, <2>2 DEF Leave
<1>7. ASSUME NEW t \in Tasks, AskEnabled(t) PROVE Made'
  BY <1>7 DEF AskEnabled, Call, lockVars
<1>8. CASE PostForm \/ AskUpstream
  BY <1>8 DEF PostForm, AskUpstream, Call, lockVars
<1>9. CASE SaveCheck \/ SaveMemory \/ Invalidate \/ Upstream \/ Resolve
  BY <1>9 DEF SaveCheck, SaveMemory, Invalidate, Upstream, Resolve, lockVars
<1>10. CASE SaveKeys
  BY <1>10 DEF SaveKeys, SaveKey, NextKey, lockVars
<1>11. CASE Restart
  BY <1>11 DEF Restart
<1> QED
  BY <1>1, <1>2, <1>3, <1>4, <1>5, <1>6, <1>7, <1>8, <1>9, <1>10, <1>11
     DEF GatewayNext, Locking, Leave, HttpdStep

LEMMA TypesStep == Types /\ [GatewayNext]_gatewayVars => Types'
<1> SUFFICES ASSUME Types, [GatewayNext]_gatewayVars PROVE Types'
  OBVIOUS
<1>1. CASE UNCHANGED gatewayVars
  <2> USE <1>1 DEF Types, gatewayVars, cfgVars, lockVars, flashVars, saveVars
  <2>1. Shared'
    BY DEF Shared
  <2>2. Private'
    BY DEF Private
  <2>3. Saving' /\ Made'
    BY DEF Saving, Made, Inside
  <2> QED BY <2>1, <2>2, <2>3
<1>2. CASE GatewayNext
  BY <1>2, SharedStep, PrivateStep, SavingStep, MadeStep DEF Types
<1> QED BY <1>1, <1>2

-----------------------------------------------------------------------------
(* While there is one mutex, a step of the task that has it keeps the rest. *)

\* No second mutex was made before a step after which there is none, unless the
\* step is a restart.
LEMMA StillOne ==
  ASSUME Types, GatewayNext, ~twice'
  PROVE  ~twice \/ Restart
<1> USE DEF Types, Made, lockVars
<1>1. ASSUME NEW t \in Tasks, Locking(t) \/ AskEnabled(t) \/ Enabled(t)
      PROVE  ~twice
  BY <1>1 DEF Locking, LockInit, LockCreate, LockFails, LockGone, Replace, Lock,
              SetDefaults, LoadRead, LoadFill, Unlock, AskEnabled, Enabled
<1>2. CASE PostForm \/ AskUpstream \/ HttpdStep
  BY <1>2 DEF PostForm, AskUpstream, HttpdStep, SaveCheck, SaveKeys, SaveKey,
              SaveMemory, Invalidate, Upstream, Resolve
<1> QED BY <1>1, <1>2 DEF GatewayNext

\* Two tasks are never inside.
LEMMA Alone ==
  ASSUME Types, Held, NEW t \in Tasks, NEW u \in Tasks, Inside(t), Inside(u)
  PROVE  t = u
  BY DEF Held

LEMMA HeldStep ==
  ASSUME Types, ~twice, Held, GatewayNext, ~twice'
  PROVE  Held'
<1> USE GatewayAssumption DEF Types, Private, Held, Inside, Tasks, Goto, At
<1>1. ASSUME NEW t \in Tasks,
             LockInit(t) \/ SetDefaults(t) \/ Enabled(t) \/ LoadRead(t) \/ LoadFill(t)
      PROVE  Held'
  BY <1>1 DEF LockInit, SetDefaults, Enabled, LoadRead, LoadFill, lockVars
<1>2. ASSUME NEW t \in Tasks, LockCreate(t) PROVE Held'
  BY <1>2 DEF LockCreate, Replace, Made
<1>3. ASSUME NEW t \in Tasks, Lock(t) PROVE Held'
  BY <1>3 DEF Lock, Made, Shared
<1>4. ASSUME NEW t \in Tasks, Leave(t) PROVE Held'
  <2>1. CASE Unlock(t)
    BY <1>4, <2>1, LeaveIs DEF Unlock, Made, Shared
  <2>2. CASE LockFails(t)
    BY <1>4, <2>2, LeaveIs DEF LockFails, Replace, Made
  <2>3. CASE LockGone(t)
    BY <2>3 DEF LockGone, Made
  <2> QED BY <1>4, <2>1, <2>2, <2>3 DEF Leave
<1>5. ASSUME NEW t \in Tasks, AskEnabled(t) PROVE Held'
  BY <1>5 DEF AskEnabled, Call, lockVars
<1>6. CASE PostForm \/ AskUpstream
  BY <1>6 DEF PostForm, AskUpstream, Call, lockVars
<1>7. CASE SaveCheck \/ SaveMemory \/ Invalidate \/ Upstream \/ Resolve
  BY <1>7 DEF SaveCheck, SaveMemory, Invalidate, Upstream, Resolve, lockVars
<1>8. CASE SaveKeys
  BY <1>8 DEF SaveKeys, SaveKey, NextKey, lockVars
<1>9. CASE Restart
  BY <1>9 DEF Restart
<1> QED
  BY <1>1, <1>2, <1>3, <1>4, <1>5, <1>6, <1>7, <1>8, <1>9
     DEF GatewayNext, Locking, Leave, HttpdStep

LEMMA LoadingStep ==
  ASSUME Types, ~twice, Held, Loading, GatewayNext, ~twice'
  PROVE  Loading'
<1> USE DEF Types, Private, Loading, Tasks, Goto, At
<1>1. ASSUME NEW t \in Tasks, LockInit(t) \/ LockCreate(t) \/ Enabled(t)
      PROVE  Loading'
  <2>1. /\ UNCHANGED <<g_cfg, g_loaded, got, flash, torn>>
        /\ \A u \in Tasks \ {t} : pc'[u] = pc[u]
    BY <1>1 DEF LockInit, LockCreate, Replace, Enabled, cfgVars, flashVars
  <2>2. pc'[t] \notin {"defaults", "load", "fill"}
    BY <1>1 DEF LockInit, LockCreate, Replace, Enabled
  <2> QED BY <2>1, <2>2 DEF Key
<1>2. ASSUME NEW t \in Tasks, Lock(t) PROVE Loading'
  BY <1>2 DEF Lock, Ops, cfgVars, flashVars, Key
<1>3. ASSUME NEW t \in Tasks, SetDefaults(t) PROVE Loading'
  BY <1>3, Alone DEF SetDefaults, Inside, flashVars, Key
<1>4. ASSUME NEW t \in Tasks, LoadRead(t) PROVE Loading'
  BY <1>4 DEF LoadRead, cfgVars, flashVars, Key
<1>5. ASSUME NEW t \in Tasks, LoadFill(t) PROVE Loading'
  <2>1. \A u \in Tasks : pc'[u] \notin {"defaults", "load", "fill"}
    BY <1>5, Alone DEF LoadFill, Inside, Saving, Ops
  <2> QED BY <2>1
<1>6. ASSUME NEW t \in Tasks, Leave(t) PROVE Loading'
  <2>1. /\ UNCHANGED <<g_cfg, g_loaded, got, flash, torn>>
        /\ \A u \in Tasks \ {t} : pc'[u] = pc[u]
    BY <1>6, LeaveIs
  <2>2. pc'[t] \notin {"defaults", "load", "fill"}
    BY <1>6, LeaveIs
  <2> QED BY <2>1, <2>2 DEF Key
<1>7. ASSUME NEW t \in Tasks, AskEnabled(t) PROVE Loading'
  BY <1>7 DEF AskEnabled, Call, cfgVars, flashVars, Key
<1>8. CASE PostForm \/ AskUpstream \/ SaveCheck \/ Upstream
  <2>1. /\ UNCHANGED <<g_cfg, g_loaded, got, flash, torn>>
        /\ pc'["dns"] = pc["dns"]
    BY <1>8 DEF PostForm, AskUpstream, Call, SaveCheck, Upstream, cfgVars, flashVars
  <2>2. pc'["httpd"] \notin {"defaults", "load", "fill"}
    BY <1>8 DEF PostForm, AskUpstream, Call, SaveCheck, Upstream
  <2> QED BY <2>1, <2>2 DEF Key
<1>9. CASE SaveKeys
  BY <1>9 DEF SaveKeys, SaveKey, NextKey, cfgVars
<1>10. CASE SaveMemory \/ Invalidate \/ Resolve
  <2>1. \A u \in Tasks : pc'[u] \notin {"defaults", "load", "fill"}
    BY <1>10, Alone DEF SaveMemory, Invalidate, Resolve, Inside
  <2> QED BY <2>1
<1>11. CASE Restart
  BY <1>11 DEF Restart
<1> QED
  BY <1>1, <1>2, <1>3, <1>4, <1>5, <1>6, <1>7, <1>8, <1>9, <1>10, <1>11
     DEF GatewayNext, Locking, Leave, HttpdStep

LEMMA WrittenStep ==
  ASSUME Types, Written, GatewayNext
  PROVE  Written'
<1> USE DEF Types, Private, Written, Tasks, Goto, At
<1>1. ASSUME NEW t \in Tasks,
             LockInit(t) \/ LockCreate(t) \/ SetDefaults(t) \/ LoadRead(t) \/ Enabled(t)
      PROVE  Written'
  <2>1. UNCHANGED <<flash, form, ok>>
    BY <1>1 DEF LockInit, LockCreate, Replace, SetDefaults, LoadRead, Enabled,
                flashVars, saveVars
  <2>2. pc'["httpd"] = pc["httpd"] \/ pc'["httpd"] \notin {"host_key", "port_key", "memory"}
    BY <1>1 DEF LockInit, LockCreate, Replace, SetDefaults, LoadRead, Enabled
  <2> QED BY <2>1, <2>2
<1>2. ASSUME NEW t \in Tasks, Lock(t) PROVE Written'
  BY <1>2 DEF Lock, Ops, flashVars, saveVars
<1>3. ASSUME NEW t \in Tasks, LoadFill(t) PROVE Written'
  BY <1>3 DEF LoadFill, Ops, flashVars, saveVars
<1>4. ASSUME NEW t \in Tasks, Leave(t) PROVE Written'
  <2>1. CASE t = "httpd"
    BY <1>4, <2>1, LeaveIs
  <2>2. CASE t = "dns"
    BY <1>4, <2>2, LeaveIs DEF Saving
  <2> QED BY <2>1, <2>2
<1>5. ASSUME NEW t \in Tasks, AskEnabled(t) PROVE Written'
  BY <1>5 DEF AskEnabled, Call, flashVars, saveVars
<1>6. CASE PostForm \/ AskUpstream
  BY <1>6 DEF PostForm, AskUpstream, Call
<1>7. CASE SaveCheck \/ SaveMemory \/ Invalidate \/ Upstream \/ Resolve
  BY <1>7 DEF SaveCheck, SaveMemory, Invalidate, Upstream, Resolve
<1>8. CASE SaveKey("enabled", "enabled_key")
  BY <1>8 DEF SaveKey, NextKey, Shared, Keys
<1>9. CASE SaveKey("host", "host_key")
  BY <1>9 DEF SaveKey, NextKey, Shared, Keys
<1>10. CASE SaveKey("port", "port_key")
  BY <1>10 DEF SaveKey, NextKey, Shared, Keys
<1>11. CASE Restart
  BY <1>11 DEF Restart
<1> QED
  BY <1>1, <1>2, <1>3, <1>4, <1>5, <1>6, <1>7, <1>8, <1>9, <1>10, <1>11
     DEF GatewayNext, Locking, Leave, HttpdStep, SaveKeys

LEMMA AgreeStep ==
  ASSUME Types, ~twice, Held, Loading, Written, Agree, GatewayNext, ~twice'
  PROVE  Agree'
<1> USE DEF Types, Agree, Tasks, Goto, At, Reloaded, Key
<1>1. ASSUME NEW t \in Tasks,
             LockInit(t) \/ LockCreate(t) \/ Lock(t) \/ LoadRead(t) \/ Leave(t)
               \/ AskEnabled(t) \/ Enabled(t)
      PROVE  Agree'
  <2>1. UNCHANGED <<g_cfg, g_loaded, flash, torn>>
    BY <1>1, LeaveIs DEF LockInit, LockCreate, Lock, LoadRead, AskEnabled, Enabled,
                         cfgVars, flashVars
  <2> QED BY <2>1
<1>2. ASSUME NEW t \in Tasks, SetDefaults(t) PROVE Agree'
  <2>1. ~g_loaded'
    BY <1>2 DEF SetDefaults, Loading
  <2> QED BY <2>1
<1>3. ASSUME NEW t \in Tasks, LoadFill(t) PROVE Agree'
  <2>1. /\ g_cfg = Defaults
        /\ ~torn => got[t] = Key("enabled", FALSE)
    BY <1>3 DEF LoadFill, Loading
  <2>2. /\ g_cfg'.enabled = got[t]
        /\ g_cfg'.host = Key("host", g_cfg.host)
        /\ g_cfg'.port = Key("port", g_cfg.port)
    BY <1>3 DEF LoadFill, Shared, Configs
  <2>3. UNCHANGED <<flash, torn>>
    BY <1>3 DEF LoadFill, flashVars
  <2> QED BY <2>1, <2>2, <2>3 DEF Defaults
<1>4. CASE PostForm \/ AskUpstream \/ SaveCheck \/ Upstream
  <2>1. UNCHANGED <<g_cfg, g_loaded, flash, torn>>
    BY <1>4 DEF PostForm, AskUpstream, SaveCheck, Upstream, cfgVars, flashVars
  <2> QED BY <2>1
<1>5. CASE SaveKeys
  <2>1. torn'
    BY <1>5 DEF SaveKeys, SaveKey
  <2> QED BY <2>1
<1>6. CASE SaveMemory
  <2>1. CASE ~ok
    BY <1>6, <2>1 DEF SaveMemory, cfgVars
  <2>2. CASE ok
    <3>1. /\ flash.enabled = form.enabled /\ flash.host = form.host
          /\ flash.port = form.port
      BY <1>6, <2>2 DEF SaveMemory, Written
    <3>2. form.enabled # None /\ form.host # None /\ form.port # None
      BY <1>6, GatewayAssumption DEF SaveMemory, Saving, Forms
    <3>3. g_cfg' = WithoutAddress(form) /\ flash' = flash
      BY <1>6, <2>2 DEF SaveMemory
    <3> QED BY <3>1, <3>2, <3>3 DEF WithoutAddress
  <2> QED BY <2>1, <2>2
<1>7. CASE Invalidate \/ Resolve
  <2>1. /\ g_cfg'.enabled = g_cfg.enabled /\ g_cfg'.host = g_cfg.host
        /\ g_cfg'.port = g_cfg.port
    BY <1>7 DEF Invalidate, Resolve, Shared, Configs
  <2>2. UNCHANGED <<g_loaded, flash, torn>>
    BY <1>7 DEF Invalidate, Resolve, flashVars
  <2> QED BY <2>1, <2>2
<1>8. CASE Restart
  BY <1>8 DEF Restart
<1> QED
  BY <1>1, <1>2, <1>3, <1>4, <1>5, <1>6, <1>7, <1>8
     DEF GatewayNext, Locking, Leave, HttpdStep

LEMMA ResolvedStep ==
  ASSUME Types, Loading, Resolved, GatewayNext
  PROVE  Resolved'
<1> USE DEF Types, Resolved, Tasks, At
<1>1. ASSUME NEW t \in Tasks,
             LockInit(t) \/ LockCreate(t) \/ Lock(t) \/ LoadRead(t) \/ Leave(t)
               \/ AskEnabled(t) \/ Enabled(t)
      PROVE  Resolved'
  BY <1>1, LeaveIs DEF LockInit, LockCreate, Lock, LoadRead, AskEnabled, Enabled,
                       cfgVars
<1>2. ASSUME NEW t \in Tasks, SetDefaults(t) PROVE Resolved'
  BY <1>2 DEF SetDefaults, Defaults
<1>3. ASSUME NEW t \in Tasks, LoadFill(t) PROVE Resolved'
  <2>1. g_cfg'.resolved_ip = g_cfg.resolved_ip
    BY <1>3 DEF LoadFill, Shared, Configs
  <2>2. g_cfg = Defaults
    BY <1>3 DEF LoadFill, Loading
  <2> QED BY <2>1, <2>2 DEF Defaults
<1>4. CASE PostForm \/ AskUpstream \/ SaveCheck \/ SaveKeys \/ Upstream
  BY <1>4 DEF PostForm, AskUpstream, SaveCheck, SaveKeys, SaveKey, Upstream, cfgVars
<1>5. CASE SaveMemory
  BY <1>5 DEF SaveMemory, WithoutAddress, cfgVars
<1>6. CASE Invalidate \/ Resolve
  BY <1>6 DEF Invalidate, Resolve, Shared, Configs
<1>7. CASE Restart
  BY <1>7 DEF Restart, Defaults
<1> QED
  BY <1>1, <1>2, <1>3, <1>4, <1>5, <1>6, <1>7 DEF GatewayNext, Locking, Leave, HttpdStep

\* After a restart everything starts again.
LEMMA RestartOne ==
  ASSUME Restart
  PROVE  OneMutex'
  BY DEF Restart, OneMutex, Held, Inside, Loading, Written, Agree, Resolved,
         Defaults, Tasks

LEMMA IInvStep == IInv /\ [GatewayNext]_gatewayVars => IInv'
<1> SUFFICES ASSUME IInv, [GatewayNext]_gatewayVars PROVE IInv'
  OBVIOUS
<1>1. Types'
  BY TypesStep DEF IInv
<1>2. ASSUME ~twice' PROVE OneMutex'
  <2>1. CASE UNCHANGED gatewayVars
    <3> USE <2>1 DEF gatewayVars, cfgVars, lockVars, flashVars, saveVars
    <3>1. OneMutex
      BY <1>2 DEF IInv
    <3>2. Held' /\ Loading' /\ Written'
      BY <3>1 DEF OneMutex, Held, Inside, Loading, Key, Written
    <3>3. Agree' /\ Resolved'
      BY <3>1 DEF OneMutex, Agree, Reloaded, Key, Resolved
    <3> QED BY <3>2, <3>3 DEF OneMutex
  <2>2. CASE Restart
    BY <2>2, RestartOne
  <2>3. CASE GatewayNext /\ ~Restart
    BY <1>2, <2>3, StillOne, HeldStep, LoadingStep, WrittenStep, AgreeStep,
       ResolvedStep DEF IInv, OneMutex
  <2> QED BY <2>1, <2>2, <2>3
<1> QED BY <1>1, <1>2 DEF IInv

LEMMA Invariance == GatewaySpec => []IInv
  BY InitIInv, IInvStep, PTL DEF GatewaySpec

-----------------------------------------------------------------------------
\* The types, for any hosts and ports.
THEOREM TypeCorrect == GatewaySpec => []TypeOK
<1>1. IInv => TypeOK
  BY DEF IInv, Types, Shared, Private, Keys, Ops, TypeOK
<1> QED BY Invariance, <1>1, PTL

\* cfg_lock() keeps the two tasks apart, unless one replaced the mutex
\* the other had made.
THEOREM OneAtATimeCorrect == GatewaySpec => []OneAtATime
<1>1. IInv => OneAtATime
  BY DEF IInv, OneMutex, Held, OneAtATime, Tasks
<1> QED BY Invariance, <1>1, PTL

\* cfg_unlock() gives back what the task has.
THEOREM NoPanicCorrect == GatewaySpec => []NoPanic
<1>1. IInv => NoPanic
  BY DEF IInv, OneMutex, Held, NoPanic, Panics, At, Inside
<1> QED BY Invariance, <1>1, PTL

\* What a restart finds is what is in memory, unless a save failed or was cut.
THEOREM MemoryCorrect == GatewaySpec => []MemoryIsFlash
<1>1. ASSUME IInv PROVE MemoryIsFlash
  <2> SUFFICES ASSUME g_loaded, ~torn, ~twice
               PROVE  g_cfg = [WithoutAddress(Reloaded) EXCEPT
                                 !.resolved_ip = g_cfg.resolved_ip]
    BY DEF MemoryIsFlash
  <2>1. g_cfg \in Configs
    BY <1>1 DEF IInv, Types, Shared
  <2>2. g_cfg = [enabled |-> g_cfg.enabled, host |-> g_cfg.host,
                 port |-> g_cfg.port, resolved_ip |-> g_cfg.resolved_ip]
    BY <2>1 DEF Configs
  <2>3. /\ g_cfg.enabled = Reloaded.enabled /\ g_cfg.host = Reloaded.host
        /\ g_cfg.port = Reloaded.port
    BY <1>1 DEF IInv, OneMutex, Agree
  <2> QED BY <2>2, <2>3 DEF WithoutAddress
<1> QED BY Invariance, <1>1, PTL

\* The relay never connects to the address of another host than the one that is
\* configured: the cached address goes with the host, in whatever order it is
\* resolved, saved, refused and forgotten.
THEOREM AddressCorrect == GatewaySpec => []AddressOfHost
<1>1. IInv => AddressOfHost
  BY DEF IInv, OneMutex, Resolved, AddressOfHost
<1> QED BY Invariance, <1>1, PTL

\* ... and so the parts of the configuration's order hold together.
THEOREM SafetyCorrect == GatewaySpec => []Safety
  BY TypeCorrect, OneAtATimeCorrect, NoPanicCorrect, MemoryCorrect, PTL DEF Safety

-----------------------------------------------------------------------------
(* The relay: its invariant, in parts.                                     *)

\* Where the body begins in what upstream sends, less one.
BodyAt == BlankLine(response.bytes) + 3

\* The whole head is not there.
CutOff == lapses \cap {"cut_head", "long_head"} # {}

\* What the phone got is what it was meant to get.
Clear == lapses \cap {"cramped", "short"} = {}

\* What the phone may get.
Told == Bytes \cup {"NUL", "STRAY"}

\* What is open and allocated, the answer at hand, what is still untouched, and
\* the lapses there may have been, by stage.
ByStage ==
  /\ sock <=> stage \notin {"idle", "upstream"}
  /\ heap = IF stage \in {"head", "build", "leftover"} THEN {"head"}
            ELSE IF stage = "lines" THEN {"head", "out"} ELSE {}
  /\ IF stage \in {"idle", "upstream", "connect", "post", "answer"}
     THEN response = Absent ELSE response \in Responses
  /\ stage \notin {"leftover", "rest", "close"} => sent_head = Absent
  /\ stage \notin {"lines", "leftover", "rest", "close"} => ~has_content_length
  /\ stage \notin {"leftover", "rest", "close"} => sent_body = <<>>
  /\ stage = "leftover" /\ Clear => sent_body = <<>>
  /\ stage \notin {"rest", "close"} => body_relayed = 0 /\ "endless" \notin lapses
  /\ stage \in {"idle", "upstream", "connect", "post", "answer"} =>
       head = <<>> /\ ~found_terminator
  /\ sent_body \in Seq(Told)
  /\ stage \in {"idle", "upstream", "connect", "post", "answer"} => ~CutOff

\* The head and what is to come are the two parts of what upstream sends.
HeadIsFirst ==
  stage \in {"head", "build", "lines", "leftover"} =>
    /\ head \in Seq(Bytes) /\ upstream \in Seq(Bytes)
    /\ Len(head) + Len(upstream) = Len(response.bytes)
    /\ \A i \in 1..Len(head) : head[i] = response.bytes[i]
    /\ \A i \in 1..Len(upstream) : upstream[i] = response.bytes[Len(head) + i]

\* The search for the blank line has found it, or it is not there.
SearchRight ==
  stage \in {"head", "build", "lines", "leftover"} =>
    /\ stage = "head" => ~found_terminator /\ ~CutOff
    /\ stage # "head" => (found_terminator <=> ~CutOff)
    /\ IF found_terminator THEN BodyAt <= Len(head)
       ELSE \A i \in 1..(Len(head) - 3) : SubSeq(head, i, i + 3) # End

\* The lines before line_start are done: a Content-Length among them was passed
\* on, and what is put together is no longer than what it was taken from.
LinesDone ==
  stage = "lines" =>
    /\ out \in [status : {OK, response.status}, lines : Seq({"L", "H"}), len : Nat]
    /\ line_start \in Nat
    /\ has_content_length <=> "L" \in ToSet(out.lines)
    /\ has_content_length <=> \E i \in 1..(line_start - 1) : head[i] = "L"
    /\ line_start # 0 =>
         /\ line_start > 3 /\ line_start - 1 <= Len(head)
         /\ head[line_start - 1] = "LF" /\ out.len < line_start
    /\ ~CutOff => /\ line_start # 0 /\ line_start - 1 <= BodyAt - 2
                  /\ response.long \/ out.status = response.status

\* What the phone was told of the length is what upstream said.
LengthTold ==
  stage \in {"leftover", "rest"} \/ (stage = "close" /\ sent_head # Absent) =>
    /\ ~CutOff =>
         /\ response.long \/ sent_head.status = response.status
         /\ has_content_length <=> response.length # Absent
    /\ sent_head.ended \/ "short" \notin lapses =>
         (has_content_length <=> "L" \in ToSet(sent_head.lines))
    /\ ToSet(sent_head.lines) \cap {"T", "K"} = {}

\* What is still to come follows what was passed on.
RestFollows ==
  stage = "rest" /\ ~CutOff /\ "endless" \notin lapses =>
    /\ BodyAt + body_relayed + Len(upstream) = Len(response.bytes)
    /\ \A i \in 1..Len(upstream) :
         upstream[i] = response.bytes[BodyAt + body_relayed + i]
    /\ Clear => Len(sent_body) = body_relayed

\* ... and only an endless answer goes on.
RestTyped ==
  stage = "rest" =>
    /\ upstream \in Seq(Bytes)
    /\ "endless" \in lapses => response.endless

\* What was passed on is the beginning of the body, and at the end all of it.
BodySoFar ==
  stage \in {"rest", "close"} /\ ~CutOff /\ Clear =>
    /\ BodyAt + Len(sent_body) <= Len(response.bytes)
    /\ \A i \in 1..Len(sent_body) : sent_body[i] = response.bytes[BodyAt + i]
    /\ stage = "close" /\ lapses = {} /\ Honest =>
         BodyAt + Len(sent_body) = Len(response.bytes)

\* What upstream was sent and what is still to come are the 0 and the phone's
\* body.
Sent == Bytes \cup {"NUL"}
PostSoFar ==
  /\ stage \in {"upstream", "connect"} => post \in Seq(Bytes) /\ remaining = post
  /\ stage \in {"post", "answer"} =>
       /\ post \in Seq(Bytes) /\ remaining \in Seq(Bytes)
       /\ to_upstream \in Seq(Sent)
       /\ "short" \notin lapses => to_upstream \o remaining = <<"NUL">> \o post
  /\ stage = "answer" /\ "gone" \notin lapses => remaining = <<>>

RelayInv ==
  /\ RelayTypeOK /\ ByStage /\ HeadIsFirst /\ SearchRight /\ LinesDone
  /\ LengthTold /\ RestTyped /\ RestFollows /\ BodySoFar

-----------------------------------------------------------------------------
(* The operators on bytes.                                                 *)

\* A non-empty set of naturals has a least element.
LEMMA NatHasLeast ==
  ASSUME NEW T \in SUBSET Nat, T # {}
  PROVE  \E x \in T : \A y \in T : x <= y
<1> DEFINE R == OpToRel(<, Nat)
<1>1. IsWellFoundedOn(R, Nat)
  BY NatLessThanWellFounded
<1>2. PICK x \in T : \A y \in T : ~ (<<y, x>> \in R)
  <2> HIDE DEF R
  <2> QED BY <1>1, WFMin
<1>3. \A y \in T : ~ (y < x)
  BY <1>2 DEF OpToRel
<1> HIDE DEF R
<1> QED BY <1>3, SMT

\* What one sequence put behind another is, place by place.
LEMMA Joined ==
  ASSUME NEW S, NEW a \in Seq(S), NEW b \in Seq(S)
  PROVE  /\ a \o b \in Seq(S) /\ Len(a \o b) = Len(a) + Len(b)
         /\ \A k \in 1..(Len(a) + Len(b)) :
              (a \o b)[k] = IF k <= Len(a) THEN a[k] ELSE b[k - Len(a)]
BY ConcatProperties

LEMMA FirstIs ==
  ASSUME NEW S, NEW s \in Seq(S), NEW k \in 0..Len(s)
  PROVE  /\ First(s, k) \in Seq(S) /\ Len(First(s, k)) = k
         /\ \A i \in 1..k : First(s, k)[i] = s[i]
BY DEF First

LEMMA FromIs ==
  ASSUME NEW S, NEW s \in Seq(S), NEW k \in 0..Len(s)
  PROVE  /\ From(s, k + 1) \in Seq(S) /\ Len(From(s, k + 1)) = Len(s) - k
         /\ \A i \in 1..(Len(s) - k) : From(s, k + 1)[i] = s[k + i]
BY DEF From

LEMMA FourIs ==
  ASSUME NEW S, NEW a \in S, NEW b \in S
  PROVE  LET w == <<a, b, a, b>> IN
         w \in Seq(S) /\ Len(w) = 4 /\ w[1] = a /\ w[2] = b /\ w[3] = a /\ w[4] = b
OBVIOUS

LEMMA EndIs ==
  ASSUME NEW s \in Seq(Bytes), NEW i \in 1..(Len(s) - 3)
  PROVE  SubSeq(s, i, i + 3) = End <=>
           s[i] = "CR" /\ s[i + 1] = "LF" /\ s[i + 2] = "CR" /\ s[i + 3] = "LF"
<1> DEFINE w == SubSeq(s, i, i + 3)
<1>1. w \in Seq(Bytes) /\ Len(w) = 4
  OBVIOUS
<1>2. w[1] = s[i] /\ w[2] = s[i + 1] /\ w[3] = s[i + 2] /\ w[4] = s[i + 3]
  OBVIOUS
<1>3. End \in Seq(Bytes) /\ Len(End) = 4
      /\ End[1] = "CR" /\ End[2] = "LF" /\ End[3] = "CR" /\ End[4] = "LF"
  <2>1. "CR" \in Bytes /\ "LF" \in Bytes
    BY DEF Bytes
  <2> QED BY <2>1, FourIs DEF End
<1> HIDE DEF w
<1>4. w = End <=> w[1] = End[1] /\ w[2] = End[2] /\ w[3] = End[3] /\ w[4] = End[4]
  <2>1. ASSUME w[1] = End[1], w[2] = End[2], w[3] = End[3], w[4] = End[4]
        PROVE  w = End
    <3>1. \A j \in 1..4 : j = 1 \/ j = 2 \/ j = 3 \/ j = 4
      OBVIOUS
    <3> QED BY <1>1, <1>3, <2>1, <3>1, SeqEqual
  <2> QED BY <2>1
<1>5. w = SubSeq(s, i, i + 3)
  BY DEF w
<1> QED BY <1>2, <1>3, <1>4, <1>5

\* In an answer there is a first blank line.
LEMMA BlankLineIs ==
  ASSUME NEW r \in Responses
  PROVE  LET b == r.bytes
             at == BlankLine(b) IN
         /\ b \in Seq(Bytes) /\ at \in 1..(Len(b) - 3)
         /\ SubSeq(b, at, at + 3) = End
         /\ \A j \in 1..(at - 1) : SubSeq(b, j, j + 3) # End
<1> DEFINE b == r.bytes
           T == {i \in 1..(Len(b) - 3) : SubSeq(b, i, i + 3) = End}
<1>1. b \in Seq(Bytes) /\ T # {}
  BY RelayAssumption DEF IsAnswer
<1>2. PICK x \in T : \A y \in T : x <= y
  <2>1. T \in SUBSET Nat
    BY <1>1
  <2> HIDE DEF T
  <2> QED BY <1>1, <2>1, NatHasLeast
<1>3. x \in 1..(Len(b) - 3) /\ SubSeq(b, x, x + 3) = End
  BY <1>2
<1>4. ASSUME NEW j \in 1..(x - 1) PROVE SubSeq(b, j, j + 3) # End
  <2>1. j \in 1..(Len(b) - 3) /\ ~(x <= j)
    BY <1>1, <1>3
  <2> QED BY <1>2, <2>1
<1> HIDE DEF b, T
<1>5. \E i \in 1..(Len(b) - 3) :
        /\ SubSeq(b, i, i + 3) = End
        /\ \A j \in 1..(i - 1) : SubSeq(b, j, j + 3) # End
  BY <1>3, <1>4
<1>6. /\ BlankLine(b) \in 1..(Len(b) - 3)
      /\ SubSeq(b, BlankLine(b), BlankLine(b) + 3) = End
      /\ \A j \in 1..(BlankLine(b) - 1) : SubSeq(b, j, j + 3) # End
  BY <1>5, Zenon DEF BlankLine
<1> QED BY <1>1, <1>6 DEF b

\* A first blank line is where HeadEnd says; without one it says 0.
LEMMA HeadEndIs ==
  ASSUME head \in Seq(Bytes)
  PROVE  /\ (\A i \in 1..(Len(head) - 3) : SubSeq(head, i, i + 3) # End)
              => HeadEnd = 0
         /\ \A at \in 1..(Len(head) - 3) :
              /\ SubSeq(head, at, at + 3) = End
              /\ \A j \in 1..(at - 1) : SubSeq(head, j, j + 3) # End
              => HeadEnd = at + 3
<1>1. ASSUME \A i \in 1..(Len(head) - 3) : SubSeq(head, i, i + 3) # End
      PROVE  HeadEnd = 0
  BY <1>1 DEF HeadEnd, Ends
<1>2. ASSUME NEW at \in 1..(Len(head) - 3), SubSeq(head, at, at + 3) = End,
             \A j \in 1..(at - 1) : SubSeq(head, j, j + 3) # End
      PROVE  HeadEnd = at + 3
  <2>1. at \in Ends /\ Ends \subseteq Nat
    BY <1>2 DEF Ends
  <2>2. ASSUME NEW j \in Ends PROVE at <= j
    <3>1. j \in 1..(Len(head) - 3) /\ SubSeq(head, j, j + 3) = End
      BY DEF Ends
    <3> QED BY <1>2, <3>1
  <2>3. ASSUME NEW i \in Ends, \A j \in Ends : i <= j PROVE i = at
    BY <2>1, <2>2, <2>3
  <2>4. (CHOOSE i \in Ends : \A j \in Ends : i <= j) = at
    BY <2>1, <2>2, <2>3
  <2> QED BY <2>1, <2>4 DEF HeadEnd
<1> QED BY <1>1, <1>2

-----------------------------------------------------------------------------
(* The invariant, step by step.                                            *)

Early == {"idle", "upstream", "connect", "post", "answer"}

LEMMA EmptyIs == ASSUME NEW S PROVE <<>> \in Seq(S) /\ Len(<<>>) = 0
OBVIOUS

LEMMA RelayInvInit == RelayInit => RelayInv
<1> SUFFICES ASSUME RelayInit PROVE RelayInv
  OBVIOUS
<1> USE DEF RelayInit
<1>1. RelayTypeOK
  <2>1. Len(head) < HEAD_BUF_SIZE
    BY EmptyIs, RelayAssumption
  <2> QED BY <2>1 DEF RelayTypeOK, Stages
<1>2. ByStage
  BY EmptyIs DEF ByStage, CutOff, Clear
<1> QED BY <1>1, <1>2 DEF RelayInv, HeadIsFirst, SearchRight, LinesDone, LengthTold,
                          RestTyped, RestFollows, BodySoFar

\* Before upstream answers.
LEMMA EarlyStep ==
  ASSUME RelayInv,
         Request \/ Refuse \/ OpenSocket \/ ConnectFails \/ SendRequest \/ PostChunk
         \/ PostEnds
  PROVE  RelayInv'
<1> USE DEF RelayInv
<1>1. /\ stage \in Early /\ stage' \in Early
      /\ UNCHANGED <<response, heap, head, found_terminator, sent_head, sent_body,
                     has_content_length, body_relayed>>
      /\ \/ lapses' = lapses
         \/ lapses' = lapses \cup {"gone"} \/ lapses' = lapses \cup {"short"}
  BY DEF Request, Refuse, OpenSocket, ConnectFails, SendRequest, PostChunk, PostEnds,
         Send, headVars, sentVars, upVars, reqVars, outVars, Early
<1>2. sock' = (stage' \notin {"idle", "upstream"}) /\ sock' \in BOOLEAN
      /\ answer' \in {"none", "page", "portal", "500"}
  BY DEF Request, Refuse, OpenSocket, ConnectFails, SendRequest, PostChunk, PostEnds,
         ByStage, RelayTypeOK, reqVars
<1>3. RelayTypeOK'
  BY <1>1, <1>2 DEF RelayTypeOK, Stages, Early
<1>4. ByStage'
  BY <1>1, <1>2 DEF ByStage, CutOff, Clear, Early
<1> QED BY <1>1, <1>3, <1>4 DEF HeadIsFirst, SearchRight, LinesDone, LengthTold,
                               RestTyped, RestFollows, BodySoFar, Early

LEMMA AnswerStep ==
  ASSUME RelayInv, Answer
  PROVE  RelayInv'
<1> USE DEF RelayInv, Answer
<1>1. PICK r \in Responses : response' = r /\ upstream' = r.bytes
  OBVIOUS
<1>2. \/ stage' = "head" /\ heap' = {"head"} /\ lapses' = lapses
      \/ /\ stage' = "close" /\ heap' = heap
         /\ lapses' = lapses \cup {"memory"} \/ lapses' = lapses \cup {"gone"}
  OBVIOUS
<1>3. UNCHANGED <<answer, sock, head, found_terminator, sent_head, sent_body,
                  has_content_length, body_relayed>> /\ stage = "answer"
  BY DEF headVars, sentVars
<1>4. RelayTypeOK'
  BY <1>2, <1>3 DEF RelayTypeOK, Stages
<1>5. ByStage'
  BY <1>1, <1>2, <1>3 DEF ByStage, CutOff
<1>6. head = <<>> /\ sent_head = Absent /\ sent_body = <<>> /\ ~CutOff
      /\ ~found_terminator
  BY <1>3 DEF ByStage
<1>7. HeadIsFirst'
  <2>1. r.bytes \in Seq(Bytes) /\ <<>> \in Seq(Bytes)
    BY BlankLineIs
  <2> QED BY <1>1, <1>2, <1>3, <1>6, <2>1 DEF HeadIsFirst
<1>8. SearchRight'
  BY <1>2, <1>3, <1>6 DEF SearchRight, CutOff
<1>9. BodySoFar'
  <2>1. /\ BlankLine(r.bytes) + 3 \in Nat /\ BlankLine(r.bytes) + 3 <= Len(r.bytes)
        /\ Len(r.bytes) \in Nat
    BY BlankLineIs
  <2>2. BodyAt' = BlankLine(r.bytes) + 3 /\ response' = r
    BY <1>1 DEF BodyAt
  <2>3. sent_body' = <<>> /\ Len(<<>>) = 0
    BY <1>3, <1>6
  <2>4. ~(stage' = "close" /\ lapses' = {}) /\ stage' # "rest"
    BY <1>2
  <2>5. BodyAt' + Len(sent_body') <= Len(response'.bytes)
    BY <2>1, <2>2, <2>3
  <2>6. \A i \in 1..Len(sent_body') : sent_body'[i] = response'.bytes[BodyAt' + i]
    BY <2>3
  <2> QED BY <2>4, <2>5, <2>6 DEF BodySoFar
<1>10. LinesDone' /\ LengthTold' /\ RestTyped' /\ RestFollows'
  BY <1>2, <1>3, <1>6 DEF LinesDone, LengthTold, RestTyped, RestFollows
<1> QED BY <1>4, <1>5, <1>7, <1>8, <1>9, <1>10

LEMMA CloseStep ==
  ASSUME RelayInv, Close
  PROVE  RelayInv'
<1> USE DEF RelayInv, Close
<1>1. heap = {} /\ heap' = heap /\ answer' = answer
  BY DEF ByStage, reqVars
<1>2. RelayTypeOK'
  <2>1. Len(head') < HEAD_BUF_SIZE
    BY EmptyIs, RelayAssumption
  <2> QED BY <1>1, <2>1 DEF RelayTypeOK, Stages
<1>3. ByStage'
  BY <1>1, EmptyIs DEF ByStage, CutOff
<1> QED BY <1>2, <1>3 DEF HeadIsFirst, SearchRight, LinesDone, LengthTold,
                          RestTyped, RestFollows, BodySoFar

LEMMA LeastIs ==
  ASSUME NEW a \in Nat, NEW c \in Nat, NEW k \in 1..Least(a, c)
  PROVE  k \in Nat /\ 1 <= k /\ k <= a /\ k <= c
BY DEF Least

\* A blank line in the beginning of s is one of s.
LEMMA EndStays ==
  ASSUME NEW s \in Seq(Bytes), NEW t \in Seq(Bytes), Len(s) <= Len(t),
         \A j \in 1..Len(s) : s[j] = t[j],
         NEW i \in 1..(Len(s) - 3)
  PROVE  SubSeq(s, i, i + 3) = End <=> SubSeq(t, i, i + 3) = End
<1>1. i \in 1..(Len(t) - 3) /\ {i, i + 1, i + 2, i + 3} \subseteq 1..Len(s)
  OBVIOUS
<1>2. s[i] = t[i] /\ s[i + 1] = t[i + 1] /\ s[i + 2] = t[i + 2] /\ s[i + 3] = t[i + 3]
  BY <1>1
<1>3. SubSeq(s, i, i + 3) = End <=>
        s[i] = "CR" /\ s[i + 1] = "LF" /\ s[i + 2] = "CR" /\ s[i + 3] = "LF"
  BY EndIs
<1>4. SubSeq(t, i, i + 3) = End <=>
        t[i] = "CR" /\ t[i + 1] = "LF" /\ t[i + 2] = "CR" /\ t[i + 3] = "LF"
  BY <1>1, EndIs
<1> QED BY <1>2, <1>3, <1>4

\* A receive of k bytes, searched from three bytes before them.
LEMMA ReceiveIs ==
  ASSUME RelayInv, stage = "head",
         NEW k \in 1..Least(HeadRoom, Len(upstream))
  PROVE  LET b == response.bytes
             h == head \o First(upstream, k)
             u == From(upstream, k + 1) IN
         /\ h \in Seq(Bytes) /\ Len(h) = Len(head) + k /\ Len(h) < HEAD_BUF_SIZE
         /\ u \in Seq(Bytes) /\ Len(h) + Len(u) = Len(b)
         /\ \A i \in 1..Len(h) : h[i] = b[i]
         /\ \A i \in 1..Len(u) : u[i] = b[Len(h) + i]
         /\ IF Scan(h, k) THEN BlankLine(b) + 3 <= Len(h)
            ELSE \A i \in 1..(Len(h) - 3) : SubSeq(h, i, i + 3) # End
<1> DEFINE b == response.bytes
           g == First(upstream, k)
           h == head \o g
           u == From(upstream, k + 1)
<1>1. /\ head \in Seq(Bytes) /\ upstream \in Seq(Bytes)
      /\ Len(head) + Len(upstream) = Len(b)
      /\ \A i \in 1..Len(head) : head[i] = b[i]
      /\ \A i \in 1..Len(upstream) : upstream[i] = b[Len(head) + i]
  BY DEF RelayInv, HeadIsFirst
<1>2. /\ Len(head) \in Nat /\ Len(upstream) \in Nat /\ HeadRoom \in Nat
      /\ Len(head) + HeadRoom < HEAD_BUF_SIZE
  BY <1>1, RelayAssumption DEF RelayInv, RelayTypeOK, HeadRoom
<1>3. k \in Nat /\ 1 <= k /\ Len(head) + k < HEAD_BUF_SIZE /\ k <= Len(upstream)
  <2>1. k \in Nat /\ 1 <= k /\ k <= HeadRoom /\ k <= Len(upstream)
    BY <1>2, LeastIs
  <2> QED BY <2>1, <1>2, RelayAssumption
<1>4. g \in Seq(Bytes) /\ Len(g) = k /\ \A i \in 1..k : g[i] = upstream[i]
  <2>1. k \in 0..Len(upstream)
    BY <1>2, <1>3
  <2> QED BY <1>1, <2>1, FirstIs
<1>5. /\ u \in Seq(Bytes) /\ Len(u) = Len(upstream) - k
      /\ \A i \in 1..(Len(upstream) - k) : u[i] = upstream[k + i]
  <2>1. k \in 0..Len(upstream) /\ upstream \in Seq(Bytes)
    BY <1>1, <1>2, <1>3
  <2> QED BY <2>1, FromIs
<1> HIDE DEF g, u
<1>6. /\ h \in Seq(Bytes) /\ Len(h) = Len(head) + k
      /\ \A i \in 1..(Len(head) + k) :
           h[i] = IF i <= Len(head) THEN head[i] ELSE g[i - Len(head)]
  <2>2. head \in Seq(Bytes) /\ g \in Seq(Bytes)
    BY <1>1, <1>4
  <2>3. LET v == head \o g IN
        /\ v \in Seq(Bytes) /\ Len(v) = Len(head) + Len(g)
        /\ \A i \in 1..(Len(head) + Len(g)) :
             v[i] = IF i <= Len(head) THEN head[i] ELSE g[i - Len(head)]
    BY <2>2, Joined
  <2>4. Len(g) = k
    BY <1>4
  <2> QED BY <2>3, <2>4
<1> HIDE DEF h
<1>7. ASSUME NEW i \in 1..Len(h) PROVE h[i] = b[i]
  <2>1. CASE i <= Len(head)
    <3>1. i \in 1..Len(head)
      BY <1>2, <1>3, <1>6, <2>1
    <3> QED BY <1>1, <1>6, <3>1, <2>1
  <2>2. CASE ~(i <= Len(head))
    <3>1. i - Len(head) \in 1..k /\ i - Len(head) \in 1..Len(upstream)
          /\ Len(head) + (i - Len(head)) = i
      BY <1>2, <1>3, <1>6, <2>2
    <3>2. h[i] = upstream[i - Len(head)]
      BY <1>4, <1>6, <2>2, <3>1
    <3> QED BY <1>1, <3>1, <3>2
  <2> QED BY <2>1, <2>2
<1>8. Len(h) + Len(u) = Len(b)
  <2>1. Len(u) = Len(upstream) - k /\ Len(h) = Len(head) + k
        /\ Len(head) + Len(upstream) = Len(b)
    BY <1>1, <1>5, <1>6
  <2>2. k \in Nat /\ Len(head) \in Nat /\ Len(upstream) \in Nat
    BY <1>2, <1>3
  <2> QED BY <2>1, <2>2
<1>9. ASSUME NEW i \in 1..Len(u) PROVE u[i] = b[Len(h) + i]
  <2>1. i \in 1..(Len(upstream) - k) /\ k + i \in 1..Len(upstream)
        /\ Len(head) + (k + i) = Len(h) + i
    BY <1>2, <1>3, <1>5, <1>6
  <2> QED BY <1>1, <1>5, <2>1
<1>10. /\ b \in Seq(Bytes) /\ BlankLine(b) \in 1..(Len(b) - 3)
       /\ \A j \in 1..(BlankLine(b) - 1) : SubSeq(b, j, j + 3) # End
  <2>1. response \in Responses
    BY DEF RelayInv, ByStage
  <2> QED BY <2>1, BlankLineIs
<1>11. Len(h) <= Len(b) /\ Len(head) <= Len(h)
  BY <1>2, <1>3, <1>5, <1>6, <1>8
<1>12. \A i \in 1..(Len(head) - 3) : SubSeq(h, i, i + 3) # End
  <2> SUFFICES ASSUME NEW i \in 1..(Len(head) - 3) PROVE SubSeq(h, i, i + 3) # End
    OBVIOUS
  <2>1. SubSeq(head, i, i + 3) # End
    BY DEF RelayInv, SearchRight
  <2>2. \A j \in 1..Len(head) : head[j] = h[j]
    BY <1>2, <1>3, <1>6
  <2> QED BY <1>1, <1>6, <1>11, <2>1, <2>2, EndStays
<1>13. ASSUME Scan(h, k) PROVE BlankLine(b) + 3 <= Len(h)
  <2>1. PICK i \in 1..(Len(h) - 3) : SubSeq(h, i, i + 3) = End
    <3>1. PICK i \in (IF Len(h) - k < 3 THEN 1 ELSE Len(h) - k - 2)..(Len(h) - 3) :
            SubSeq(h, i, i + 3) = End
      BY <1>13 DEF Scan, EndIn
    <3>2. i \in 1..(Len(h) - 3)
      BY <1>2, <1>3, <1>6
    <3> QED BY <3>1, <3>2
  <2>2. SubSeq(b, i, i + 3) = End
    BY <1>6, <1>7, <1>10, <1>11, <2>1, EndStays
  <2>3. BlankLine(b) <= i
    <3>1. ~(i \in 1..(BlankLine(b) - 1)) /\ BlankLine(b) \in Nat
      BY <1>10, <2>2
    <3>2. i \in Nat /\ 1 <= i
      BY <1>6, <2>1
    <3> QED BY <3>1, <3>2
  <2> QED BY <1>2, <1>3, <1>6, <1>10, <2>1, <2>3
<1>14. ASSUME ~Scan(h, k), NEW i \in 1..(Len(h) - 3)
       PROVE  SubSeq(h, i, i + 3) # End
  <2>1. CASE i <= Len(head) - 3
    <3>1. i \in 1..(Len(head) - 3)
      BY <1>2, <1>3, <1>6, <2>1
    <3> QED BY <1>12, <3>1
  <2>2. CASE ~(i <= Len(head) - 3)
    <3>1. i \in (IF Len(h) - k < 3 THEN 1 ELSE Len(h) - k - 2)..(Len(h) - 3)
      BY <1>2, <1>3, <1>6, <2>2
    <3> QED BY <1>14, <3>1 DEF Scan, EndIn
  <2> QED BY <2>1, <2>2
<1>15. Len(h) < HEAD_BUF_SIZE
  BY <1>3, <1>6
<1> QED BY <1>5, <1>6, <1>7, <1>8, <1>9, <1>13, <1>14, <1>15 DEF h, u, g

LEMMA ReadHeadStep ==
  ASSUME RelayInv, ReadHead
  PROVE  RelayInv'
<1>1. /\ stage = "head" /\ stage' \in {"head", "build"}
      /\ UNCHANGED <<answer, response, sock, heap, sent_head, sent_body,
                     has_content_length, body_relayed>>
  BY DEF ReadHead, sentVars, reqVars
<1>2. /\ response \in Responses /\ ~found_terminator /\ ~CutOff /\ heap = {"head"}
  BY <1>1 DEF RelayInv, ByStage, SearchRight
<1>3. /\ head' \in Seq(Bytes) /\ upstream' \in Seq(Bytes) /\ Len(head') < HEAD_BUF_SIZE
      /\ Len(head') + Len(upstream') = Len(response.bytes)
      /\ \A i \in 1..Len(head') : head'[i] = response.bytes[i]
      /\ \A i \in 1..Len(upstream') : upstream'[i] = response.bytes[Len(head') + i]
      /\ found_terminator' \in BOOLEAN
      /\ IF found_terminator' THEN BodyAt <= Len(head')
         ELSE \A i \in 1..(Len(head') - 3) : SubSeq(head', i, i + 3) # End
      /\ found_terminator' => stage' = "build" /\ lapses' = lapses
      /\ \/ stage' = "build" /\ ~found_terminator'
            /\ (lapses' = lapses \cup {"long_head"} \/ lapses' = lapses \cup {"cut_head"})
         \/ stage' = "head" /\ lapses' = lapses
         \/ found_terminator'
  <2>1. CASE UNCHANGED <<head, found_terminator, upstream>> /\ stage' = "build"
             /\ lapses' = lapses \cup {"cut_head"}
    BY <1>1, <1>2, <2>1 DEF RelayInv, HeadIsFirst, SearchRight, RelayTypeOK
  <2>2. CASE \E k \in 1..Least(HeadRoom, Len(upstream)) :
          LET h == head \o First(upstream, k) IN
          /\ head' = h /\ upstream' = From(upstream, k + 1)
          /\ found_terminator' = Scan(h, k)
          /\ stage' = IF found_terminator' \/ Len(h) = HEAD_BUF_SIZE - 1
                      THEN "build" ELSE "head"
          /\ lapses' = IF stage' = "build" /\ ~found_terminator'
                       THEN lapses \cup {"long_head"} ELSE lapses
    <3>1. PICK k \in 1..Least(HeadRoom, Len(upstream)) :
          /\ head' = head \o First(upstream, k) /\ upstream' = From(upstream, k + 1)
          /\ found_terminator' = Scan(head', k)
          /\ stage' = IF found_terminator' \/ Len(head') = HEAD_BUF_SIZE - 1
                      THEN "build" ELSE "head"
          /\ lapses' = IF stage' = "build" /\ ~found_terminator'
                       THEN lapses \cup {"long_head"} ELSE lapses
      BY <2>2
    <3>2. /\ head' \in Seq(Bytes) /\ Len(head') < HEAD_BUF_SIZE
          /\ upstream' \in Seq(Bytes)
          /\ Len(head') + Len(upstream') = Len(response.bytes)
          /\ \A i \in 1..Len(head') : head'[i] = response.bytes[i]
          /\ \A i \in 1..Len(upstream') : upstream'[i] = response.bytes[Len(head') + i]
          /\ IF Scan(head', k) THEN BlankLine(response.bytes) + 3 <= Len(head')
             ELSE \A i \in 1..(Len(head') - 3) : SubSeq(head', i, i + 3) # End
      <4>1. head' = head \o First(upstream, k) /\ upstream' = From(upstream, k + 1)
        BY <3>1
      <4>2. stage = "head"
        BY <1>1
      <4> QED BY <4>1, <4>2, ReceiveIs
    <3>3. Scan(head', k) \in BOOLEAN
      BY DEF Scan, EndIn
    <3> QED BY <3>1, <3>2, <3>3 DEF BodyAt
  <2> QED BY <2>1, <2>2 DEF ReadHead, headVars
<1>4. RelayTypeOK'
  BY <1>1, <1>3 DEF RelayInv, RelayTypeOK, Stages
<1>5. ByStage'
  <2>1. "endless" \notin lapses'
    BY <1>1, <1>3 DEF RelayInv, ByStage
  <2> QED BY <1>1, <1>2, <2>1 DEF RelayInv, ByStage
<1>6. HeadIsFirst'
  BY <1>1, <1>3 DEF HeadIsFirst
<1>7. SearchRight'
  <2>1. CutOff' <=> stage' = "build" /\ ~found_terminator'
    BY <1>2, <1>3 DEF CutOff
  <2>2. BodyAt' = BodyAt
    BY <1>1 DEF BodyAt
  <2> QED BY <1>1, <1>3, <2>1, <2>2 DEF SearchRight
<1>8. LinesDone' /\ LengthTold' /\ RestTyped' /\ RestFollows' /\ BodySoFar'
  BY <1>1 DEF LinesDone, LengthTold, RestTyped, RestFollows, BodySoFar
<1> QED BY <1>4, <1>5, <1>6, <1>7, <1>8 DEF RelayInv

\* An answer begins with its status line, and a line in its head that ends before
\* the blank line is followed by a header line.
LEMMA AnswerIs ==
  ASSUME NEW r \in Responses
  PROVE  LET b == r.bytes
             at == BlankLine(b) IN
         /\ b[1] = "S" /\ b[2] = "CR" /\ b[3] = "LF"
         /\ at > 1 /\ b[at] = "CR" /\ b[at + 1] = "LF" /\ b[at + 2] = "CR"
         /\ \A i \in 1..(at - 1) : b[i] = "LF" =>
              b[i + 1] \in HeaderLines /\ b[i + 2] = "CR" /\ b[i + 3] = "LF"
         /\ r.length # Absent <=> \E i \in 1..at : b[i] = "L"
         /\ r.length \in Nat \cup {Absent} /\ r.long \in BOOLEAN
         /\ r.endless => r.length = Absent
<1> DEFINE b == r.bytes
           at == BlankLine(b)
           w == SubSeq(b, 1, 3)
<1>1. IsAnswer(r)
  BY RelayAssumption
<1>2. b \in Seq(Bytes) /\ at \in 1..(Len(b) - 3) /\ SubSeq(b, at, at + 3) = End
  BY BlankLineIs
<1>3. b[at] = "CR" /\ b[at + 1] = "LF" /\ b[at + 2] = "CR"
  <2> HIDE DEF b, at
  <2> QED BY <1>2, EndIs
<1>4. b[1] = "S" /\ b[2] = "CR" /\ b[3] = "LF"
  <2>1. w = <<"S", "CR", "LF">>
    BY <1>1 DEF IsAnswer
  <2>2. w[1] = "S" /\ w[2] = "CR" /\ w[3] = "LF"
    <3> HIDE DEF w
    <3> QED BY <2>1
  <2>3. w[1] = b[1] /\ w[2] = b[2] /\ w[3] = b[3]
    <3>1. Len(b) \in Nat /\ 3 <= Len(b)
      BY <1>2
    <3> HIDE DEF b
    <3> QED BY <1>2, <3>1
  <2> QED BY <2>2, <2>3
<1>5. at > 1
  <2>1. at # 1
    BY <1>3, <1>4
  <2> HIDE DEF at, b
  <2> QED BY <1>2, <2>1
<1> QED BY <1>1, <1>3, <1>4, <1>5 DEF IsAnswer

\* A sequence with one more element.
LEMMA AppendedSet ==
  ASSUME NEW S, NEW s \in Seq(S), NEW e \in S
  PROVE  Append(s, e) \in Seq(S) /\ ToSet(Append(s, e)) = ToSet(s) \cup {e}
<1> DEFINE t == Append(s, e)
<1>1. /\ t \in Seq(S) /\ Len(t) = Len(s) + 1 /\ Len(s) \in Nat /\ t[Len(s) + 1] = e
      /\ \A i \in 1..Len(s) : t[i] = s[i]
  BY AppendProperties
<1> HIDE DEF t
<1>2. DOMAIN t = 1..(Len(s) + 1) /\ DOMAIN s = 1..Len(s)
  BY <1>1
<1>3. \A i \in 1..(Len(s) + 1) : i \in 1..Len(s) \/ i = Len(s) + 1
  BY <1>1
<1>4. \A i \in 1..Len(s) : i \in 1..(Len(s) + 1)
  BY <1>1
<1>5. Len(s) + 1 \in 1..(Len(s) + 1)
  BY <1>1
<1>6. ToSet(t) = ToSet(s) \cup {e}
  BY <1>1, <1>2, <1>3, <1>4, <1>5, Zenon DEF ToSet
<1> QED BY <1>1, <1>6 DEF t

LEMMA StartHeadStep ==
  ASSUME RelayInv, StartHead
  PROVE  RelayInv'
<1> DEFINE b == response.bytes
<1>1. /\ stage = "build" /\ response \in Responses /\ heap = {"head"}
      /\ UNCHANGED <<answer, response, upstream, sock, head, found_terminator,
                     sent_head, sent_body, has_content_length, body_relayed>>
      /\ sent_head = Absent /\ sent_body = <<>> /\ ~has_content_length
      /\ (found_terminator <=> ~CutOff)
  BY DEF StartHead, RelayInv, ByStage, SearchRight, reqVars, upVars, headVars, sentVars
<1>2. /\ head \in Seq(Bytes) /\ Len(head) \in Nat
      /\ \A i \in 1..Len(head) : head[i] = b[i]
      /\ ~CutOff => BodyAt <= Len(head)
  BY <1>1 DEF RelayInv, HeadIsFirst, SearchRight
<1>3. /\ b[1] = "S" /\ b[2] = "CR" /\ b[3] = "LF" /\ BlankLine(b) > 1
      /\ BodyAt = BlankLine(b) + 3 /\ BlankLine(b) \in 1..(Len(b) - 3)
      /\ Len(b) \in Nat /\ response.long \in BOOLEAN
  BY <1>1, AnswerIs, BlankLineIs DEF BodyAt
<1>4. BodyAt \in Nat /\ BodyAt' = BodyAt
  BY <1>1, <1>3 DEF BodyAt
<1>5. CASE /\ stage' = "close" /\ heap' = heap \ {"head"}
           /\ lapses' = lapses \cup {"memory"}
           /\ UNCHANGED outVars
  <2>1. RelayTypeOK'
    BY <1>1, <1>5 DEF RelayInv, RelayTypeOK, Stages
  <2>2. ByStage'
    BY <1>1, <1>5 DEF RelayInv, ByStage
  <2>3. BodySoFar'
    <3>1. Len(sent_body') = 0
      BY <1>1
    <3>2. BodyAt' + Len(sent_body') <= Len(response'.bytes)
      BY <1>1, <1>3, <1>4, <3>1
    <3> QED BY <1>5, <3>1, <3>2 DEF BodySoFar
  <2> QED BY <1>1, <1>5, <2>1, <2>2, <2>3
          DEF RelayInv, HeadIsFirst, SearchRight, LinesDone, LengthTold, RestTyped,
              RestFollows
<1>6. CASE /\ stage' = "lines" /\ heap' = heap \cup {"out"}
           /\ out' = [status |-> StatusTold, lines |-> <<>>, len |-> 3]
           /\ line_start' = IF StatusLine THEN 4 ELSE 0
           /\ UNCHANGED lapses
  <2>1. RelayTypeOK'
    BY <1>1, <1>6 DEF RelayInv, RelayTypeOK, Stages
  <2>2. ByStage'
    BY <1>1, <1>6 DEF RelayInv, ByStage, CutOff
  <2>3. HeadIsFirst' /\ SearchRight'
    BY <1>1, <1>4, <1>6 DEF RelayInv, HeadIsFirst, SearchRight, CutOff
  <2>4. /\ out' \in [status : {OK, response.status}, lines : Seq({"L", "H"}), len : Nat]
        /\ out'.len = 3 /\ out'.lines = <<>> /\ out'.status = StatusTold
    <3>1. StatusTold \in {OK, response.status}
      BY DEF StatusTold
    <3>2. <<>> \in Seq({"L", "H"})
      OBVIOUS
    <3> QED BY <1>6, <3>1, <3>2
  <2>5. ~ "L" \in ToSet(out'.lines)
    BY <2>4 DEF ToSet
  <2>6. ~ \E i \in 1..(line_start' - 1) : head[i] = "L"
    <3>1. CASE StatusLine
      <4>1. 1 \in 1..Len(head) /\ line_start' = 4 /\ head[2] = "CR" /\ head[3] = "LF"
        BY <1>2, <1>6, <3>1 DEF StatusLine
      <4>2. head[1] = "S"
        BY <1>2, <1>3, <4>1
      <4>3. \A i \in 1..(line_start' - 1) : i = 1 \/ i = 2 \/ i = 3
        BY <4>1
      <4> QED BY <4>1, <4>2, <4>3
    <3>2. CASE ~StatusLine
      BY <1>6, <3>2
    <3> QED BY <3>1, <3>2
  <2>7. line_start' # 0 => /\ line_start' > 3 /\ line_start' - 1 <= Len(head)
                           /\ head[line_start' - 1] = "LF" /\ out'.len < line_start'
    BY <1>2, <1>6, <2>4 DEF StatusLine
  <2>8. ~CutOff => /\ line_start' # 0 /\ line_start' - 1 <= BodyAt - 2
                   /\ response.long \/ out'.status = response.status
    <3> SUFFICES ASSUME ~CutOff
                 PROVE  /\ line_start' # 0 /\ line_start' - 1 <= BodyAt - 2
                        /\ response.long \/ out'.status = response.status
      OBVIOUS
    <3>1. Len(head) >= 3 /\ 2 \in 1..Len(head) /\ 3 \in 1..Len(head)
      BY <1>2, <1>3, <1>4
    <3>2. StatusLine
      BY <1>2, <1>3, <3>1 DEF StatusLine
    <3>3. line_start' = 4
      BY <1>6, <3>2
    <3> QED BY <1>3, <2>4, <3>2, <3>3 DEF StatusTold
  <2>9. LinesDone'
    <3>1. CutOff' <=> CutOff
      BY <1>6 DEF CutOff
    <3>2. line_start' \in Nat
      BY <1>6
    <3> QED BY <1>1, <1>4, <2>4, <2>5, <2>6, <2>7, <2>8, <3>1, <3>2 DEF LinesDone
  <2> QED BY <1>6, <2>1, <2>2, <2>3, <2>9
          DEF RelayInv, LengthTold, RestTyped, RestFollows, BodySoFar
<1> QED BY <1>5, <1>6 DEF StartHead

\* Where the lines are at, in an answer whose head came in whole: before a header
\* line or before the blank line.
LEMMA LineFound ==
  ASSUME RelayInv, stage = "lines", ~CutOff
  PROVE  LET at == BlankLine(response.bytes) IN
         \/ /\ LineHere /\ line_start + 2 <= at + 1
         \/ /\ ~LineHere /\ line_start - 1 = at + 1
<1> DEFINE b == response.bytes
           at == BlankLine(b)
           p == line_start
<1>1. /\ response \in Responses /\ head \in Seq(Bytes) /\ Len(head) \in Nat
      /\ \A i \in 1..Len(head) : head[i] = b[i]
      /\ BodyAt <= Len(head)
  BY DEF RelayInv, ByStage, HeadIsFirst, SearchRight
<1>2. /\ p \in Nat /\ p > 3 /\ p - 1 <= BodyAt - 2 /\ head[p - 1] = "LF"
  BY DEF RelayInv, LinesDone
<1>3. /\ at \in Nat /\ BodyAt = at + 3 /\ b[at] = "CR" /\ b[at + 1] = "LF"
      /\ b[at + 2] = "CR"
      /\ \A i \in 1..(at - 1) : b[i] = "LF" =>
              b[i + 1] \in HeaderLines /\ b[i + 2] = "CR" /\ b[i + 3] = "LF"
  BY <1>1, BlankLineIs, AnswerIs DEF BodyAt
<1> HIDE DEF b, at, p
<1>4. p - 1 \in 1..Len(head) /\ p - 1 <= at + 1
  BY <1>1, <1>2, <1>3
<1>5. b[p - 1] = "LF"
  BY <1>1, <1>2, <1>4
<1>6. p - 1 # at
  BY <1>3, <1>5
<1>7. CASE p - 1 = at + 1
  <2>1. p = at + 2 /\ p \in 1..Len(head)
    BY <1>1, <1>2, <1>3, <1>7
  <2>2. head[p] = "CR"
    BY <1>1, <1>3, <2>1
  <2> QED BY <1>7, <2>2 DEF LineHere, b, at, p
<1>8. CASE p - 1 < at
  <2>1. /\ p - 1 \in 1..(at - 1) /\ (p - 1) + 1 = p
        /\ (p - 1) + 2 = p + 1 /\ (p - 1) + 3 = p + 2
    BY <1>2, <1>3, <1>8
  <2>2. b[p] \in HeaderLines /\ b[p + 1] = "CR" /\ b[p + 2] = "LF"
    BY <1>3, <1>5, <2>1
  <2>3. p # at
    BY <1>3, <2>2 DEF HeaderLines
  <2>4. p + 2 <= at + 1 /\ {p, p + 1, p + 2} \subseteq 1..Len(head)
    BY <1>1, <1>2, <1>3, <1>8, <2>3
  <2>5. head[p] # "CR" /\ head[p + 1] = "CR" /\ head[p + 2] = "LF"
    BY <1>1, <2>2, <2>4 DEF HeaderLines
  <2>6. p > 0 /\ p + 2 <= Len(head)
    BY <1>1, <1>2, <1>3, <2>4
  <2> QED BY <2>4, <2>5, <2>6 DEF LineHere, b, at, p
<1> QED BY <1>2, <1>3, <1>4, <1>6, <1>7, <1>8

LEMMA ForwardLineStep ==
  ASSUME RelayInv, ForwardLine
  PROVE  RelayInv'
<1> DEFINE p == line_start
           line == head[line_start]
<1>1. /\ stage = "lines" /\ LineHere /\ response \in Responses
      /\ UNCHANGED <<stage, answer, response, upstream, sock, heap, head,
                     found_terminator, sent_head, sent_body, body_relayed, lapses>>
      /\ sent_head = Absent /\ has_content_length \in BOOLEAN
      /\ line_start' = p + 3
  BY DEF ForwardLine, RelayInv, ByStage, RelayTypeOK, reqVars, upVars, headVars
<1>2. /\ head \in Seq(Bytes) /\ Len(head) \in Nat /\ Len(head) < HEAD_BUF_SIZE
  BY <1>1 DEF RelayInv, HeadIsFirst, RelayTypeOK
<1>3. /\ out \in [status : {OK, response.status}, lines : Seq({"L", "H"}), len : Nat]
      /\ p \in Nat
      /\ has_content_length <=> "L" \in ToSet(out.lines)
      /\ has_content_length <=> \E i \in 1..(p - 1) : head[i] = "L"
      /\ p # 0 => p > 3 /\ p - 1 <= Len(head) /\ head[p - 1] = "LF" /\ out.len < p
      /\ ~CutOff => p - 1 <= BodyAt - 2 /\ (response.long \/ out.status = response.status)
  BY <1>1 DEF RelayInv, LinesDone
<1>4. p > 3 /\ p + 2 <= Len(head) /\ head[p + 1] = "CR" /\ head[p + 2] = "LF"
  BY <1>1, <1>3 DEF LineHere
<1>5. out' = IF PassedOn(line)
             THEN [out EXCEPT !.lines = Append(@, line), !.len = @ + 3] ELSE out
  <2>1. Fits(3)
    BY <1>2, <1>3, <1>4, RelayAssumption DEF Fits
  <2>2. out' = IF PassedOn(line)
               THEN [out EXCEPT !.lines = IF Fits(3) THEN Append(@, line) ELSE @,
                                !.len = @ + 3]
               ELSE out
    BY DEF ForwardLine
  <2> HIDE DEF line
  <2> QED BY <2>1, <2>2
<1>6. has_content_length' = (has_content_length \/ line = "L")
  BY DEF ForwardLine
<1>7. line = "L" => PassedOn(line)
  <2>1. out.len \in Nat /\ out.len < HEAD_BUF_SIZE
    BY <1>2, <1>3, <1>4, RelayAssumption
  <2> QED BY <2>1 DEF PassedOn
<1>8. PassedOn(line) => line \in {"L", "H"}
  BY DEF PassedOn
<1>9. /\ out' \in [status : {OK, response.status}, lines : Seq({"L", "H"}), len : Nat]
      /\ out'.status = out.status
      /\ out'.len \in Nat /\ out'.len < p + 3
      /\ ToSet(out'.lines) = IF PassedOn(line) THEN ToSet(out.lines) \cup {line}
                             ELSE ToSet(out.lines)
  <2>1. CASE PassedOn(line)
    <3>1. out' = [status |-> out.status, lines |-> Append(out.lines, line),
                  len |-> out.len + 3]
      BY <1>3, <1>5, <2>1
    <3>2. /\ Append(out.lines, line) \in Seq({"L", "H"})
          /\ ToSet(Append(out.lines, line)) = ToSet(out.lines) \cup {line}
      <4>1. out.lines \in Seq({"L", "H"}) /\ line \in {"L", "H"}
        BY <1>3, <1>8, <2>1
      <4> HIDE DEF line
      <4> QED BY <4>1, AppendedSet
    <3>3. out.len \in Nat /\ out.len + 3 \in Nat /\ out.len + 3 < p + 3
          /\ out.status \in {OK, response.status}
      BY <1>3, <1>4
    <3> QED BY <2>1, <3>1, <3>2, <3>3
  <2>2. CASE ~PassedOn(line)
    <3>1. out' = out
      BY <1>5, <2>2
    <3>2. out.len \in Nat /\ out.len < p + 3
      BY <1>3, <1>4
    <3> QED BY <1>3, <2>2, <3>1, <3>2
  <2> QED BY <2>1, <2>2
<1>10. has_content_length' <=> "L" \in ToSet(out'.lines)
  BY <1>3, <1>6, <1>7, <1>9
<1>11. has_content_length' <=> \E i \in 1..(line_start' - 1) : head[i] = "L"
  <2>1. line_start' - 1 = p + 2
    BY <1>1, <1>3
  <2>2. ASSUME NEW i \in 1..(p + 2), head[i] = "L"
        PROVE  i \in 1..(p - 1) \/ i = p
    <3>1. i # p + 1 /\ i # p + 2
      BY <1>4, <2>2
    <3> QED BY <1>3, <3>1
  <2>3. \A i \in 1..(p - 1) : i \in 1..(p + 2)
    BY <1>3
  <2>4. p \in 1..(p + 2)
    BY <1>3, <1>4
  <2>5. (\E i \in 1..(p + 2) : head[i] = "L") <=>
          (\E i \in 1..(p - 1) : head[i] = "L") \/ head[p] = "L"
    BY <2>2, <2>3, <2>4
  <2> QED BY <1>3, <1>6, <2>1, <2>5
<1>12. CutOff' = CutOff /\ BodyAt' = BodyAt
  BY <1>1 DEF CutOff, BodyAt
<1>13. ~CutOff => line_start' - 1 <= BodyAt - 2
  <2>1. ASSUME ~CutOff PROVE line_start' - 1 <= BodyAt - 2
    <3>1. line_start + 2 <= BlankLine(response.bytes) + 1
      BY <1>1, <2>1, LineFound
    <3>2. BlankLine(response.bytes) \in Nat
      BY <1>1, BlankLineIs
    <3> QED BY <1>1, <1>3, <3>1, <3>2 DEF BodyAt
  <2> QED BY <2>1
<1>14. /\ line_start' \in Nat /\ line_start' > 3 /\ line_start' # 0
       /\ line_start' - 1 <= Len(head) /\ head[line_start' - 1] = "LF"
       /\ out'.len < line_start'
  <2>1. line_start' - 1 = p + 2
    BY <1>1, <1>3
  <2> QED BY <1>1, <1>2, <1>3, <1>4, <1>9, <2>1
<1>15. LinesDone'
  BY <1>1, <1>3, <1>9, <1>10, <1>11, <1>12, <1>13, <1>14 DEF LinesDone
<1>16. has_content_length' \in BOOLEAN
  BY <1>6
<1>17. RelayTypeOK'
  BY <1>1, <1>16 DEF RelayInv, RelayTypeOK
<1>18. ByStage'
  BY <1>1, <1>12 DEF RelayInv, ByStage
<1>19. HeadIsFirst' /\ SearchRight'
  BY <1>1, <1>12 DEF RelayInv, HeadIsFirst, SearchRight
<1> QED BY <1>1, <1>15, <1>17, <1>18, <1>19
        DEF RelayInv, LengthTold, RestTyped, RestFollows, BodySoFar

\* What is read past the end of out.
LEMMA OverreadIs ==
  ASSUME out.len \in Nat
  PROVE  Overread \in Seq(Told)
<1>1. CASE EndFits
  BY <1>1, EmptyIs DEF Overread
<1>2. CASE ~EndFits
  <2> DEFINE m == OutLen - HEAD_BUF_SIZE
             strays == [i \in 1..m |-> "STRAY"]
  <2>1. m \in Nat
    BY <1>2, RelayAssumption DEF EndFits, Fits, OutLen
  <2>2. "STRAY" \in Told /\ "NUL" \in Told
    BY DEF Told
  <2>3. strays \in Seq(Told) /\ <<"NUL">> \in Seq(Told)
    <3> HIDE DEF m
    <3> QED BY <2>1, <2>2
  <2>4. Overread = <<"NUL">> \o strays
    BY <1>2 DEF Overread
  <2> HIDE DEF strays
  <2> QED BY <2>3, <2>4, Joined
<1> QED BY <1>1, <1>2

LEMMA SendHeadStep ==
  ASSUME RelayInv, SendHead
  PROVE  RelayInv'
<1> DEFINE b == response.bytes
           at == BlankLine(b)
<1>1. /\ stage = "lines" /\ ~LineHere /\ stage' = "leftover" /\ response \in Responses
      /\ UNCHANGED <<answer, response, upstream, sock, head, found_terminator,
                     has_content_length, body_relayed>>
      /\ heap = {"head", "out"} /\ heap' = heap \ {"out"}
      /\ lapses' \in SUBSET (lapses \cup {"cramped", "short"}) /\ lapses \subseteq lapses'
      /\ has_content_length \in BOOLEAN
  BY DEF SendHead, Cramped, RelayInv, ByStage, RelayTypeOK, reqVars, upVars, headVars
<1>2. /\ out.lines \in Seq({"L", "H"}) /\ out.len \in Nat
      /\ has_content_length <=> "L" \in ToSet(out.lines)
      /\ has_content_length <=> \E i \in 1..(line_start - 1) : head[i] = "L"
      /\ ~CutOff => (response.long \/ out.status = response.status)
  BY <1>1 DEF RelayInv, LinesDone
<1>3. CutOff' = CutOff /\ BodyAt' = BodyAt
  BY <1>1 DEF CutOff, BodyAt
<1>4. /\ sent_head'.status = out.status
      /\ sent_head'.ended \/ "short" \notin lapses' => sent_head'.lines = out.lines
      /\ ToSet(sent_head'.lines) \cap {"T", "K"} = {}
  <2>1. CASE \E ended \in BOOLEAN : sent_head' = HeadWith(out.lines, ended)
    BY <1>2, <2>1 DEF ToSet, HeadWith
  <2>2. ASSUME NEW k \in 0..Len(out.lines), "short" \in lapses',
               sent_head' = HeadWith(First(out.lines, k), FALSE)
        PROVE  /\ sent_head'.status = out.status /\ ~sent_head'.ended
               /\ ToSet(sent_head'.lines) \cap {"T", "K"} = {}
    <3>1. First(out.lines, k) \in Seq({"L", "H"})
      BY <1>2, FirstIs
    <3>2. ToSet(First(out.lines, k)) \cap {"T", "K"} = {}
      BY <3>1 DEF ToSet
    <3> QED BY <2>2, <3>2 DEF HeadWith
  <2>3. EndFits \in BOOLEAN
    BY DEF EndFits, Fits
  <2> QED BY <2>1, <2>2, <2>3 DEF SendHead
<1>5. ASSUME ~CutOff PROVE has_content_length <=> response.length # Absent
  <2>1. line_start - 1 = at + 1
    BY <1>1, <1>5, LineFound
  <2>2. /\ at \in Nat /\ BodyAt = at + 3 /\ b[at + 1] = "LF"
        /\ response.length # Absent <=> \E i \in 1..at : b[i] = "L"
    <3>1. response \in Responses
      BY <1>1
    <3>2. at \in Nat /\ BodyAt = at + 3
      BY <3>1, BlankLineIs DEF BodyAt
    <3>3. /\ b[at + 1] = "LF"
          /\ response.length # Absent <=> \E i \in 1..at : b[i] = "L"
      BY <3>1, AnswerIs
    <3> QED BY <3>2, <3>3
  <2>3. /\ BodyAt <= Len(head) /\ Len(head) \in Nat
        /\ \A i \in 1..Len(head) : head[i] = b[i]
    BY <1>1, <1>5 DEF RelayInv, HeadIsFirst, SearchRight
  <2> HIDE DEF at, b
  <2>4. \A i \in 1..(at + 1) : head[i] = b[i]
    BY <2>2, <2>3
  <2>5. \A i \in 1..(at + 1) : i \in 1..at \/ i = at + 1
    BY <2>2
  <2>6. \A i \in 1..at : i \in 1..(at + 1)
    BY <2>2
  <2>7. (\E i \in 1..(at + 1) : head[i] = "L") <=> \E i \in 1..at : b[i] = "L"
    BY <2>2, <2>4, <2>5, <2>6
  <2> QED BY <1>2, <2>1, <2>2, <2>7
<1>6. sent_body' \in Seq(Told) /\ (Clear' => sent_body' = <<>>)
  <2>1. Overread \in Seq(Told)
    BY <1>2, OverreadIs
  <2>2. CASE sent_body' = Overread /\ lapses' = lapses \cup Cramped
    BY <2>1, <2>2 DEF Clear, Cramped, Overread
  <2>3. CASE sent_body' = <<>>
    BY <2>3, EmptyIs
  <2>4. ASSUME NEW k \in 1..(Len(Overread) - 1), sent_body' = First(Overread, k),
               "short" \in lapses'
        PROVE  sent_body' \in Seq(Told) /\ ~Clear'
    <3>1. k \in 0..Len(Overread)
      BY <2>1
    <3> QED BY <2>1, <2>4, <3>1, FirstIs DEF Clear
  <2> QED BY <2>2, <2>3, <2>4 DEF SendHead
<1>7. LengthTold'
  BY <1>1, <1>2, <1>3, <1>4, <1>5 DEF LengthTold
<1>8. RelayTypeOK'
  BY <1>1 DEF RelayInv, RelayTypeOK, Stages
<1>9. ByStage'
  BY <1>1, <1>3, <1>6 DEF RelayInv, ByStage
<1>10. HeadIsFirst' /\ SearchRight'
  BY <1>1, <1>3 DEF RelayInv, HeadIsFirst, SearchRight
<1> QED BY <1>1, <1>7, <1>8, <1>9, <1>10
           DEF RelayInv, LinesDone, RestTyped, RestFollows, BodySoFar

\* HeadEnd is where the head of what upstream sends ends, if it came that far.
LEMMA HeadEndRight ==
  ASSUME RelayInv, stage \in {"build", "lines", "leftover"}
  PROVE  HeadEnd = IF CutOff THEN 0 ELSE BodyAt
<1> DEFINE b == response.bytes
           at == BlankLine(b)
<1>1. /\ head \in Seq(Bytes) /\ Len(head) \in Nat /\ response \in Responses
      /\ Len(head) <= Len(b)
      /\ \A i \in 1..Len(head) : head[i] = b[i]
      /\ found_terminator <=> ~CutOff
      /\ IF found_terminator THEN BodyAt <= Len(head)
         ELSE \A i \in 1..(Len(head) - 3) : SubSeq(head, i, i + 3) # End
  BY DEF RelayInv, ByStage, HeadIsFirst, SearchRight
<1>2. CASE CutOff
  BY <1>1, <1>2, HeadEndIs
<1>3. CASE ~CutOff
  <2>1. /\ b \in Seq(Bytes) /\ at \in 1..(Len(b) - 3) /\ SubSeq(b, at, at + 3) = End
        /\ \A j \in 1..(at - 1) : SubSeq(b, j, j + 3) # End
        /\ BodyAt = at + 3
    BY <1>1, BlankLineIs DEF BodyAt
  <2> HIDE DEF b, at
  <2>2. at \in 1..(Len(head) - 3)
    BY <1>1, <1>3, <2>1
  <2>3. SubSeq(head, at, at + 3) = End
    BY <1>1, <2>1, <2>2, EndStays
  <2>4. ASSUME NEW j \in 1..(at - 1) PROVE SubSeq(head, j, j + 3) # End
    <3>1. j \in 1..(Len(head) - 3)
      BY <1>1, <2>2
    <3> QED BY <1>1, <2>1, <3>1, EndStays
  <2>5. HeadEnd = at + 3
    BY <1>1, <2>2, <2>3, <2>4, HeadEndIs
  <2> QED BY <1>3, <2>1, <2>5
<1> QED BY <1>2, <1>3

\* What is sent comes behind what was, all of it unless the send took less.
LEMMA SendIs ==
  ASSUME NEW S, NEW sent \in Seq(S), NEW now, NEW bytes \in Seq(S),
         Send(sent, now, bytes)
  PROVE  /\ now \in Seq(S)
         /\ lapses' = lapses \/ lapses' = lapses \cup {"short"}
         /\ "short" \notin lapses' => now = sent \o bytes
<1>1. CASE now = sent \o bytes /\ lapses' = lapses
  BY <1>1, Joined
<1>2. ASSUME NEW k \in 0..(Len(bytes) - 1), now = sent \o First(bytes, k),
             lapses' = lapses \cup {"short"}
      PROVE  now \in Seq(S)
  <2>1. k \in 0..Len(bytes)
    OBVIOUS
  <2>2. First(bytes, k) \in Seq(S)
    BY <2>1, FirstIs
  <2> QED BY <1>2, <2>2, Joined
<1> QED BY <1>1, <1>2 DEF Send

LEMMA PassIs ==
  ASSUME NEW s, s \in Seq(Bytes), sent_body \in Seq(Told), Pass(s)
  PROVE  /\ sent_body' \in Seq(Told)
         /\ lapses' = lapses \/ lapses' = lapses \cup {"short"}
         /\ "short" \notin lapses' =>
              /\ Len(sent_body') = Len(sent_body) + Len(s)
              /\ \A i \in 1..(Len(sent_body) + Len(s)) :
                   sent_body'[i] = IF i <= Len(sent_body) THEN sent_body[i]
                                   ELSE s[i - Len(sent_body)]
<1>1. PICK now : now = sent_body'
  OBVIOUS
<1>2. s \in Seq(Told)
  <2>1. Bytes \subseteq Told
    BY DEF Told
  <2> QED BY <2>1, SeqMonotonic
<1>3. /\ now \in Seq(Told)
      /\ lapses' = lapses \/ lapses' = lapses \cup {"short"}
      /\ "short" \notin lapses' => now = sent_body \o s
  <2>1. Send(sent_body, now, s)
    BY <1>1 DEF Pass
  <2> QED BY <1>2, <2>1, SendIs
<1> QED BY <1>1, <1>3, <1>2, Joined

\* What the phone was told stays told.
LEMMA LengthStays ==
  ASSUME RelayInv, stage \in {"leftover", "rest"}, lapses \subseteq lapses',
         UNCHANGED <<response, sent_head, has_content_length>>, CutOff' = CutOff
  PROVE  LengthTold'
<1>1. /\ ~CutOff =>
           /\ response.long \/ sent_head.status = response.status
           /\ has_content_length <=> response.length # Absent
      /\ sent_head.ended \/ "short" \notin lapses =>
           (has_content_length <=> "L" \in ToSet(sent_head.lines))
      /\ ToSet(sent_head.lines) \cap {"T", "K"} = {}
  BY DEF RelayInv, LengthTold
<1>2. "short" \notin lapses' => "short" \notin lapses
  OBVIOUS
<1> QED BY <1>1, <1>2, Zenon DEF LengthTold

LEMMA LeftoverStep ==
  ASSUME RelayInv, Leftover
  PROVE  RelayInv'
<1> DEFINE b == response.bytes
           s == From(head, HeadEnd + 1)
<1>1. /\ stage = "leftover" /\ stage' = "rest" /\ response \in Responses
      /\ UNCHANGED <<answer, response, upstream, sock, sent_head, has_content_length>>
      /\ heap = {"head"} /\ heap' = heap \ {"head"}
      /\ head' = <<>> /\ found_terminator' = FALSE
      /\ sent_body \in Seq(Told) /\ (Clear => sent_body = <<>>) /\ body_relayed = 0
      /\ "endless" \notin lapses
  BY DEF Leftover, RelayInv, ByStage, reqVars, upVars
<1>2. /\ head \in Seq(Bytes) /\ upstream \in Seq(Bytes)
      /\ Len(head) \in Nat /\ Len(upstream) \in Nat /\ Len(head) + Len(upstream) = Len(b)
      /\ \A i \in 1..Len(head) : head[i] = b[i]
      /\ \A i \in 1..Len(upstream) : upstream[i] = b[Len(head) + i]
      /\ ~CutOff => BodyAt <= Len(head)
  BY <1>1 DEF RelayInv, HeadIsFirst, SearchRight
<1>3. BodyAt \in Nat /\ BodyAt > 0 /\ BodyAt' = BodyAt
  BY <1>1, BlankLineIs DEF BodyAt
<1>4. HeadEnd = IF CutOff THEN 0 ELSE BodyAt
  BY <1>1, HeadEndRight
<1>5. \/ /\ HeadEnd > 0 /\ HeadEnd < Len(head) /\ Pass(s)
         /\ body_relayed' = Len(head) - HeadEnd
      \/ /\ ~(HeadEnd > 0 /\ HeadEnd < Len(head))
         /\ UNCHANGED <<sent_body, body_relayed, lapses>>
  BY DEF Leftover
<1>6. /\ sent_body' \in Seq(Told) /\ body_relayed' \in Nat
      /\ lapses' = lapses \/ lapses' = lapses \cup {"short"}
      /\ ~CutOff =>
           /\ BodyAt + body_relayed' = Len(head)
           /\ Clear' =>
                /\ Len(sent_body') = body_relayed'
                /\ \A i \in 1..Len(sent_body') : sent_body'[i] = head[BodyAt + i]
  <2>1. CASE /\ HeadEnd > 0 /\ HeadEnd < Len(head) /\ Pass(s)
             /\ body_relayed' = Len(head) - HeadEnd
    <3>1. HeadEnd = BodyAt /\ ~CutOff
      BY <1>3, <1>4, <2>1
    <3>2. BodyAt \in 0..Len(head)
      BY <1>2, <1>3, <2>1, <3>1
    <3>3. /\ s \in Seq(Bytes) /\ Len(s) = Len(head) - BodyAt
          /\ \A i \in 1..(Len(head) - BodyAt) : s[i] = head[BodyAt + i]
      BY <1>2, <3>1, <3>2, FromIs
    <3> HIDE DEF s
    <3>4. <<>> \in Seq(Bytes) /\ Len(<<>>) = 0
      BY EmptyIs
    <3>5. /\ sent_body' \in Seq(Told)
          /\ lapses' = lapses \/ lapses' = lapses \cup {"short"}
          /\ "short" \notin lapses' =>
              /\ Len(sent_body') = Len(sent_body) + Len(s)
              /\ \A i \in 1..(Len(sent_body) + Len(s)) :
                   sent_body'[i] = IF i <= Len(sent_body) THEN sent_body[i]
                                   ELSE s[i - Len(sent_body)]
      BY <1>1, <2>1, <3>3, PassIs
    <3>6. Clear' => /\ Len(sent_body) = 0 /\ "short" \notin lapses'
      <4>1. Clear' => Clear /\ "short" \notin lapses'
        BY <3>5 DEF Clear
      <4> QED BY <1>1, <3>4, <4>1
    <3>7. Len(s) \in Nat /\ body_relayed' = Len(s) /\ BodyAt + Len(s) = Len(head)
      BY <1>2, <1>3, <2>1, <3>1, <3>2, <3>3
    <3>8. ASSUME Clear'
          PROVE  /\ Len(sent_body') = body_relayed'
                 /\ \A i \in 1..Len(sent_body') : sent_body'[i] = head[BodyAt + i]
      <4>1. Len(sent_body') = Len(s)
        BY <3>5, <3>6, <3>7, <3>8
      <4>2. ASSUME NEW i \in 1..Len(s) PROVE sent_body'[i] = head[BodyAt + i]
        <5>1. i \in 1..(0 + Len(s)) /\ ~(i <= 0) /\ i - 0 = i
          BY <3>7
        <5>2. sent_body'[i] = s[i]
          BY <3>5, <3>6, <3>8, <5>1
        <5> QED BY <3>3, <3>7, <5>2
      <4> QED BY <3>7, <4>1, <4>2
    <3> QED BY <3>5, <3>7, <3>8
  <2>2. CASE /\ ~(HeadEnd > 0 /\ HeadEnd < Len(head))
             /\ UNCHANGED <<sent_body, body_relayed, lapses>>
    <3>1. ~CutOff => BodyAt = Len(head)
      BY <1>2, <1>3, <1>4, <2>2
    <3>2. /\ sent_body' \in Seq(Told) /\ body_relayed' = 0
          /\ Clear' => sent_body' = <<>> /\ Len(sent_body') = 0
      BY <1>1, <2>2, EmptyIs DEF Clear
    <3> QED BY <1>3, <2>2, <3>1, <3>2
  <2> QED BY <1>5, <2>1, <2>2
<1>7. CutOff' = CutOff
  BY <1>6 DEF CutOff
<1>8. RelayTypeOK'
  <2>1. Len(head') < HEAD_BUF_SIZE
    BY <1>1, EmptyIs, RelayAssumption
  <2> QED BY <1>1, <1>6, <2>1 DEF RelayInv, RelayTypeOK, Stages
<1>9. ByStage'
  BY <1>1, <1>6 DEF RelayInv, ByStage
<1>10. RestFollows'
  <2> SUFFICES ASSUME ~CutOff
      PROVE  /\ BodyAt + body_relayed' + Len(upstream) = Len(b)
             /\ \A i \in 1..Len(upstream) :
                  upstream[i] = b[BodyAt + body_relayed' + i]
             /\ Clear' => Len(sent_body') = body_relayed'
    BY <1>1, <1>3, <1>7 DEF RestFollows
  <2> QED BY <1>2, <1>6
<1>11. BodySoFar'
  <2> SUFFICES ASSUME ~CutOff, Clear'
      PROVE  /\ BodyAt + Len(sent_body') <= Len(b)
             /\ \A i \in 1..Len(sent_body') : sent_body'[i] = b[BodyAt + i]
    BY <1>1, <1>3, <1>7 DEF BodySoFar
  <2>1. BodyAt + Len(sent_body') = Len(head) /\ Len(sent_body') \in Nat
    BY <1>6
  <2>2. \A i \in 1..Len(sent_body') : BodyAt + i \in 1..Len(head)
    BY <1>2, <1>3, <2>1
  <2> QED BY <1>2, <1>6, <2>1, <2>2
<1>12. LengthTold' /\ RestTyped'
  <2>1. lapses \subseteq lapses'
    BY <1>6
  <2>2. LengthTold'
    BY <1>1, <1>7, <2>1, LengthStays
  <2>3. "endless" \notin lapses'
    BY <1>1, <1>6
  <2> QED BY <1>1, <1>2, <2>2, <2>3 DEF RestTyped
<1> QED BY <1>1, <1>8, <1>9, <1>10, <1>11, <1>12
        DEF RelayInv, HeadIsFirst, SearchRight, LinesDone

\* The body upstream sends, place by place.
LEMMA BodyIs ==
  ASSUME response \in Responses
  PROVE  /\ Body \in Seq(Bytes) /\ Len(Body) = Len(response.bytes) - BodyAt
         /\ \A i \in 1..(Len(response.bytes) - BodyAt) :
              Body[i] = response.bytes[BodyAt + i]
         /\ BodyAt \in Nat /\ BodyAt <= Len(response.bytes)
         /\ Len(response.bytes) \in Nat
<1> DEFINE b == response.bytes
<1>1. b \in Seq(Bytes) /\ BlankLine(b) \in 1..(Len(b) - 3) /\ Len(b) \in Nat
  BY BlankLineIs
<1>2. BodyAt \in 0..Len(b) /\ BlankLine(b) + 4 = BodyAt + 1
  BY <1>1 DEF BodyAt
<1>3. Body = From(b, BodyAt + 1)
  BY <1>2 DEF Body
<1> HIDE DEF b
<1>4. /\ Body \in Seq(Bytes) /\ Len(Body) = Len(b) - BodyAt
      /\ \A i \in 1..(Len(b) - BodyAt) : Body[i] = b[BodyAt + i]
  BY <1>1, <1>2, <1>3, FromIs
<1> QED BY <1>1, <1>2, <1>4 DEF b

LEMMA RestStep ==
  ASSUME RelayInv, Rest
  PROVE  RelayInv'
<1> DEFINE b == response.bytes
<1>1. /\ stage = "rest" /\ response \in Responses /\ heap = {}
      /\ UNCHANGED <<answer, response, sock, heap, head, found_terminator, sent_head,
                     has_content_length>>
      /\ sent_body \in Seq(Told) /\ Len(sent_body) \in Nat /\ body_relayed \in Nat
  BY DEF Rest, RelayInv, RelayTypeOK, ByStage, reqVars, headVars
<1>2. ~CutOff /\ "endless" \notin lapses =>
        /\ upstream \in Seq(Bytes) /\ Len(upstream) \in Nat
        /\ BodyAt + body_relayed + Len(upstream) = Len(b)
        /\ \A i \in 1..Len(upstream) : upstream[i] = b[BodyAt + body_relayed + i]
        /\ Clear =>
             /\ Len(sent_body) = body_relayed
             /\ BodyAt + Len(sent_body) <= Len(b)
             /\ \A i \in 1..Len(sent_body) : sent_body[i] = b[BodyAt + i]
  BY <1>1 DEF RelayInv, RestTyped, RestFollows, BodySoFar
<1>3. BodyAt \in Nat /\ BodyAt' = BodyAt
  BY <1>1, BodyIs DEF BodyAt
<1>4. ASSUME "endless" \notin lapses,
             \E k \in 1..Least(CHUNK, Len(upstream)) :
               /\ upstream' = From(upstream, k + 1)
               /\ PassOn(First(upstream, k)) /\ UNCHANGED stage
      PROVE  RelayInv'
  <2>1. PICK k \in 1..Least(CHUNK, Len(upstream)) :
             /\ upstream' = From(upstream, k + 1)
             /\ PassOn(First(upstream, k)) /\ UNCHANGED stage
    BY <1>4
  <2> DEFINE s == First(upstream, k)
  <2>2. upstream \in Seq(Bytes) /\ Len(upstream) \in Nat
    BY <1>1 DEF RelayInv, RestTyped
  <2>3. k \in Nat /\ k <= Len(upstream) /\ k \in 0..Len(upstream)
    BY <2>2, LeastIs, RelayAssumption
  <2>4. s \in Seq(Bytes) /\ Len(s) = k /\ \A i \in 1..k : s[i] = upstream[i]
    BY <2>2, <2>3, FirstIs
  <2>5. /\ upstream' \in Seq(Bytes) /\ Len(upstream') = Len(upstream) - k
        /\ \A i \in 1..(Len(upstream) - k) : upstream'[i] = upstream[k + i]
    BY <2>1, <2>2, <2>3, FromIs
  <2>6. Pass(s) /\ body_relayed' = body_relayed + k /\ stage' = "rest"
    BY <1>1, <1>4, <2>1, <2>4 DEF PassOn
  <2> HIDE DEF s
  <2>7. /\ sent_body' \in Seq(Told)
        /\ lapses' = lapses \/ lapses' = lapses \cup {"short"}
        /\ "short" \notin lapses' =>
              /\ Len(sent_body') = Len(sent_body) + Len(s)
              /\ \A i \in 1..(Len(sent_body) + Len(s)) :
                   sent_body'[i] = IF i <= Len(sent_body) THEN sent_body[i]
                                   ELSE s[i - Len(sent_body)]
    BY <1>1, <2>4, <2>6, PassIs
  <2>8. CutOff' = CutOff
    BY <2>7 DEF CutOff
  <2>9. RelayTypeOK'
    <3>1. body_relayed' \in Nat
      BY <1>1, <2>3, <2>6
    <3>2. lapses' \in SUBSET {"cut", "cut_head", "long_head", "cramped", "short",
                             "gone", "memory", "endless"}
      BY <2>7 DEF RelayInv, RelayTypeOK
    <3> QED BY <1>1, <2>6, <3>1, <3>2 DEF RelayInv, RelayTypeOK, Stages
  <2>10. ByStage' /\ RestTyped'
    BY <1>1, <1>4, <2>5, <2>6, <2>7 DEF RelayInv, ByStage, RestTyped
  <2>11. RestFollows'
    <3> SUFFICES ASSUME ~CutOff
        PROVE  /\ BodyAt + body_relayed' + Len(upstream') = Len(b)
               /\ \A i \in 1..Len(upstream') :
                    upstream'[i] = b[BodyAt + body_relayed' + i]
               /\ Clear' => Len(sent_body') = body_relayed'
      BY <1>1, <1>3, <2>5, <2>8 DEF RestFollows
    <3>1. BodyAt + body_relayed' + Len(upstream') = Len(b)
      <4>1. BodyAt + body_relayed + Len(upstream) = Len(b)
        BY <1>2, <1>4
      <4>2. BodyAt \in Nat /\ body_relayed \in Nat
        BY <1>1, <1>3
      <4>3. body_relayed' = body_relayed + k /\ Len(upstream') = Len(upstream) - k
        BY <2>5, <2>6
      <4> QED BY <2>2, <2>3, <4>1, <4>2, <4>3
    <3>2. ASSUME NEW i \in 1..Len(upstream')
          PROVE  upstream'[i] = b[BodyAt + body_relayed' + i]
      <4>1. i \in 1..(Len(upstream) - k) /\ k + i \in 1..Len(upstream)
            /\ BodyAt + body_relayed + (k + i) = BodyAt + body_relayed' + i
        BY <1>1, <1>3, <2>2, <2>3, <2>5, <2>6
      <4> QED BY <1>2, <1>4, <2>5, <4>1
    <3>3. Clear' => Len(sent_body') = body_relayed'
      <4>1. Clear' => Clear /\ "short" \notin lapses'
        BY <2>7 DEF Clear
      <4> QED BY <1>2, <1>4, <2>4, <2>6, <2>7, <4>1
    <3> QED BY <3>1, <3>2, <3>3
  <2>12. BodySoFar'
    <3> SUFFICES ASSUME ~CutOff, Clear'
        PROVE  /\ BodyAt + Len(sent_body') <= Len(b)
               /\ \A i \in 1..Len(sent_body') : sent_body'[i] = b[BodyAt + i]
      BY <1>1, <1>3, <2>6, <2>8 DEF BodySoFar
    <3>1. Clear /\ "short" \notin lapses'
      BY <2>7 DEF Clear
    <3>2. /\ Len(sent_body) = body_relayed /\ Len(sent_body') = body_relayed + k
          /\ \A i \in 1..(body_relayed + k) :
                   sent_body'[i] = IF i <= body_relayed THEN sent_body[i]
                                   ELSE s[i - body_relayed]
      BY <1>2, <1>4, <2>4, <2>7, <3>1
    <3>3. BodyAt + Len(sent_body') <= Len(b)
      BY <1>1, <1>2, <1>3, <1>4, <2>2, <2>3, <3>1, <3>2
    <3>4. ASSUME NEW i \in 1..Len(sent_body') PROVE sent_body'[i] = b[BodyAt + i]
      <4>1. CASE i <= body_relayed
        <5>1. i \in 1..(body_relayed + k) /\ i \in 1..Len(sent_body)
          BY <1>1, <2>3, <3>2, <4>1
        <5> QED BY <1>2, <1>4, <3>1, <3>2, <4>1, <5>1
      <4>2. CASE ~(i <= body_relayed)
        <5>1. /\ i \in 1..(body_relayed + k) /\ i - body_relayed \in 1..k
              /\ i - body_relayed \in 1..Len(upstream)
              /\ BodyAt + body_relayed + (i - body_relayed) = BodyAt + i
          BY <1>1, <1>3, <2>2, <2>3, <3>2, <4>2
        <5>2. sent_body'[i] = upstream[i - body_relayed]
          BY <2>4, <3>2, <4>2, <5>1
        <5> QED BY <1>2, <1>4, <5>1, <5>2
      <4> QED BY <4>1, <4>2
    <3> QED BY <3>3, <3>4
  <2>13. LengthTold'
    <3>1. lapses \subseteq lapses'
      BY <2>7
    <3> QED BY <1>1, <2>8, <3>1, LengthStays
  <2> QED BY <2>6, <2>9, <2>10, <2>11, <2>12, <2>13
          DEF RelayInv, HeadIsFirst, SearchRight, LinesDone
<1>5. CASE /\ stage' = "close" /\ UNCHANGED <<sent_body, body_relayed>>
           /\ \/ lapses' = lapses \cup {"gone"}
              \/ lapses' = lapses \cup {"cut"}
              \/ lapses' = lapses /\ upstream = <<>>
  <2>1. CutOff' = CutOff
    BY <1>5 DEF CutOff
  <2>2. RelayTypeOK'
    BY <1>1, <1>5 DEF RelayInv, RelayTypeOK, Stages
  <2>3. ByStage' /\ RestTyped'
    BY <1>1, <1>5, <2>1 DEF RelayInv, ByStage, RestTyped
  <2>4. BodySoFar'
    <3>1. Clear' => Clear
      BY <1>5 DEF Clear
    <3>2. lapses' = {} => ~CutOff /\ Clear /\ "endless" \notin lapses /\ upstream = <<>>
      BY <1>5 DEF CutOff, Clear
    <3>3. lapses' = {} => BodyAt + Len(sent_body) = Len(b)
      <4>1. upstream = <<>> => Len(upstream) = 0
        OBVIOUS
      <4> QED BY <1>1, <1>2, <1>3, <3>2, <4>1
    <3>4. ~CutOff /\ Clear =>
            /\ BodyAt + Len(sent_body) <= Len(b)
            /\ \A i \in 1..Len(sent_body) : sent_body[i] = b[BodyAt + i]
      BY <1>1 DEF RelayInv, BodySoFar
    <3> QED BY <1>1, <1>3, <1>5, <2>1, <3>1, <3>3, <3>4 DEF BodySoFar
  <2>5. LengthTold'
    BY <1>1, <1>5, <2>1 DEF RelayInv, LengthTold
  <2> QED BY <1>5, <2>2, <2>3, <2>4, <2>5
          DEF RelayInv, HeadIsFirst, SearchRight, LinesDone, RestFollows
<1>6. ASSUME "endless" \in lapses,
             NEW k \in 1..Least(CHUNK, Len(upstream)),
             upstream' = From(upstream, k + 1), PassOn(First(upstream, k)),
             UNCHANGED stage
      PROVE  RelayInv'
  <2>1. UNCHANGED <<stage, sent_body, body_relayed, lapses>>
    BY <1>6 DEF PassOn
  <2>2. CutOff' = CutOff /\ Clear' = Clear /\ BodyAt' = BodyAt
    BY <1>1, <2>1 DEF CutOff, Clear, BodyAt
  <2>3. upstream' \in Seq(Bytes)
    <3>1. upstream \in Seq(Bytes) /\ Len(upstream) \in Nat
      BY <1>1 DEF RelayInv, RestTyped
    <3>2. k \in 0..Len(upstream)
      BY <3>1, LeastIs, RelayAssumption
    <3> QED BY <1>6, <3>1, <3>2, FromIs
  <2>4. RelayTypeOK' /\ ByStage'
    BY <1>1, <2>1, <2>2 DEF RelayInv, RelayTypeOK, ByStage
  <2>5. RestTyped' /\ RestFollows'
    BY <1>1, <1>6, <2>1, <2>3 DEF RelayInv, RestTyped, RestFollows
  <2>6. BodySoFar' /\ LengthTold'
    BY <1>1, <2>1, <2>2 DEF RelayInv, BodySoFar, LengthTold
  <2> QED BY <1>1, <2>1, <2>4, <2>5, <2>6
          DEF RelayInv, HeadIsFirst, SearchRight, LinesDone
<1> QED BY <1>4, <1>5, <1>6 DEF Rest

LEMMA RestEndsStep ==
  ASSUME RelayInv, RestEnds
  PROVE  RelayInv'
<1> DEFINE b == response.bytes
<1>1. /\ stage = "rest" /\ stage' = "close" /\ ~More /\ response \in Responses
      /\ UNCHANGED <<answer, response, upstream, sock, heap, head, found_terminator,
                     sent_head, sent_body, has_content_length, body_relayed, lapses>>
      /\ Len(sent_body) \in Nat /\ body_relayed \in Nat
      /\ upstream \in Seq(Bytes) /\ Len(upstream) \in Nat
  BY DEF RestEnds, RelayInv, RelayTypeOK, ByStage, RestTyped, reqVars, upVars, headVars,
         sentVars
<1>2. CutOff' = CutOff /\ Clear' = Clear /\ BodyAt' = BodyAt
  BY <1>1 DEF CutOff, Clear, BodyAt
<1>3. RelayTypeOK'
  BY <1>1 DEF RelayInv, RelayTypeOK, Stages
<1>4. ByStage' /\ RestTyped'
  BY <1>1, <1>2 DEF RelayInv, ByStage, RestTyped
<1>5. LengthTold'
  BY <1>1, <1>2 DEF RelayInv, LengthTold
<1>6. BodySoFar'
  <2> SUFFICES ASSUME ~CutOff, Clear
      PROVE  /\ BodyAt + Len(sent_body) <= Len(b)
             /\ \A i \in 1..Len(sent_body) : sent_body[i] = b[BodyAt + i]
             /\ lapses = {} /\ Honest => BodyAt + Len(sent_body) = Len(b)
    <3>1. Honest' = Honest
      BY <1>1 DEF Honest, Body
    <3> QED BY <1>1, <1>2, <3>1 DEF BodySoFar
  <2>1. /\ BodyAt + Len(sent_body) <= Len(b)
        /\ \A i \in 1..Len(sent_body) : sent_body[i] = b[BodyAt + i]
        /\ lapses = {} => /\ BodyAt + body_relayed + Len(upstream) = Len(b)
                          /\ Len(sent_body) = body_relayed
    BY <1>1 DEF RelayInv, BodySoFar, RestFollows
  <2>2. ASSUME lapses = {}, Honest PROVE BodyAt + Len(sent_body) = Len(b)
    <3>1. has_content_length /\ ~(body_relayed < response.length)
      BY <1>1 DEF More
    <3>2. response.length # Absent
      BY <1>1, <3>1 DEF RelayInv, LengthTold
    <3>3. response.length = Len(b) - BodyAt /\ BodyAt \in Nat /\ Len(b) \in Nat
      BY <1>1, <2>2, <3>2, BodyIs DEF Honest
    <3> QED BY <1>1, <2>1, <2>2, <3>1, <3>3
  <2> QED BY <2>1, <2>2
<1> QED BY <1>1, <1>3, <1>4, <1>5, <1>6
        DEF RelayInv, HeadIsFirst, SearchRight, LinesDone, RestFollows

LEMMA GoesOnStep ==
  ASSUME RelayInv, UpstreamGoesOn
  PROVE  RelayInv'
<1>1. /\ stage = "rest" /\ response.endless /\ lapses' = lapses \cup {"endless"}
      /\ UNCHANGED <<stage, answer, response, sock, heap, head, found_terminator,
                     sent_head, sent_body, has_content_length, body_relayed>>
  BY DEF UpstreamGoesOn, reqVars, headVars, sentVars
<1>2. upstream' \in Seq(Bytes)
  <2>1. PICK byte \in BodyBytes : upstream' = <<byte>>
    BY DEF UpstreamGoesOn
  <2>2. byte \in Bytes
    BY DEF Bytes
  <2> QED BY <2>1, <2>2
<1>3. CutOff' = CutOff /\ Clear' = Clear /\ BodyAt' = BodyAt
  BY <1>1 DEF CutOff, Clear, BodyAt
<1>4. RelayTypeOK' /\ ByStage'
  BY <1>1, <1>3 DEF RelayInv, RelayTypeOK, ByStage
<1>5. RestTyped' /\ RestFollows'
  BY <1>1, <1>2 DEF RestTyped, RestFollows
<1>6. BodySoFar' /\ LengthTold'
  BY <1>1, <1>3 DEF RelayInv, BodySoFar, LengthTold
<1> QED BY <1>1, <1>4, <1>5, <1>6
        DEF RelayInv, HeadIsFirst, SearchRight, LinesDone

LEMMA RelayStepOK == RelayInv /\ [RelayNext]_relayVars => RelayInv'
<1> SUFFICES ASSUME RelayInv, [RelayNext]_relayVars PROVE RelayInv'
  OBVIOUS
<1>1. CASE Request \/ Refuse \/ OpenSocket \/ ConnectFails \/ SendRequest
           \/ PostChunk \/ PostEnds
  BY <1>1, EarlyStep
<1>2. CASE Answer
  BY <1>2, AnswerStep
<1>3. CASE ReadHead
  BY <1>3, ReadHeadStep
<1>4. CASE StartHead
  BY <1>4, StartHeadStep
<1>5. CASE ForwardLine
  BY <1>5, ForwardLineStep
<1>6. CASE SendHead
  BY <1>6, SendHeadStep
<1>7. CASE Leftover
  BY <1>7, LeftoverStep
<1>8. CASE Rest
  BY <1>8, RestStep
<1>9. CASE RestEnds
  BY <1>9, RestEndsStep
<1>10. CASE Close
  BY <1>10, CloseStep
<1>11. CASE UpstreamGoesOn
  BY <1>11, GoesOnStep
<1>12. CASE UNCHANGED relayVars
  <2>1. UNCHANGED <<stage, answer, response, upstream, sock, heap, head,
                    found_terminator, line_start, out, sent_head, sent_body,
                    has_content_length, body_relayed, lapses>>
    BY <1>12 DEF relayVars, reqVars, upVars, headVars, outVars, sentVars
  <2>2. CutOff' = CutOff /\ Clear' = Clear /\ BodyAt' = BodyAt /\ Honest' = Honest
    BY <2>1 DEF CutOff, Clear, BodyAt, Honest, Body
  <2>3. RelayTypeOK' /\ ByStage' /\ RestTyped'
    BY <2>1, <2>2 DEF RelayInv, RelayTypeOK, ByStage, RestTyped
  <2>4. HeadIsFirst' /\ SearchRight'
    BY <2>1, <2>2 DEF RelayInv, HeadIsFirst, SearchRight
  <2>5. LinesDone' /\ LengthTold'
    BY <2>1, <2>2 DEF RelayInv, LinesDone, LengthTold
  <2>6. RestFollows' /\ BodySoFar'
    BY <2>1, <2>2 DEF RelayInv, RestFollows, BodySoFar
  <2> QED BY <2>3, <2>4, <2>5, <2>6 DEF RelayInv
<1> QED BY <1>1, <1>2, <1>3, <1>4, <1>5, <1>6, <1>7, <1>8, <1>9, <1>10, <1>11, <1>12
        DEF RelayNext, RelayStep

LEMMA RelayInvariance == RelaySpec => []RelayInv
<1> QED BY RelayInvInit, RelayStepOK, PTL DEF RelaySpec

-----------------------------------------------------------------------------
(* What upstream is sent.                                                  *)

LEMMA SplitIs ==
  ASSUME NEW S, NEW s \in Seq(S), NEW k \in 0..Len(s)
  PROVE  First(s, k) \o From(s, k + 1) = s
<1> DEFINE a == First(s, k)
           c == From(s, k + 1)
<1>1. a \in Seq(S) /\ Len(a) = k /\ \A i \in 1..k : a[i] = s[i]
  BY FirstIs
<1>2. /\ c \in Seq(S) /\ Len(c) = Len(s) - k
      /\ \A i \in 1..(Len(s) - k) : c[i] = s[k + i]
  BY FromIs
<1> HIDE DEF a, c
<1>3. /\ a \o c \in Seq(S) /\ Len(a \o c) = Len(s)
      /\ \A i \in 1..Len(s) : (a \o c)[i] = IF i <= k THEN a[i] ELSE c[i - k]
  BY <1>1, <1>2, Joined
<1>4. ASSUME NEW i \in 1..Len(s) PROVE (a \o c)[i] = s[i]
  <2>1. CASE i <= k
    BY <1>1, <1>3, <2>1
  <2>2. CASE ~(i <= k)
    <3>1. i - k \in 1..(Len(s) - k) /\ k + (i - k) = i
      BY <2>2
    <3> QED BY <1>2, <1>3, <2>2, <3>1
  <2> QED BY <2>1, <2>2
<1>5. a \o c = s
  BY <1>3, <1>4, SeqEqual
<1> QED BY <1>5 DEF a, c

\* A chunk of the phone's body that is sent leaves what was sent and what is
\* still to come as they were.
LEMMA ChunkStep ==
  ASSUME PostSoFar, PostChunk
  PROVE  PostSoFar'
<1>1. /\ stage = "post" /\ post' = post /\ post \in Seq(Bytes)
      /\ remaining \in Seq(Bytes) /\ to_upstream \in Seq(Sent)
      /\ "short" \notin lapses => to_upstream \o remaining = <<"NUL">> \o post
  BY DEF PostChunk, PostSoFar
<1>2. CASE /\ stage' = "answer" /\ lapses' = lapses \cup {"gone"}
           /\ UNCHANGED <<to_upstream, remaining>>
  BY <1>1, <1>2 DEF PostSoFar
<1>3. ASSUME NEW k \in 1..Least(CHUNK, Len(remaining)),
             Send(to_upstream, to_upstream', First(remaining, k)),
             remaining' = From(remaining, k + 1), stage' = "post"
      PROVE  PostSoFar'
  <2>1. k \in 0..Len(remaining)
    <3>1. k \in Nat /\ 1 <= k /\ k <= Len(remaining)
      BY <1>1, LeastIs, RelayAssumption
    <3> QED BY <3>1
  <2>2. PICK a, c : a = First(remaining, k) /\ c = From(remaining, k + 1)
    OBVIOUS
  <2>3. a \in Seq(Bytes) /\ c \in Seq(Bytes) /\ a \o c = remaining
    BY <1>1, <2>1, <2>2, FirstIs, FromIs, SplitIs
  <2>4. a \in Seq(Sent) /\ c \in Seq(Sent)
    BY <2>3 DEF Sent
  <2>5. PICK now : now = to_upstream'
    OBVIOUS
  <2>6. /\ now \in Seq(Sent)
        /\ lapses' = lapses \/ lapses' = lapses \cup {"short"}
        /\ "short" \notin lapses' => now = to_upstream \o a
    <3>1. Send(to_upstream, now, a)
      BY <1>3, <2>2, <2>5
    <3> QED BY <1>1, <2>4, <3>1, SendIs
  <2>7. ASSUME "short" \notin lapses' PROVE now \o c = <<"NUL">> \o post
    <3>1. (to_upstream \o a) \o c = to_upstream \o (a \o c)
      <4>1. PICK u \in Seq(Sent) : u = to_upstream
        BY <1>1
      <4>2. PICK d \in Seq(Sent) : d = a
        BY <2>4
      <4>3. PICK e \in Seq(Sent) : e = c
        BY <2>4
      <4>4. (u \o d) \o e = u \o (d \o e)
        BY ConcatAssociative
      <4> QED BY <4>1, <4>2, <4>3, <4>4
    <3> QED BY <1>1, <2>3, <2>6, <2>7, <3>1
  <2> QED BY <1>1, <1>3, <2>2, <2>3, <2>5, <2>6, <2>7 DEF PostSoFar
<1> QED BY <1>1, <1>2, <1>3 DEF PostChunk

LEMMA PostStep == PostSoFar /\ [RelayNext]_relayVars => PostSoFar'
<1> SUFFICES ASSUME PostSoFar, [RelayNext]_relayVars PROVE PostSoFar'
  OBVIOUS
<1>1. CASE Request
  BY <1>1, RelayAssumption DEF Request, PostSoFar
<1>2. CASE Refuse \/ OpenSocket \/ ConnectFails \/ PostEnds
  BY <1>2 DEF Refuse, OpenSocket, ConnectFails, PostEnds, PostSoFar, reqVars
<1>3. CASE SendRequest
  <2>1. <<"NUL">> \in Seq(Sent) /\ <<>> \in Seq(Sent)
        /\ <<>> \o <<"NUL">> = <<"NUL">>
    <3>1. "NUL" \in Sent
      BY DEF Sent
    <3>2. <<"NUL">> \in Seq(Sent)
      BY <3>1
    <3> QED BY <3>2, EmptyIs, ConcatEmptySeq
  <2>2. PICK now : now = to_upstream'
    OBVIOUS
  <2>3. /\ now \in Seq(Sent)
        /\ "short" \notin lapses' => now = <<"NUL">>
    <3>1. Send(<<>>, now, <<"NUL">>)
      BY <1>3, <2>2 DEF SendRequest
    <3> QED BY <2>1, <3>1, SendIs
  <2> QED BY <1>3, <2>2, <2>3 DEF SendRequest, PostSoFar
<1>4. CASE PostChunk
  BY <1>4, ChunkStep
<1>5. CASE Answer \/ ReadHead \/ StartHead \/ ForwardLine \/ SendHead
           \/ Leftover \/ Rest \/ RestEnds \/ UpstreamGoesOn \/ Close
  <2>1. stage' \in {"head", "build", "lines", "leftover", "rest", "close", "idle"}
    BY <1>5 DEF Answer, ReadHead, StartHead, ForwardLine, SendHead, Leftover, Rest,
                RestEnds, UpstreamGoesOn, Close
  <2> QED BY <2>1 DEF PostSoFar
<1>6. CASE UNCHANGED relayVars
  BY <1>6 DEF PostSoFar, relayVars, reqVars
<1> QED BY <1>1, <1>2, <1>3, <1>4, <1>5, <1>6 DEF RelayNext, RelayStep

LEMMA PostInvariance == RelaySpec => []PostSoFar
<1>1. RelayInit => PostSoFar
  BY DEF RelayInit, PostSoFar
<1> QED BY <1>1, PostStep, PTL DEF RelaySpec

\* Then it is in order, and at the end whole.
LEMMA PostSoFarOrder == PostSoFar => PostInOrder
<1> SUFFICES ASSUME PostSoFar, stage \in {"post", "answer"}, "short" \notin lapses
             PROVE  /\ IsPrefix(to_upstream, <<"NUL">> \o post)
                    /\ stage = "answer" /\ "gone" \notin lapses =>
                         to_upstream = <<"NUL">> \o post
  BY DEF PostInOrder
<1>1. /\ remaining \in Seq(Sent) /\ to_upstream \in Seq(Sent)
      /\ to_upstream \o remaining = <<"NUL">> \o post
  BY DEF PostSoFar, Sent
<1>2. PICK u, r : u = to_upstream /\ r = remaining
  OBVIOUS
<1>3. IsPrefix(u, u \o r)
  <2>1. u \in Seq(Sent) /\ r \in Seq(Sent) /\ Len(u) \in Nat /\ Len(r) \in Nat
    BY <1>1, <1>2
  <2>2. /\ u \o r \in Seq(Sent) /\ Len(u \o r) = Len(u) + Len(r)
        /\ \A i \in 1..(Len(u) + Len(r)) :
             (u \o r)[i] = IF i <= Len(u) THEN u[i] ELSE r[i - Len(u)]
    BY <2>1, Joined
  <2>3. PICK w : w = u \o r
    OBVIOUS
  <2>4. /\ w \in Seq(Sent) /\ Len(u) <= Len(w) /\ Len(u) \in 0..Len(w)
        /\ \A i \in 1..Len(u) : w[i] = u[i]
    BY <2>1, <2>2, <2>3
  <2>5. /\ First(w, Len(u)) \in Seq(Sent) /\ Len(First(w, Len(u))) = Len(u)
        /\ \A i \in 1..Len(u) : First(w, Len(u))[i] = w[i]
    BY <2>4, FirstIs
  <2>6. First(w, Len(u)) = u
    BY <2>1, <2>4, <2>5, SeqEqual
  <2>7. First(u, Len(u)) = u
    BY <2>1, SubSeqFull DEF First
  <2> QED BY <2>3, <2>4, <2>6, <2>7 DEF IsPrefix, First
<1>4. stage = "answer" /\ "gone" \notin lapses => u \o r = u
  BY <1>1, <1>2, ConcatEmptySeq DEF PostSoFar
<1> QED BY <1>1, <1>2, <1>3, <1>4

-----------------------------------------------------------------------------
(* The theorems about the relay.                                           *)

\* However the handler leaves, nothing stays open or allocated; the end of the
\* head is seen in whatever parts it comes; and the phone is told the status and
\* the headers it should be.
THEOREM RelaySafetyCorrect == RelaySpec => []RelaySafety
<1>1. RelayInv /\ PostSoFar => RelaySafety
  <2> SUFFICES ASSUME RelayInv, PostSoFar PROVE RelaySafety
    OBVIOUS
  <2>1. RelayTypeOK
    BY DEF RelayInv
  <2>2. NothingLeaks
    BY DEF RelayInv, ByStage, NothingLeaks
  <2>3. EndIsSeen
    <3> SUFFICES ASSUME stage \in {"build", "lines", "leftover"}
                 PROVE  found_terminator <=> HeadEnd > 0
      BY DEF EndIsSeen
    <3>1. found_terminator <=> ~CutOff
      BY DEF RelayInv, SearchRight
    <3>2. response \in Responses
      BY DEF RelayInv, ByStage
    <3>3. BodyAt > 0
      BY <3>2, BlankLineIs DEF BodyAt
    <3>4. HeadEnd = IF CutOff THEN 0 ELSE BodyAt
      BY HeadEndRight
    <3> QED BY <3>1, <3>3, <3>4
  <2>4. HeadTold
    <3> SUFFICES ASSUME sent_head # Absent, sent_head.ended \/ "short" \notin lapses,
                        ~CutOff
                 PROVE  /\ response.long \/ sent_head.status = response.status
                        /\ (response.length # Absent) = ("L" \in ToSet(sent_head.lines))
                        /\ ToSet(sent_head.lines) \cap {"T", "K"} = {}
      BY DEF HeadTold, CutOff
    <3>1. stage \in {"leftover", "rest", "close"}
      BY DEF RelayInv, ByStage
    <3>2. /\ response.long \/ sent_head.status = response.status
          /\ has_content_length <=> response.length # Absent
          /\ has_content_length <=> "L" \in ToSet(sent_head.lines)
          /\ ToSet(sent_head.lines) \cap {"T", "K"} = {}
      BY <3>1 DEF RelayInv, LengthTold
    <3> QED BY <3>2
  <2> QED BY <2>1, <2>2, <2>3, <2>4, PostSoFarOrder DEF RelaySafety
<1> QED BY <1>1, RelayInvariance, PostInvariance, PTL

\* What the phone gets after the head is the body from its beginning, whatever
\* the receives cut, and all of it when nothing went wrong: only where a lapse named
\* in BodyInOrder happened, the missing room for the end of the head among them, may
\* it get anything else.
THEOREM BodyCorrect == RelaySpec => []BodyRight
<1>1. RelayInv => BodyRight
  <2> SUFFICES ASSUME RelayInv PROVE BodyRight
    OBVIOUS
  <2> DEFINE b == response.bytes
  <2>1. sent_body \in Seq(Told) /\ Len(sent_body) \in Nat
    BY DEF RelayInv, ByStage
  <2>2. ASSUME response # Absent
        PROVE  /\ Body \in Seq(Bytes) /\ Len(Body) = Len(b) - BodyAt
               /\ \A i \in 1..(Len(b) - BodyAt) : Body[i] = b[BodyAt + i]
               /\ BodyAt \in Nat /\ BodyAt <= Len(b) /\ Len(b) \in Nat
    <3>1. response \in Responses
      BY <2>2 DEF RelayInv, ByStage
    <3> QED BY <3>1, BodyIs
  <2>3. ASSUME response # Absent, ~CutOff, Clear
        PROVE  /\ BodyAt + Len(sent_body) <= Len(b)
               /\ \A i \in 1..Len(sent_body) : sent_body[i] = Body[i]
    <3>1. CASE stage \in {"rest", "close"}
      <4>1. /\ BodyAt + Len(sent_body) <= Len(b)
            /\ \A i \in 1..Len(sent_body) : sent_body[i] = b[BodyAt + i]
        BY <2>3, <3>1 DEF RelayInv, BodySoFar
      <4>2. \A i \in 1..Len(sent_body) : i \in 1..(Len(b) - BodyAt)
        BY <2>1, <2>2, <2>3, <4>1
      <4> QED BY <2>2, <2>3, <4>1, <4>2
    <3>2. CASE stage \notin {"rest", "close"}
      <4>1. sent_body = <<>> /\ Len(<<>>) = 0
        BY <2>3, <3>2 DEF RelayInv, ByStage
      <4> QED BY <2>2, <2>3, <4>1
    <3> QED BY <3>1, <3>2
  <2>4. BodyInOrder
    <3> SUFFICES ASSUME response # Absent, ~CutOff, Clear
                 PROVE  IsPrefix(sent_body, Body)
      BY DEF BodyInOrder, CutOff, Clear
    <3> DEFINE m == Len(sent_body)
               v == First(sent_body, m)
               w == First(Body, m)
    <3>1. m \in Nat /\ m <= Len(Body) /\ Body \in Seq(Bytes)
          /\ \A i \in 1..m : sent_body[i] = Body[i]
      BY <2>1, <2>2, <2>3
    <3>2. v \in Seq(Told) /\ Len(v) = m /\ \A i \in 1..m : v[i] = sent_body[i]
      <4>1. m \in 0..Len(sent_body)
        BY <3>1
      <4> QED BY <2>1, <4>1, FirstIs
    <3>3. w \in Seq(Bytes) /\ Len(w) = m /\ \A i \in 1..m : w[i] = Body[i]
      <4>1. m \in 0..Len(Body)
        BY <3>1, <2>2
      <4> HIDE DEF m
      <4> QED BY <3>1, <4>1, FirstIs
    <3>4. v = w
      <4> HIDE DEF v, w, m
      <4> QED BY <3>1, <3>2, <3>3, SeqEqual
    <3> QED BY <3>1, <3>4 DEF IsPrefix, First
  <2>5. BodyWhole
    <3> SUFFICES ASSUME stage = "close", lapses = {}, Honest
                 PROVE  sent_body = Body
      BY DEF BodyWhole
    <3>1. ~CutOff /\ Clear
      BY DEF CutOff, Clear
    <3>2. response # Absent
      BY RelayAssumption DEF RelayInv, ByStage
    <3>3. BodyAt + Len(sent_body) = Len(b)
      BY <3>1 DEF RelayInv, BodySoFar
    <3>4. /\ Body \in Seq(Bytes) /\ Len(Body) = Len(sent_body)
          /\ \A i \in 1..Len(sent_body) : sent_body[i] = Body[i]
      BY <2>1, <2>2, <2>3, <3>1, <3>2, <3>3
    <3> QED BY <2>1, <3>4, SeqEqual
  <2> QED BY <2>4, <2>5 DEF BodyRight
<1> QED BY <1>1, RelayInvariance, PTL

\* With an honest Content-Length the relay never waits for bytes upstream does
\* not have to send.
THEOREM NoWaitCorrect == RelaySpec => []NoWaitPastLength
<1>1. RelayInv => NoWaitPastLength
  <2> SUFFICES ASSUME RelayInv, stage = "rest", More, has_content_length, Honest,
                      ~CutOff, upstream = <<>>
               PROVE  FALSE
    BY DEF NoWaitPastLength, CutOff
  <2>1. response \in Responses /\ body_relayed \in Nat
    BY DEF RelayInv, ByStage, RelayTypeOK
  <2>2. response.length # Absent
    BY DEF RelayInv, LengthTold
  <2>3. BodyAt + body_relayed + Len(upstream) = Len(response.bytes) /\ Len(upstream) = 0
    <3>1. "endless" \notin lapses
      BY <2>1, <2>2, AnswerIs DEF RelayInv, RestTyped
    <3> QED BY <3>1 DEF RelayInv, RestFollows
  <2>4. response.length = Len(response.bytes) - BodyAt
        /\ BodyAt \in Nat /\ Len(response.bytes) \in Nat
    BY <2>1, <2>2, BodyIs DEF Honest
  <2>5. body_relayed < response.length
    BY DEF More
  <2> QED BY <2>1, <2>3, <2>4, <2>5
<1> QED BY <1>1, RelayInvariance, PTL

-----------------------------------------------------------------------------
(* What RelayEnds rests on, besides fairness and a step being possible.    *)

\* How far the handler is, and how much there is for the stage it is in.
Place == [upstream |-> 1, connect |-> 2, post |-> 3, answer |-> 4, head |-> 5,
          build |-> 6, lines |-> 7, leftover |-> 8, rest |-> 9, close |-> 10, idle |-> 11]
Left == CASE stage = "post" -> Len(remaining)
          [] stage \in {"head", "rest"} -> Len(upstream)
          [] stage = "lines" -> Len(head) + 1 - line_start
          [] OTHER -> 0

\* A step of the handler never goes back, and one that stays in its loop has less
\* to do afterwards.
Advances ==
  RelayStep =>
    /\ Left \in Nat
    /\ Place[stage'] > Place[stage] \/ (stage' = stage /\ Left' < Left)

LEMMA LeftIsNat ==
  ASSUME RelayInv, PostSoFar
  PROVE  Left \in Nat
<1>1. CASE stage = "post"
  BY <1>1 DEF PostSoFar, Left
<1>2. CASE stage = "head"
  BY <1>2 DEF RelayInv, HeadIsFirst, Left
<1>3. CASE stage = "rest"
  BY <1>3 DEF RelayInv, RestTyped, Left
<1>4. CASE stage = "lines"
  <2>1. /\ line_start \in Nat /\ Len(head) \in Nat
        /\ line_start # 0 => line_start - 1 <= Len(head)
    BY <1>4 DEF RelayInv, LinesDone, HeadIsFirst
  <2>2. Len(head) + 1 - line_start \in Nat
    BY <2>1
  <2> QED BY <1>4, <2>2 DEF Left
<1>5. CASE stage \notin {"post", "head", "rest", "lines"}
  BY <1>5 DEF Left
<1> QED BY <1>1, <1>2, <1>3, <1>4, <1>5

\* A receive takes something of what there is.
LEMMA LessIsLeft ==
  ASSUME NEW s \in Seq(Bytes), NEW c \in Nat, NEW k \in 1..Least(c, Len(s))
  PROVE  Len(From(s, k + 1)) < Len(s)
<1>1. k \in Nat /\ 1 <= k /\ k <= Len(s) /\ Len(s) \in Nat
  BY LeastIs
<1>2. k \in 0..Len(s)
  BY <1>1
<1>3. Len(From(s, k + 1)) = Len(s) - k
  BY <1>2, FromIs
<1> QED BY <1>1, <1>3

LEMMA Onward ==
  ASSUME RelayInv, PostSoFar, RelayStep
  PROVE  Place[stage'] > Place[stage] \/ (stage' = stage /\ Left' < Left)
<1>1. CASE Refuse \/ OpenSocket \/ ConnectFails \/ SendRequest \/ PostEnds
  BY <1>1 DEF Refuse, OpenSocket, ConnectFails, SendRequest, PostEnds, Place
<1>2. CASE PostChunk
  <2>1. CASE stage' = "answer"
    BY <1>2, <2>1 DEF PostChunk, Place
  <2>2. ASSUME NEW k \in 1..Least(CHUNK, Len(remaining)), stage' = stage,
               remaining' = From(remaining, k + 1)
        PROVE  stage' = stage /\ Left' < Left
    <3>1. stage = "post" /\ remaining \in Seq(Bytes)
      BY <1>2 DEF PostChunk, PostSoFar
    <3>2. Len(remaining') < Len(remaining)
      BY <2>2, <3>1, LessIsLeft, RelayAssumption
    <3>3. Left = Len(remaining) /\ Left' = Len(remaining')
      BY <2>2, <3>1 DEF Left
    <3> QED BY <2>2, <3>2, <3>3
  <2> QED BY <1>2, <2>1, <2>2 DEF PostChunk
<1>3. CASE Answer \/ StartHead \/ SendHead \/ Leftover \/ RestEnds \/ Close
  <2>1. \/ stage = "answer" /\ stage' \in {"head", "close"}
        \/ stage = "build" /\ stage' \in {"lines", "close"}
        \/ stage = "lines" /\ stage' = "leftover"
        \/ stage = "leftover" /\ stage' = "rest"
        \/ stage = "rest" /\ stage' = "close"
        \/ stage = "close" /\ stage' = "idle"
    BY <1>3 DEF Answer, StartHead, SendHead, Leftover, RestEnds, Close
  <2> QED BY <2>1 DEF Place
<1>4. CASE ReadHead
  <2>1. stage = "head" /\ upstream \in Seq(Bytes) /\ HeadRoom \in Nat
    <3>1. stage = "head" /\ head \in Seq(Bytes) /\ upstream \in Seq(Bytes)
      BY <1>4 DEF ReadHead, RelayInv, HeadIsFirst
    <3>2. Len(head) \in Nat /\ Len(head) < HEAD_BUF_SIZE
      BY <3>1 DEF RelayInv, RelayTypeOK
    <3> QED BY <3>1, <3>2, RelayAssumption DEF HeadRoom
  <2>2. CASE stage' = "build"
    BY <2>1, <2>2 DEF Place
  <2>3. ASSUME NEW k \in 1..Least(HeadRoom, Len(upstream)), stage' = "head",
               upstream' = From(upstream, k + 1)
        PROVE  stage' = stage /\ Left' < Left
    <3>1. Len(upstream') < Len(upstream)
      BY <2>1, <2>3, LessIsLeft
    <3>2. Left = Len(upstream) /\ Left' = Len(upstream')
      BY <2>1, <2>3 DEF Left
    <3> QED BY <2>1, <2>3, <3>1, <3>2
  <2>4. \/ stage' = "build"
        \/ \E k \in 1..Least(HeadRoom, Len(upstream)) :
              stage' = "head" /\ upstream' = From(upstream, k + 1)
    BY <1>4 DEF ReadHead
  <2> QED BY <2>2, <2>3, <2>4
<1>5. CASE ForwardLine
  <2>1. /\ stage = "lines" /\ stage' = stage /\ line_start' = line_start + 3
        /\ head' = head /\ line_start \in Nat /\ head \in Seq(Bytes)
    BY <1>5 DEF ForwardLine, RelayInv, LinesDone, HeadIsFirst, headVars
  <2>2. Left = Len(head) + 1 - line_start /\ Left' = Len(head) + 1 - (line_start + 3)
    BY <2>1 DEF Left
  <2>3. Len(head) \in Nat
    BY <2>1
  <2> QED BY <2>1, <2>2, <2>3
<1>6. CASE Rest
  <2>1. stage = "rest" /\ upstream \in Seq(Bytes)
    BY <1>6 DEF Rest, RelayInv, RestTyped
  <2>2. CASE stage' = "close"
    BY <2>1, <2>2 DEF Place
  <2>3. ASSUME NEW k \in 1..Least(CHUNK, Len(upstream)), stage' = stage,
               upstream' = From(upstream, k + 1)
        PROVE  stage' = stage /\ Left' < Left
    <3>1. Len(upstream') < Len(upstream)
      BY <2>1, <2>3, LessIsLeft, RelayAssumption
    <3>2. Left = Len(upstream) /\ Left' = Len(upstream')
      BY <2>1, <2>3 DEF Left
    <3> QED BY <2>3, <3>1, <3>2
  <2> QED BY <1>6, <2>2, <2>3 DEF Rest
<1> QED BY <1>1, <1>2, <1>3, <1>4, <1>5, <1>6 DEF RelayStep

\* The handler does not go round for ever by itself: no step leads back, and a turn
\* of a loop (the phone's body, the head, its lines, the rest of the answer) leaves
\* less to do in it. Only upstream can add to it, by going on (UpstreamGoesOn).
THEOREM AdvancesCorrect == RelaySpec => [][Advances]_relayVars
<1>1. RelayInv /\ PostSoFar /\ [RelayNext]_relayVars => [Advances]_relayVars
  BY LeftIsNat, Onward DEF Advances
<1> QED BY <1>1, RelayInvariance, PostInvariance, PTL DEF RelaySpec
=============================================================================
