---------------------------- MODULE ProxyGateway ----------------------------
(***************************************************************************)
(* The configuration of the HTTP proxy gateway (main/proxy_gateway.c) with *)
(* its users: the HTTP server's task saves it, shows it and asks for the   *)
(* address of the gateway, and the DNS task asks at every query whether it *)
(* is on. Memory is filled from three keys of flash at the first use, under *)
(* a mutex that is made at the first use too.                              *)
(*                                                                         *)
(* The address of a host is named by the host. The mutex a task takes is   *)
(* the one g_cfg_mutex names when it takes it: with two tasks the variable  *)
(* does not change while one of them waits.                                *)
(***************************************************************************)
EXTENDS Naturals, FiniteSets

CONSTANTS
  Hosts, Ports,
  Empty,              \* the empty host
  DEFAULT_PORT,
  None,               \* NULL, no key, no address
  MaxSaves            \* bound: forms posted in a behaviour

Tasks == {"httpd", "dns"}
Mutexes == {1, 2}

ASSUME GatewayAssumption ==
  /\ Empty \notin Hosts
  /\ None \notin Hosts /\ None # Empty /\ None \notin Ports
  /\ None \notin Mutexes /\ None \notin Tasks /\ None \notin BOOLEAN
  /\ DEFAULT_PORT \in Ports /\ MaxSaves \in Nat

VARIABLES
  g_cfg, g_loaded,    \* enabled, host, port, resolved_ip
  g_cfg_mutex,        \* None, or the mutex
  owner,              \* owner[m]: the task that has m, or None
  flash,              \* the three keys
  pc, op,             \* pc[t], and the call it is in
  got,                \* the key load_locked() has read
  form,               \* the configuration being saved
  ok,                 \* its local variable
  saves,              \* history: what the bound counts
  torn,               \* history: the keys are not all of one save
  twice               \* history: two tasks found no mutex, and the one that came
                      \*   second has replaced the other's

cfgVars == <<g_cfg, g_loaded>>
lockVars == <<g_cfg_mutex, owner, twice>>
saveVars == <<form, ok, saves>>
flashVars == <<flash, torn>>
gatewayVars == <<cfgVars, lockVars, flashVars, saveVars, pc, op, got>>

Goto(t, l) == pc' = [pc EXCEPT ![t] = l]
At(t, l) == pc[t] = l

Defaults == [enabled |-> FALSE, host |-> Empty, port |-> DEFAULT_PORT,
             resolved_ip |-> None]
NoKeys == [enabled |-> None, host |-> None, port |-> None]
Key(k, v) == IF flash[k] = None THEN v ELSE flash[k]

-----------------------------------------------------------------------------
(* cfg_lock(), load_locked(), cfg_unlock().                                *)

Call(t, o) ==
  /\ At(t, "idle") /\ Goto(t, "init")
  /\ op' = [op EXCEPT ![t] = o]

LockInit(t) ==
  /\ At(t, "init") /\ Goto(t, IF g_cfg_mutex = None THEN "create" ELSE "take")
  /\ UNCHANGED <<cfgVars, lockVars, flashVars, saveVars, op, got>>

\* The variable gets what is made: a new mutex that nobody has, or NULL when there
\* is no memory for one. Nobody looks whether another task was faster.
Replace(t, m) ==
  /\ At(t, "create") /\ g_cfg_mutex' = m
  /\ twice' = (twice \/ g_cfg_mutex # None)
LockCreate(t) ==
  /\ Replace(t, IF g_cfg_mutex = 1 THEN 2 ELSE 1) /\ Goto(t, "take")
  /\ owner' = [owner EXCEPT ![g_cfg_mutex'] = None]
  /\ UNCHANGED <<cfgVars, flashVars, saveVars, op, got>>

\* What follows the call: the page that saves then forgets the address, whatever
\* became of the save.
Return(t) ==
  IF op[t] = "save"
  THEN /\ Goto(t, "init") /\ op' = [op EXCEPT ![t] = "invalidate"]
       /\ form' = NoKeys /\ ok' = TRUE
  ELSE /\ Goto(t, "idle") /\ op' = [op EXCEPT ![t] = "none"]
       /\ UNCHANGED <<form, ok>>

\* Without a mutex cfg_lock() fails, and every caller returns at once: to be off,
\* without an address, or as a save that failed.
LockFails(t) ==
  /\ Replace(t, None) /\ Return(t)
  /\ UNCHANGED <<cfgVars, owner, flashVars, saves, got>>
LockGone(t) ==
  /\ At(t, "take") /\ g_cfg_mutex = None /\ Return(t)
  /\ UNCHANGED <<cfgVars, lockVars, flashVars, saves, got>>

\* Only the saving and the invalidation do not load first.
LockFree(t) ==                          \* mutant: not waited for
  /\ At(t, "take") /\ g_cfg_mutex # None
  /\ owner' = [owner EXCEPT ![g_cfg_mutex] = t]
  /\ Goto(t, IF op[t] \in {"save", "invalidate"} \/ g_loaded THEN op[t]
             ELSE "defaults")
  /\ UNCHANGED <<cfgVars, g_cfg_mutex, twice, flashVars, saveVars, op, got>>
Lock(t) ==
  /\ At(t, "take") /\ g_cfg_mutex # None /\ owner[g_cfg_mutex] = None
  /\ owner' = [owner EXCEPT ![g_cfg_mutex] = t]
  /\ Goto(t, IF op[t] \in {"save", "invalidate"} \/ g_loaded THEN op[t]
             ELSE "defaults")
  /\ UNCHANGED <<cfgVars, g_cfg_mutex, twice, flashVars, saveVars, op, got>>

SetDefaults(t) ==
  /\ At(t, "defaults") /\ Goto(t, "load")
  /\ g_cfg' = Defaults
  /\ UNCHANGED <<g_loaded, lockVars, flashVars, saveVars, op, got>>

\* The first key is read before anything is written.
LoadRead(t) ==
  /\ At(t, "load") /\ Goto(t, "fill")
  /\ got' = [got EXCEPT ![t] = Key("enabled", FALSE)]
  /\ UNCHANGED <<cfgVars, lockVars, flashVars, saveVars, op>>
LoadFill(t) ==
  /\ At(t, "fill") /\ Goto(t, op[t])
  /\ g_cfg' = [g_cfg EXCEPT !.enabled = got[t],
                            !.host = Key("host", @), !.port = Key("port", @)]
  /\ g_loaded' = TRUE
  /\ got' = [got EXCEPT ![t] = None]
  /\ UNCHANGED <<lockVars, flashVars, saveVars, op>>

\* Giving a mutex that somebody else has is an assertion of FreeRTOS, see
\* Panics; giving one that nobody has, or none, does nothing.
Panics(t) ==
  /\ At(t, "unlock") /\ g_cfg_mutex # None /\ owner[g_cfg_mutex] \notin {t, None}
Unlock(t) ==
  /\ At(t, "unlock") /\ ~Panics(t)
  /\ owner' = [m \in Mutexes |-> IF m = g_cfg_mutex THEN None ELSE owner[m]]
  /\ Return(t)
  /\ UNCHANGED <<cfgVars, g_cfg_mutex, twice, flashVars, saves, got>>

Locking(t) ==
  \/ LockInit(t) \/ LockCreate(t) \/ LockFails(t) \/ LockGone(t) \/ Lock(t)
  \/ SetDefaults(t) \/ LoadRead(t) \/ LoadFill(t) \/ Unlock(t)

-----------------------------------------------------------------------------
(* The HTTP server's task.                                                 *)

\* handler_proxy_post(): a port that is missing or out of range is 0, and
\* proxy_gateway_save() takes the default for it.
PostForm ==
  /\ saves < MaxSaves /\ saves' = saves + 1
  /\ Call("httpd", "save")
  /\ \E en \in BOOLEAN, host \in Hosts \cup {Empty}, port \in Ports :
       form' = [enabled |-> en, host |-> host, port |-> port]
  /\ UNCHANGED <<cfgVars, lockVars, flashVars, ok, got>>

\* Refusing to enable it without a host.
Usable(f) == ~f.enabled \/ f.host # Empty
SaveCheckLocked ==                      \* mutant: refused without giving it back
  /\ At("httpd", "save")
  /\ Goto("httpd", IF Usable(form) THEN "enabled_key" ELSE "idle")
  /\ ok' = TRUE
  /\ UNCHANGED <<cfgVars, lockVars, flashVars, form, saves, op, got>>
SaveCheck ==
  /\ At("httpd", "save") /\ Goto("httpd", IF Usable(form) THEN "enabled_key"
                                                          ELSE "unlock")
  /\ ok' = TRUE
  /\ UNCHANGED <<cfgVars, lockVars, flashVars, form, saves, op, got>>

\* storage_set_u8(), storage_set_str(), storage_set_u16(), all three whatever
\* the result of the ones before.
NextKey == [enabled |-> "host_key", host |-> "port_key", port |-> "memory"]
SaveKey(k, l) ==
  /\ At("httpd", l) /\ Goto("httpd", NextKey[k])
  /\ \/ flash' = [flash EXCEPT ![k] = form[k]] /\ UNCHANGED ok
     \/ ok' = FALSE /\ UNCHANGED flash
  /\ torn' = TRUE
  /\ UNCHANGED <<cfgVars, lockVars, form, saves, op, got>>
SaveKeys == SaveKey("enabled", "enabled_key") \/ SaveKey("host", "host_key")
            \/ SaveKey("port", "port_key")

KeepAddress(f) ==                       \* mutant: the address is not forgotten
  [enabled |-> f.enabled, host |-> f.host, port |-> f.port,
   resolved_ip |-> g_cfg.resolved_ip]
WithoutAddress(f) ==
  [enabled |-> f.enabled, host |-> f.host, port |-> f.port, resolved_ip |-> None]
SaveMemory ==
  /\ At("httpd", "memory") /\ Goto("httpd", "unlock")
  /\ IF ok THEN g_cfg' = WithoutAddress(form) /\ g_loaded' = TRUE /\ torn' = FALSE
           ELSE UNCHANGED <<cfgVars, torn>>
  /\ UNCHANGED <<lockVars, flash, saveVars, op, got>>

Invalidate ==
  /\ At("httpd", "invalidate") /\ Goto("httpd", "unlock")
  /\ g_cfg' = IF g_loaded THEN [g_cfg EXCEPT !.resolved_ip = None] ELSE g_cfg
  /\ UNCHANGED <<g_loaded, lockVars, flashVars, saveVars, op, got>>

\* proxy_gateway_get_upstream(): the name is resolved with the mutex held.
AskUpstream ==
  /\ Call("httpd", "upstream")
  /\ UNCHANGED <<cfgVars, lockVars, flashVars, saveVars, got>>
Upstream ==
  /\ At("httpd", "upstream")
  /\ Goto("httpd", IF g_cfg.host # Empty /\ g_cfg.resolved_ip = None
                   THEN "resolve" ELSE "unlock")
  /\ UNCHANGED <<cfgVars, lockVars, flashVars, saveVars, op, got>>
Resolve ==
  /\ At("httpd", "resolve") /\ Goto("httpd", "unlock")
  /\ \/ g_cfg.host # Empty /\ g_cfg' = [g_cfg EXCEPT !.resolved_ip = g_cfg.host]
     \/ UNCHANGED g_cfg
  /\ UNCHANGED <<g_loaded, lockVars, flashVars, saveVars, op, got>>

-----------------------------------------------------------------------------
(* Either task.                                                            *)

\* proxy_gateway_is_enabled() and, for the HTTP task, proxy_gateway_load().
AskEnabled(t) ==
  /\ Call(t, "enabled")
  /\ UNCHANGED <<cfgVars, lockVars, flashVars, saveVars, got>>
Enabled(t) ==
  /\ At(t, "enabled") /\ Goto(t, "unlock")
  /\ UNCHANGED <<cfgVars, lockVars, flashVars, saveVars, op, got>>

\* Power goes, or the assertion restarts the device.
Restart ==
  /\ g_cfg' = Defaults /\ g_loaded' = FALSE
  /\ g_cfg_mutex' = None /\ owner' = [m \in Mutexes |-> None]
  /\ pc' = [t \in Tasks |-> "idle"] /\ op' = [t \in Tasks |-> "none"]
  /\ got' = [t \in Tasks |-> None]
  /\ form' = NoKeys /\ ok' = TRUE /\ twice' = FALSE
  /\ UNCHANGED <<flashVars, saves>>

-----------------------------------------------------------------------------
GatewayInit ==
  /\ g_cfg = Defaults /\ g_loaded = FALSE
  /\ g_cfg_mutex = None /\ owner = [m \in Mutexes |-> None]
  /\ flash = NoKeys /\ torn = FALSE
  /\ pc = [t \in Tasks |-> "idle"] /\ op = [t \in Tasks |-> "none"]
  /\ got = [t \in Tasks |-> None]
  /\ form = NoKeys /\ ok = TRUE /\ saves = 0 /\ twice = FALSE

HttpdStep == SaveCheck \/ SaveKeys \/ SaveMemory \/ Invalidate \/ Upstream
             \/ Resolve

GatewayNext ==
  \/ \E t \in Tasks : Locking(t) \/ AskEnabled(t) \/ Enabled(t)
  \/ PostForm \/ AskUpstream \/ HttpdStep \/ Restart

GatewaySpec == GatewayInit /\ [][GatewayNext]_gatewayVars

\* Both tasks run and resolving a name ends, with an address or without; a task
\* that waits for the mutex gets it in the end (SF).
GatewayFairSpec ==
  /\ GatewaySpec /\ WF_gatewayVars(HttpdStep)
  /\ \A t \in Tasks : WF_gatewayVars(Locking(t) \/ Enabled(t))
                      /\ SF_gatewayVars(Lock(t))

-----------------------------------------------------------------------------
(* Properties.                                                             *)

Configs == [enabled : BOOLEAN, host : Hosts \cup {Empty}, port : Ports,
            resolved_ip : Hosts \cup {None}]
Pcs == {"idle", "init", "create", "take", "defaults", "load", "fill", "save",
        "enabled_key", "host_key", "port_key", "memory", "invalidate",
        "upstream", "resolve", "enabled", "unlock"}

TypeOK ==
  /\ g_cfg \in Configs /\ g_loaded \in BOOLEAN
  /\ g_cfg_mutex \in Mutexes \cup {None}
  /\ owner \in [Mutexes -> Tasks \cup {None}]
  /\ flash.enabled \in BOOLEAN \cup {None}
  /\ flash.host \in Hosts \cup {Empty, None} /\ flash.port \in Ports \cup {None}
  /\ pc \in [Tasks -> Pcs]
  /\ op \in [Tasks -> {"none", "save", "invalidate", "upstream", "enabled"}]
  /\ ok \in BOOLEAN /\ torn \in BOOLEAN /\ twice \in BOOLEAN /\ saves \in Nat

Inside(t) == pc[t] \notin {"idle", "init", "create", "take"}

\* One task at a time is at the configuration, unless both found no mutex and the
\* second replaced the first one's.
OneAtATime == ~twice => ~(Inside("httpd") /\ Inside("dns"))

\* Nobody gives back a mutex that another has: the device does not restart by
\* itself.
NoPanic == ~twice => \A t \in Tasks : ~Panics(t)

\* Memory is what the next start will find, unless a save failed or was cut off
\* half way, and as long as nobody saves.
Reloaded == [enabled |-> Key("enabled", FALSE), host |-> Key("host", Empty),
             port |-> Key("port", DEFAULT_PORT)]
MemoryIsFlash ==
  g_loaded /\ ~torn /\ ~twice =>
    g_cfg = [WithoutAddress(Reloaded) EXCEPT !.resolved_ip = g_cfg.resolved_ip]

\* The address that is cached is that of the host that is configured, whoever
\* resolved it and whatever was saved, refused or half saved since.
AddressOfHost ==
  ~twice => g_cfg.resolved_ip \in {None, g_cfg.host}

\* The DNS task gets its answer, however long names take to resolve.
DnsAnswered == At("dns", "take") ~> ~At("dns", "take")

\* The configuration in order, in parts: types, the mutex made at the first use,
\* and what a restart will find.
Safety ==
  /\ TypeOK /\ OneAtATime /\ NoPanic /\ MemoryIsFlash
=============================================================================
