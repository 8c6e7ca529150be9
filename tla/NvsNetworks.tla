---------------------------- MODULE NvsNetworks ----------------------------
(***************************************************************************)
(* The saved networks of satura-bridge in flash (main/nvs_storage.c over   *)
(* main/storage.c): a count and a blob, two NVS keys that are written one  *)
(* after the other with no lock around them.                               *)
(*                                                                         *)
(* The HTTP task adds and removes networks, the WiFi worker reads the list *)
(* and forgets it; power may go at any step. A step is one call of         *)
(* storage.c, which NVS makes atomic. Every task reads the list the way    *)
(* the worker does.                                                        *)
(***************************************************************************)
EXTENDS Naturals, Sequences, SequencesExt

CONSTANTS
  Names, Secrets,     \* SSIDs of at most 32 bytes, and passwords
  MaxSaved,           \* WIFI_MAX_SAVED_NETWORKS
  None                \* a key that is missing; what is on the stack

VARIABLES
  net_count, net_blob,          \* the two keys
  http,                         \* the HTTP task: "idle", "blob" (count read),
                                \*   "write_count", "write_blob"
  op,                           \* the request it works on
  count,                        \* its local variables: the count it read ...
  list,                         \* ... and the list
  worker,                       \* "idle", "blob", "loaded", "erase"
  wk_count, wk_list,
  overlapped,                   \* history: the HTTP task wrote during its load
  saved,                        \* history: the list the last change was to leave
  since,                        \* history: what disturbed the save under way ...
  lapses,                       \* history: ... or the last change that ended
  torn                          \* history: a save was cut or failed half-way

httpVars == <<http, op, count, list>>
workerVars == <<worker, wk_count, wk_list, overlapped>>
history == <<saved, since, lapses, torn>>
vars == <<net_count, net_blob, httpVars, workerVars, history>>

Networks == [ssid : Names, pass : Secrets]
Junk == [ssid |-> None, pass |-> None]   \* an entry nobody wrote
Entries == Networks \cup {Junk}

ASSUME NvsAssumption ==
  /\ MaxSaved \in Nat \ {0}
  /\ None \notin Names \cup Nat /\ None \notin Seq(Entries)

Ops == [kind : {"add"}, net : Networks] \cup [kind : {"remove"}, index : 1..MaxSaved]

-----------------------------------------------------------------------------
\* What nvs_storage_load_networks() may return for the count it read and the
\* blob it finds: a longer blob is refused, a shorter one leaves the rest of
\* the local buffer as it was on the stack.
LoadStrict(c, b) ==                             \* mutant: a full one refused too
  IF c \in {None, 0} \/ b = None THEN {<<>>}
  ELSE IF Len(b) >= c THEN {<<>>}
  ELSE {b \o rest : rest \in [1..(c - Len(b)) -> Entries]}
LoadResults(c, b) ==
  IF c \in {None, 0} \/ b = None THEN {<<>>}
  ELSE IF Len(b) > c THEN {<<>>}
  ELSE {b \o rest : rest \in [1..(c - Len(b)) -> Entries]}

\* nvs_storage_add_network(): a known SSID is replaced in place.
Known(l, net) == \E i \in DOMAIN l : l[i].ssid = net.ssid
AppendAlways(l, net) == Append(l, net)          \* mutant: no search
Added(l, net) ==
  IF Known(l, net)
  THEN [l EXCEPT ![CHOOSE i \in DOMAIN l :
                     /\ l[i].ssid = net.ssid
                     /\ \A j \in 1..(i - 1) : l[j].ssid # net.ssid] = net]
  ELSE Append(l, net)

Accepted(l, o) ==
  \/ o.kind = "add" /\ (Known(l, o.net) \/ Len(l) < MaxSaved)
  \/ o.kind = "remove" /\ o.index <= Len(l)

Changed(l, o) == IF o.kind = "add" THEN Added(l, o.net) ELSE RemoveAt(l, o.index)

-----------------------------------------------------------------------------
(* The HTTP task: load, change, save.                                      *)

\* The count is read; without one the list is empty and no blob is read.
Request(o) ==
  /\ http = "idle"
  /\ op' = o
  /\ count' = net_count
  /\ list' = <<>>
  /\ http' = IF net_count \in {None, 0} THEN "write_count" ELSE "blob"
  /\ UNCHANGED <<net_count, net_blob, workerVars, history>>

LoadBlob ==
  /\ http = "blob"
  /\ list' \in LoadResults(count, net_blob)
  /\ http' = "write_count"
  /\ UNCHANGED <<net_count, net_blob, op, count, workerVars, history>>

Refused ==
  /\ http = "write_count" /\ ~Accepted(list, op)
  /\ http' = "idle"
  /\ UNCHANGED <<net_count, net_blob, op, count, list, workerVars, history>>

\* A reader half-way through its load sees a write as a change under it.
Overlap == overlapped' = (overlapped \/ worker \in {"blob", "loaded"})

\* nvs_storage_save_networks() goes on with the blob also when the count could
\* not be written.
BlobFirst ==                                    \* mutant: the other order
  /\ http = "write_count" /\ Accepted(list, op)
  /\ list' = Changed(list, op)
  /\ net_blob' = list'
  /\ since' = IF worker = "erase" THEN {"race"} ELSE {}
  /\ http' = "write_blob"
  /\ Overlap
  /\ UNCHANGED <<net_count, op, count, worker, wk_count, wk_list, saved, lapses,
                 torn>>
WriteCount ==
  /\ http = "write_count" /\ Accepted(list, op)
  /\ list' = Changed(list, op)
  /\ \/ /\ net_count' = Len(list')
        /\ since' = IF worker = "erase" THEN {"race"} ELSE {}
        /\ UNCHANGED torn
     \/ /\ since' = {"failed"}
        /\ torn' = TRUE
        /\ UNCHANGED net_count
  /\ http' = "write_blob"
  /\ Overlap
  /\ UNCHANGED <<net_blob, op, count, worker, wk_count, wk_list, saved, lapses>>

WriteBlob ==
  /\ http = "write_blob"
  /\ \/ /\ net_blob' = IF list = <<>> THEN None ELSE list
        /\ lapses' = since
        /\ UNCHANGED torn
     \/ /\ lapses' = since \cup {"failed"}
        /\ torn' = TRUE
        /\ UNCHANGED net_blob
  /\ saved' = list
  /\ http' = "idle"
  /\ Overlap
  /\ UNCHANGED <<net_count, op, count, list, worker, wk_count, wk_list, since>>

-----------------------------------------------------------------------------
(* The WiFi worker: load, and forget all networks.                         *)

WorkerLoadCount ==
  /\ worker = "idle"
  /\ wk_count' = net_count
  /\ wk_list' = <<>>
  /\ overlapped' = (http = "write_blob")
  /\ worker' = IF net_count \in {None, 0} THEN "loaded" ELSE "blob"
  /\ UNCHANGED <<net_count, net_blob, httpVars, history>>

WorkerLoadBlob ==
  /\ worker = "blob"
  /\ wk_list' \in LoadResults(wk_count, net_blob)
  /\ worker' = "loaded"
  /\ UNCHANGED <<net_count, net_blob, httpVars, wk_count, overlapped, history>>

WorkerUses ==
  /\ worker = "loaded"
  /\ worker' = "idle" /\ wk_list' = <<>> /\ wk_count' = None
  /\ overlapped' = FALSE
  /\ UNCHANGED <<net_count, net_blob, httpVars, history>>

\* nvs_storage_clear_networks()
EraseCount ==
  /\ worker = "idle"
  /\ worker' = "erase"
  /\ \/ net_count' = None /\ UNCHANGED lapses
     \/ lapses' = lapses \cup {"failed"} /\ UNCHANGED net_count
  /\ since' = IF http = "write_blob" THEN since \cup {"race"} ELSE since
  /\ UNCHANGED <<net_blob, httpVars, wk_count, wk_list, overlapped, saved, torn>>

EraseBlob ==
  /\ worker = "erase"
  /\ worker' = "idle"
  /\ net_blob' \in {None, net_blob}
  /\ saved' = <<>>
  /\ UNCHANGED <<net_count, httpVars, wk_count, wk_list, overlapped, since, lapses,
                 torn>>

-----------------------------------------------------------------------------
\* Power goes, or the watchdog restarts the device for want of memory: flash
\* stays as it is.
Crash ==
  /\ http' = "idle" /\ worker' = "idle"
  /\ list' = <<>> /\ wk_list' = <<>> /\ count' = None /\ wk_count' = None
  /\ overlapped' = FALSE
  /\ lapses' = IF http = "write_blob" \/ worker = "erase"
               THEN lapses \cup {"crash"} ELSE lapses
  /\ torn' = (torn \/ http = "write_blob")
  /\ UNCHANGED <<net_count, net_blob, op, since, saved>>

Init ==
  /\ net_count = None /\ net_blob = None
  /\ http = "idle" /\ op \in [kind : {"remove"}, index : {1}]
  /\ count = None /\ list = <<>>
  /\ worker = "idle" /\ wk_count = None /\ wk_list = <<>> /\ overlapped = FALSE
  /\ saved = <<>> /\ since = {} /\ lapses = {} /\ torn = FALSE

Next ==
  \/ \E o \in Ops : Request(o)
  \/ LoadBlob \/ Refused \/ WriteCount \/ WriteBlob
  \/ WorkerLoadCount \/ WorkerLoadBlob \/ WorkerUses \/ EraseCount \/ EraseBlob
  \/ Crash

Spec == Init /\ [][Next]_vars

-----------------------------------------------------------------------------
(* Properties.                                                             *)

IsList(l) == l \in Seq(Entries) /\ Len(l) <= MaxSaved

TypeOK ==
  /\ net_count \in {None} \cup 0..MaxSaved
  /\ net_blob = None \/ IsList(net_blob)
  /\ http \in {"idle", "blob", "write_count", "write_blob"}
  /\ op \in Ops
  /\ count \in {None} \cup 0..MaxSaved /\ IsList(list)
  /\ worker \in {"idle", "blob", "loaded", "erase"}
  /\ wk_count \in {None} \cup 0..MaxSaved /\ IsList(wk_list)
  /\ overlapped \in BOOLEAN
  /\ IsList(saved)
  /\ since \in SUBSET {"race", "failed"}
  /\ lapses \in SUBSET {"race", "failed", "crash"} /\ torn \in BOOLEAN

\* With no change under way, and the last one neither cut nor failed nor
\* crossed by another, the two keys agree with each other and with what that
\* change was to leave, whatever happened to the changes before it.
StoredWhole ==
  http # "write_blob" /\ worker # "erase" /\ lapses = {} =>
    IF saved = <<>> THEN net_count \in {None, 0}
    ELSE net_count = Len(saved) /\ net_blob = saved

\* A request that crosses a forget may bring a list back, but only a save that
\* was cut or failed can leave entries nobody entered, or one network twice.
BlobClean ==
  ~torn /\ net_blob # None =>
    \A i, j \in DOMAIN net_blob :
      /\ net_blob[i] # Junk
      /\ i # j => net_blob[i].ssid # net_blob[j].ssid

\* A load that no write fell into finds the saved list.
LoadFindsSaved ==
  worker = "loaded" /\ ~overlapped /\ lapses = {} => wk_list = saved

\* Networks a cut change was not about.
Untouched ==
  LET Of(l) == {l[i] : i \in DOMAIN l}
  IN  IF http = "write_blob" THEN Of(saved) \cap Of(list) ELSE Of(saved)
Undisturbed ==
  lapses = {} /\ worker # "erase" /\ (http = "write_blob" => since = {})
StillLoaded ==
  \A l \in LoadResults(net_count, net_blob) :
    \A n \in Untouched : \E i \in DOMAIN l : l[i] = n

\* A power cut in an add keeps every other network, whether the add is of a
\* new network or replaces a password.
AddSurvivesCrash ==
  [][Crash /\ Undisturbed
     /\ ~(http = "write_blob" /\ op.kind = "remove") => StillLoaded]_vars
=============================================================================
