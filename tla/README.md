# TLA+ models of satura-bridge

satura-bridge is ESP32 firmware that joins a Bluetooth PAN (a phone, a tablet)
to a WiFi network: BTstack terminates the Bluetooth link, lwIP routes and
translates addresses, a small HTTP server configures it. This directory holds
TLA+ models of its concurrent and persistent parts, the TLC configurations that
check them, and proofs checked by TLAPS.

    tlc -workers 2 -config Wifi.cfg MCWifiManager
    tlapm WifiManagerProofs.tla

Section 3 names the configuration and the module of every run.

## 1. The system

### Tasks

| task | priority | runs |
|---|---|---|
| BTstack main thread | app_main | HCI and BNEP handlers of `bt_pan.c`, the DHCP server, callbacks posted with `btstack_run_loop_execute_on_main_thread` |
| `wifi_worker` | 5 | the WiFi state machine (`wifi_manager.c`) |
| `esp_event` | system | `wifi_event_handler()`: driver events to queue entries |
| `httpd` | 5 | every handler of `http_routes.c`, `clipboard.c`, `proxy_relay.c`, one request at a time |
| `dns` | 6 | the DNS forwarder (`dns_server.c`) |
| `wdt` | 2 | the watchdog (`watchdog.c`) |
| `tcpip` | lwIP | the NAT callback of `nat_bridge.c` |
| `wist` | 5 | one-shot: the pause between a Bluetooth connect and a WiFi connect |
| `esp_timer` | system | the one-shot timer that makes the device visible again |

### Components

| component | state | operations | hard behaviour | what makes it correct |
|---|---|---|---|---|
| WiFi manager | FSM state, scan results, candidate list and index, retry delay and wait, queue of 8, scan flag | CONNECT, SCAN, FORGET, RECOVERY requests; DISCONNECTED, GOT_IP events; timeout; blocking scan; soft reset | events pile up or are dropped while it scans; stale events of an earlier link; a timeout that is armed for another state | it always comes back to a connection or to a timer that will retry; what it publishes is what it believes; what it believes is what the driver has |
| application state | a state shown by the web pages, link flags, RSSI | get/set under a critical section, publication on the event bus | several tasks read, decide, then write | flags and page agree with the links |
| Bluetooth PAN | connection handle, visibility, reopen timer guard | channel opened/closed, disconnection, reopen timer | a second client, a disconnect before BNEP opens, two threads that ask to reopen | visible whenever nobody is connected; one client |
| NAT bridge, link registry, event bus | NAT flag of the downlink interface | re-evaluation posted to the tcpip thread | asynchronous re-evaluation of flags that move on | NAT is on exactly while both links are up, once callbacks have run |
| NVS network list | a blob of up to 6 networks and a count | load, add, remove, clear | two keys written one after the other, two writers | a restart finds a list that somebody saved |
| DNS server | socket, restart flag, cache, activity time | start, forward, cached answer, watchdog restart | a restart that races the old task; a socket that cannot be bound; replies that come late; a clock that wraps | one task, restarted when it hangs; each question gets its own answer |
| clipboard | ring of 15 clips, 8 favourites, the next number, a mutex | add, pin, unpin, delete, list, load | boundaries, saves that fail, links on old pages | a pinned clip is never lost to the ring; a link never acts on another clip |
| proxy gateway | host, port, enabled, resolved address | load, save, resolve, invalidate | a mutex held across a slow resolution, lazy mutex creation | a resolved address belongs to the current host |
| proxy relay | two sockets, two buffers, remaining length | request, head, body, timeout | receives cut anywhere, half-closed peers, lengths | the body arrives in order and whole; the relay ends and leaves nothing open |
| HCI transport | ring buffer of received packets, two callback registrations | store, deliver, send, open, close | the length check against the tag's size | packets come out whole and in order |
| watchdog | stuck counter | heartbeat every 30 s | acts on a state read a little earlier | a stuck bridge is recovered |
| HTTP server, pages, codecs | none of their own | handlers | pages show state that moves on | - |
| device name, storage, uptime, battery, boards | NVS strings, board registers | get/set | - | - |

Interactions: BTstack thread -> `set_bt_connected` -> event bus -> WiFi manager
(`on_bt_event`) -> settle task -> worker queue; worker -> `set_wifi_connected`,
event bus -> NAT bridge -> tcpip thread; HTTP -> NVS, application state, worker
queue; watchdog -> worker queue and DNS server; DNS task -> proxy gateway (is it
on?) at every query; HTTP -> proxy gateway -> proxy relay.

## 2. Modules

| module | models | granularity of a step |
|---|---|---|
| `WifiManager` | `wifi_manager.c`: worker, queue, driver events, settle task; the HTTP requests, Bluetooth events and watchdog heartbeats that feed it | one queue entry handled to the end; the blocking scan is a step of its own |
| `WifiScan` | the scan, the list of results and the candidates of `wifi_manager.c`, with the pages of `http_routes.c` that read them | one record, one saved network, one place of the sort; one access of a list entry or flag |
| `BtPan` | `bt_pan.c`: HCI and BNEP handlers, reopen timer, signal-strength polls | one handler or callback |
| `Presence` | abstract: what a phone that looks for the bridge is promised | visible, serving, pausing |
| `Bridge` | `app_state.c`, `event_bus.c`, `link_registry.c`, `nat_bridge.c` and the handlers of `bt_pan.c` and `wifi_manager.c` that touch the shared state | one critical section, one post to the tcpip thread, one lwIP call |
| `NvsNetworks` | `nvs_storage.c` over `storage.c`, used by the HTTP task and the worker | one call of `storage.c` |
| `DnsServer` | the task and the watchdog tick of `dns_server.c` | from one access of shared state to the next |
| `DnsCache` | what the task of `dns_server.c` answers: cache, forwarding, the bridge's own replies | one access of the cache or of a socket |
| `HciTransport` | `hci_transport_esp32_vhci.c` between the controller's task and the main thread | one critical section, one callback |
| `PacketChannel` | abstract: packets go in, come out whole and in order | accept, take, done |
| `Clipboard` | `clipboard.c` and its handlers | one handler: the HTTP task is the only one that calls them |
| `ProxyGateway` | `proxy_gateway.c`, used by the HTTP and the DNS task | one access of the mutex, the configuration, or a key of flash |
| `ProxyRelay` | `proxy_relay.c`, the routing of `http_routes.c` and the host check of `http_utils.c` that lead to it | one receive and the send of what it brought; one header line |

`MC*` modules instantiate them for TLC, `*Proofs` modules hold the theorems:
`StorageProofs` those of `NvsNetworks` and `Clipboard`, `ProxyProofs` those of
`ProxyGateway` and `ProxyRelay`, `SharedStateProofs` those of `Bridge` and
`WifiScan`, the others those of the module they are named after. Where two modules
share a proof module their names differ (`ClipInit`, `RelayInit`, `ScanInit`).
Operators marked `mutant` are plausible bugs of the operator that follows them;
no behaviour of the models uses them. They show that each property can fail.

### WifiManager

`fsm_state`, `next_wait_ms`, `retry_delay_ms`, `retry_reason` and the three
`candidate_*` variables are the worker's own (`wifi_manager.c:61-92`), `queue`
is `wifi_evt_queue`. `pc` tells whether the worker is in a scan it was asked for
or in the scan that starts a connect cycle: the scan blocks it for seconds while
the queue fills and credentials change. `drv` and `evloop` stand for the driver
(external): idle, joining, associated with an access point that has given no
address yet, up, and the events it has raised that `wifi_event_handler()` has not
yet turned into entries. The code has no handler for a station that is associated
(`WIFI_EVENT_STA_CONNECTED`), so the worker hears of a join that worked only with
the address, if one comes. `On...` actions are the
`case` labels of `handle_event()` for one event, over all states; `Timeout` is
`handle_timeout()`. `lapses` is history: it records the four things the code has
no answer to (an event dropped on a full queue, a refused connect, a soft reset
of a link reported up, a soft reset that revives an old candidate list), so that
a property can say "unless one of these happened" and still bite everywhere else.
Networks are counted, not named: their names and strengths are in `WifiScan`.

### BtPan and Presence

A phone is its connection handle. `link[c]` is what the controller and BNEP have
of a phone; `armed` and `timers` count one-shot timers, `reopen_queued` and
`rssi_queued` are the two callback registrations in BTstack's run-loop list.
`MaxTimers` is how many timer objects the heap has room for: none is ever
deleted. `status` maps the state to `Presence`.

### Bridge

`bt_pc` and `wk_pc` are positions in the handlers of the BTstack thread and of
the worker, `bt_saw_wifi`, `wk_saw_bt` and `seen_up` their local variables. The
event bus calls its subscribers on the publisher's thread, so publication is not
a step of its own. `WorkerElsewhere` and `Http` are what the two tasks write at
moments this module does not follow in detail (`WifiManager` does). A post to the
tcpip thread waits while its mailbox is full and fails when there is no memory;
`lost` records a failure. `overtaken` is history too: the thread that wrote BRIDGE
or WAIT_BT last had looked at the other's link before it changed. A soft reset out
of CONNECTED leaves `wifi_connected` set (`wifi_manager.c:605`), so GOT_IP and the
pages of a cycle are possible with the flag up.

### NvsNetworks

`net_count` and `net_blob` are the two keys; NVS makes each write atomic, nothing
makes the pair so. The HTTP task's request is load count, load blob, write count,
write blob (or erase it); the worker's is load count, load blob, and the two
erasures of a forget. A write may fail. `Crash` is a power cut or the reboot of
`http_routes.c:690`, at any step. `LoadResults` keeps what `nvs_get_blob()` does
with a buffer of another size: too small is an error (the load finds nothing), too
large leaves the rest of the stack buffer as it was (`Junk`, or any network).
`saved`, `since`, `lapses`, `torn` and `overlapped` are history: what the last
change was to leave, and whether it or the change under way was cut, failed or
crossed another task's.

### DnsServer

`pc[t]` is where a task stands in `dns_server_task()`; tasks share the two socket
variables, the flag and the handle, as in the code. `open` and `bound` are lwIP's.
`creator` is the thread that creates tasks: `dns_server_start()`, later the
watchdog. `alive` is `dns_last_alive_ms` as the watchdog's subtraction sees it:
"ahead" is a task that wrote it after the watchdog read the clock
(`watchdog.c:92`), whose unsigned difference is huge. A call in the loop may hang
and come back at any time or never; a hang is what the watchdog is for. What is
answered to a query is in `DnsCache`.

### WifiScan

`WifiManager` counts networks; here they have a name and a strength. The worker
writes `scan_results`, its count and both candidate arrays with no lock while the
HTTP task copies them or reads index and count one after the other
(`wifi_manager.c:154`, `211`), so each entry is a step. `pc` is the worker's
position: `fill` goes through the driver's records; `collect` is the first loop of
`build_candidate_list()` and `sort` the second, with `saved` the networks it loaded
and `loop_i` the index of either loop. A turn of the insertion sort (`SortOne`) is
one step: nobody else reads the candidates themselves. `queue` counts scan requests
only; the other events fill the queue as they like, so a request can be dropped at any
time. `cycle` says whether the scan
is one of a connect cycle, `httpd`, `page` and `n` are the reading handler and what
it has read. `fsm` keeps of the state machine only whether it takes a scan
request. `seen` is history: what the driver reported. `lapses` records a request dropped on a full queue, a request ignored by a
busy worker, and a list rewritten from under a page.

### DnsCache

`dns_cache` and `dns_cache_next` are the code's; `age` is the unsigned difference
of `dns_server.c:64`, modulo `Wrap` (2^32 ms in the code), and `since`, as
history, the true time since the entry was stored. A query is a question and an
id; `asked` is what upstream has been sent and not answered, `arrived` what waits
in the task's socket. Exactly one datagram is received for each query sent
(`:154`), so a reply that was given up is found by the next query. `clearing` is
the watchdog's position when it empties the cache (`:322`) beside a task that came
back late. `lapses` records a clearing that overlaps a use of the cache, an id
used again while its first query is unanswered, a late reply, and a wrapped age.

### HciTransport and PacketChannel

`ring` is the byte ring, `receive_due` and `sent_due` the two registrations in the
run loop, which hold one request each however often it is made. The controller's
task stores length and packet in one critical section; the room is compared with
the packet's length alone (`hci_transport_esp32_vhci.c:145`), so a length may get
in whose packet does not: `torn` says so until the ring is empty again. `Close`
leaves the ring to the next `Open`, which resets it. The refinement maps `stored`, the
packets in the ring, to what the channel holds and `torn` to its `broken`.

### Clipboard

`g_store` is the structure in memory, `flash` the blob. Every operation runs whole
in the single HTTP task. Saves may fail and nobody looks (`clipboard.c:38`);
`Reboot` loads what is there, or starts afresh when it cannot be read; a blob of
another build's size is left out (section 6). `link` is one link on any page shown so far: its
number and the text the user saw beside it. `unsaved` and `lost` are history.

### ProxyGateway

`g_cfg`, `g_loaded` and `g_cfg_mutex` are the variables of `proxy_gateway.c`; `pc`
and `op` place each task in `cfg_lock()`, `load_locked()` and the call it makes.
The mutex is created at the first use without a lock (`:27`), so two tasks may
each make one, and one that cannot be had replaces the other task's by NULL: `twice`.
Without a mutex `cfg_lock()` fails and its caller returns at once (`LockFails`,
`LockGone`), the page that saves going on to the invalidation. The three keys are written one after the other (`:100`);
each write may fail and a restart may fall between any two: `torn`. The address of
a host is named by the host. Resolution happens with the mutex held (`:195`).

### ProxyRelay

`stage` is the position in `handler_proxy_relay()` and `relay_bytes_httpd()`.
`response` is what upstream will say as a sequence of bytes and `upstream` what of
it is still to be received: a receive brings any non-empty part that fits. `post`
is the phone's body, `remaining` what of it is still to come, `to_upstream` what was
sent behind the head of the request. A send, to either side, may take less than it is
given (`Send`), a peer may fall silent or go, an allocation may fail; `lapses` records
which of these happened to the current request. The text
of a header line is one byte that says which kind of line it is; line ends are the
two bytes they are. `line_start` walks the head line by line (`ForwardLine`), and
`out` is what is put together for the phone, with `len` as `out_len`: what
`snprintf()` would have written, not what it wrote (`:139`). Where the end of the head
does not fit, `Overread` is what `send()` is given beside the text: the 0 at the end
of the buffer and the bytes behind it. `IsAnswer` says what upstream sends: a status
line, header lines, a blank line, a body; every line ends in CR LF, and a length is
announced exactly by a Content-Length line. It is what the code takes for granted of a
gateway, and the runs' seven answers satisfy it (TLC evaluates `RelayAssumption`). An
answer without a length may be `endless`: after its bytes upstream sends one more, and
one more again (`UpstreamGoesOn`), whenever the relay has taken the last; what the
phone gets of these is not kept.

## 3. Runs

| run | configuration, module | instance | shows | distinct states |
|---|---|---|---|---|
| `wifi` | `Wifi.cfg`, `MCWifiManager` | queue of 2, 2 networks, 2 attempts, 1 request, 2 bounces, 1 drop, 1 recovery | *Safety*, *BackoffNeverCompounds*, *ConnectedIsBacked*, *LostLinkRetried*, *ConnectAnswered* | 643 thousand |
| `wifi_scan` | `WifiScan.cfg`, `MCWifiScan` | 2 names, 2 strengths, 2 results, 2 saved networks, 1 request waiting | *ScanSafety*, *ListsRight*, *ScanShownEnds* | 1.61 million |
| `btpan` | `BtPan.cfg`, `MCBtPan` | 3 phones, 3 timers | *Safety*, *OpenChannelServed*, *VisibleOrReopening*, *ImplementsPresence*, *VisibleAgain* | 32 thousand |
| `bridge` | `Bridge.cfg`, `MCBridge` | mailbox of 2 | *NatAgrees*, *PageTrue*, *NatFollows* | 330 thousand |
| `nvs` | `Nvs.cfg`, `MCNvsNetworks` | 3 names, 2 passwords, 2 networks at most | *StoredWhole*, *BlobClean*, *LoadFindsSaved*, *AddSurvivesCrash* | 837 thousand (up to symmetry) |
| `dns` | `Dns.cfg`, `MCDnsServer` | 2 tasks, 3 sockets | *Safety*, *OneServer*, *OnlyHungIsEnded*, *KeepsServing* | 92 thousand |
| `dns_cache` | `DnsCache.cfg`, `MCDnsCache` | 2 questions of the same hash, 2 ids, 2 slots, lifetime 1, clock modulo 3, 2 packets under way | *RightAnswer*, *CacheTruth*, *FreshAnswers* | 3.7 million |
| `hci` | `Hci.cfg`, `MCHciTransport` | ring of 13 bytes, packets of 3 and 4 | *Safety*, *SentIsReported*, *ImplementsChannel* | 26 thousand |
| `clipboard` | `Clipboard.cfg`, `MCClipboard` | ring of 2, 2 favourites, 2 texts, numbers to 4 | *ClipSafety*, *LinksHold*, *ClipsKept* | 1.25 million (up to symmetry) |
| `gateway` | `Gateway.cfg`, `MCProxyGateway` | 2 hosts, 1 port, 2 saves | *Safety*, *AddressOfHost*, *DnsAnswered* | 369 thousand |
| `relay` | `Relay.cfg`, `MCProxyRelay` | head buffer of 16, receives of 2, seven answers, request bodies of 0 and 3 bytes | *RelaySafety*, *BodyRight*, *NoWaitPastLength*, *RelayEnds* | 51 thousand |
| `relay_post_body` | `Relay_PostBody.cfg`, `MCProxyRelay` | the same | violated: *PostBodyArrives* (section 6) | - |

Each property of the passing runs is paired in `PROJECT.json` with a mutant that
makes TLC report it. *Safety* of a module (*ClipSafety*, *RelaySafety*,
*ScanSafety*) is the conjunction of its type invariant with named parts:

| module | parts of *Safety* besides the type invariant |
|---|---|
| `WifiManager` | *UplinkFlag*, *ScanFromRest*, *CandidateInRange*, *LostLinkArmed*, *OneSettleTask*, *NoFailurePageWhileConnected* |
| `WifiScan` | *FlagMeansScan*, *OneScanShown*, *ProgressInRange* |
| `BtPan` | *ServesOpenChannel*, *OneReopening*, *HiddenWhileServing*, *RssiIsCurrent* |
| `DnsServer` | *NoSocketLost*, *ServerIsWatched* |
| `HciTransport` | *NoLostWakeup*, *NoSentLost* |
| `Clipboard` | *OneNumberEach*, *MemoryIsSaved* |
| `ProxyGateway` | *OneAtATime*, *NoPanic*, *MemoryIsFlash* |
| `ProxyRelay` | *NothingLeaks*, *PostInOrder*, *EndIsSeen*, *HeadTold* |

*ListsRight* is *ResultsRight* and *CandidatesInOrder*, *ClipsKept* is
*FavouritesKept* and *OnlyOldestEvicted*, *BodyRight* is *BodyInOrder* and
*BodyWhole*.

### Why these bounds

- `wifi`: a queue of two is full as soon as one entry waits behind another, which
  is when entries are lost; eight would only delay it. Two networks and two
  attempts reach "another attempt", "another candidate" and "no more".
  `MaxRequests`, `MaxBounces`, `MaxDrops` and `MaxRecoveries` bound the
  environment, not the code: two bounces find a settle task in flight; a request, a
  drop followed by a recovery, and events of the old link need one each.
- `wifi_scan`: two names with two strengths reach ties, a stronger second record of
  the same name, and a full list; two saved networks reach the swap of the sort.
  One waiting request is a full queue.
- `btpan`: one phone served, one sent away, one that comes in by mistake. Three
  timers reach both a reuse and the lack of one.
- `bridge`: a mailbox of two can be empty, hold a re-evaluation, and be full.
- `nvs`: two networks at most and three names reach the full list, replacement at
  both places, removal of the first and the last.
- `dns`: a task and its replacement; a third could be created only after a second
  pause. Three sockets are one short of what two tasks want.
- `dns_cache`: two slots reach the reuse of the older one; questions of the same
  hash need the comparison of names; two ids reach the reuse of one. A clock modulo
  3 with a lifetime of 1 has one value that is too old before it wraps.
- `hci`: 13 bytes hold one packet of each length and leave two: room for another
  length but not for its packet, and a packet's length fits where length and packet
  do not.
- `clipboard`: rings of two reach the first, the last and the full ring; four
  numbers allow a clip to be pinned, unpinned under a new number, and evicted.
- `gateway`: two hosts tell a stale address from a current one; two saves reach a
  torn save over a whole one.
- `relay`: the answers have a length and none, hop-by-hop headers, a body in chunks, a
  blank line in the body, a reason too long to keep, a head too long for the buffer,
  heads that leave no room for their end, and no end at all. A head buffer of 16 holds
  a head of four lines, of which the end no longer fits. Receives of up to two bytes
  cut the four-byte end of the head at every place.

`CHECK_DEADLOCK FALSE` stands in `Wifi.cfg` only: once the bounds on its
environment are used up, nothing needs to happen any more.

### Fairness

- `WifiManager`: the worker, the event task, the settle task and the watchdog are
  FreeRTOS tasks that block only on what the model shows, so each gets to run (weak
  fairness). `DriverAnswer` assumes that a join the driver *accepted* ends, with an
  access point or with a failure (the driver has timeouts of its own for the scan,
  authentication and association). Nothing is assumed of phones, users or access
  points: `DriverLease`, the address, need never come.
- `WifiScan`: the worker runs, and a handler that turned the flag on goes on to
  post its request. Nobody need ask for anything.
- `BtPan`: timers fire and the run loop serves its callback list.
- `Bridge`: a handler that was entered is finished, the tcpip thread serves its
  mailbox.
- `DnsServer`: tasks and watchdog run; a call that hangs need not come back.
  `TimePasses` is strongly fair because heartbeats interrupt it: a task that hangs
  at heartbeat after heartbeat is late in the end.
- `HciTransport`: both tasks run. The run loop goes through its list in order, so
  neither callback keeps the other from its turn (strong fairness). Packets, sends
  and closes need not happen.
- `ProxyGateway`: both tasks run, and resolving a name ends with an address or
  without one (lwIP gives up). Whether there is memory for a mutex is left open. A FreeRTOS mutex goes to the task that waits for it,
  hence strong fairness of `Lock`.
- `ProxyRelay`: every receive and send of the handler ends, since both sockets have
  timeouts. Upstream may send its next byte before each of them ends.
- `Clipboard`, `DnsCache` and `NvsNetworks` state safety only.

## 4. What the properties say

- *UplinkFlag*, *LostLinkArmed*, *CandidateInRange*, *BackoffNeverCompounds*,
  *ConnectedIsBacked* are about events that arrive late, twice or never: what the
  worker believes is backed by the driver or by an event that will correct it; the
  list is never indexed out of range; a lost link has its timer armed.
- *ConnectAnswered*: a worker that stays in CONNECTING has a station that stays
  associated, waiting for an address, unless an event was dropped or a connect
  refused: it never waits for an answer that was given, and no other wait is endless.
- *OneSettleTask* and *OneReopening* are the two guards against a bouncing link.
- *FlagMeansScan* and *ScanShownEnds* are about a flag that the requester sets and
  that either the requester or the worker clears; *OneScanShown* and
  *ProgressInRange* about pages that read without a lock. *ListsRight* compares the
  deduplication and the hand-written sort with what they are for.
- *ServesOpenChannel*, *OpenChannelServed*, *RssiIsCurrent* keep the events of one
  phone from being taken for another's. *OpenChannelServed* holds only until a
  second phone has been sent away: see section 6 on `bt_pan.c:272`.
- *NatAgrees* is the argument for re-evaluating NAT on every change instead of
  setting it: whatever the tcpip thread has read, a fresher evaluation follows.
- *PageTrue* is what two threads that each write their flag, look at the other's and
  then write the page achieve without a lock over the three: BRIDGE is shown only over
  two links, and WAIT_BT never over two, once the handlers under way have written.
  It takes a flag that changes between look and page to get it wrong (section 6), and
  even that never leaves BRIDGE over no link at all.
- *StoredWhole* holds after a change that nothing disturbed, *whatever happened
  before it*: saving repairs. *BlobClean* and *AddSurvivesCrash* bound the damage of
  races and of power cuts.
- *OneServer*, *NoSocketLost*, *ServerIsWatched* hold as long as a task that is
  told to end does so within the pause of 1.5 s. *OnlyHungIsEnded* tolerates one
  wrapped reading of the clock.
- *RightAnswer* and *CacheTruth* say that late replies, hash collisions and a
  watchdog that clears the cache never give one question another's answer;
  *FreshAnswers* that an entry is not used past its lifetime. Each names the lapse
  that excuses it.
- *ImplementsChannel*: the stack gets the packets the ring took in, whole and in
  order; a length without its packet spoils no more than what comes in until the
  ring is empty. *NoLostWakeup* and *NoSentLost* are about requests that are made
  twice and served once.
- *LinksHold*: no number is ever given twice, so a link on an old page is to the
  clip it showed or to none. *ClipsKept*: a clip goes only by its own link, or as
  the oldest of a full ring.
- *AddressOfHost* and *MemoryIsFlash* relate the cached configuration to the host it
  belongs to and to the keys a restart will read. *DnsAnswered* says that the DNS
  task gets the mutex back, however long a resolution takes.
- *BodyRight*, *HeadTold*, *EndIsSeen*, *PostInOrder* hold wherever the receives cut
  the answer and the phone's body. *BodyRight* says nothing of an answer whose head
  leaves no room for its end, and does not call a body in chunks right.
  *NoWaitPastLength* and *RelayEnds* keep the only HTTP task from being held;
  *RelayEnds* leaves one way, an upstream that goes on for ever.
- *OneAtATime*, *NoPanic*, *MemoryIsFlash* and *AddressOfHost* hold until a task
  replaced the other's mutex.

## 5. Proofs

`tlapm <module>` proves all of them; the constants are arbitrary, assumed only to
satisfy the `ASSUME` of each module (capacities positive, `None` no member).

- `WifiManagerProofs`: types and queue capacity, then an invariant that conjoins
  *UplinkFlag*, *ScanFromRest*, *CandidateInRange*, *LostLinkArmed*,
  *BackoffNeverCompounds*, *OneSettleTask* and *NoFailurePageWhileConnected*. They
  lean on one another: the delay armed after a lost link is not zero because every
  way into CONNECTED resets it; the flag is exact because no cycle starts over a
  working link. *ConnectedIsBacked* rests on an invariant of its own, `Backed`:
  while the station is idle every GOT_IP still on its way, in the queue or in the
  event loop, has a DISCONNECTED behind it; it starts afresh with each cycle, which
  joins or is refused.
- `BtPanProofs`: `IInv` weakens the bound on `armed` in the types to a natural
  number; *OneReopening* gives the bound back. From *ServesOpenChannel* the branch
  at `bt_pan.c:194` is never taken, which is why letting a phone go is always the
  same step. `PresenceCorrect` maps every step to a step of `Presence` or a stutter.
- `SharedStateProofs`, first half: *NatAgrees* and *PageTrue* are inductive together
  with the types and *OwnLink* (each thread's link is up between its flag and its
  page): a page that is true stays so because whoever takes a link down has yet to
  write, and whoever brings one up looks at the other afterwards.
- `SharedStateProofs`, second half: `ScanInv` for `WifiScan`. *FlagMeansScan* is
  inductive. A page that copies has copied the list as it still is, and the worker is
  not writing it, unless a lapse says otherwise (`PageCopies`), which gives
  *OneScanShown*. Of the records gone through each name is in the list once, as strong
  as it was heard (`ListFilled`), which is *ResultsRight* at the end. For
  *CandidatesInOrder* the two loops have an invariant each: after i saved networks the
  candidates are those of the first i, in the order they were saved
  (`CandidatesCollected`); in the sort the first i - 1 are in rank order and every
  later one was saved after all before it (`CandidatesSorted`), which is why the sort
  is stable. `PlaceFound`, `MovedKeeps` and `SortedOneMore` are the lemmas about one
  turn of the sort. The number of networks, the lengths of the lists and the number of
  steps between two reads of a page are arbitrary.
- `StorageProofs`, first half: *StoredWhole* speaks only of quiet moments, so the invariant
  adds what holds between the two writes (`SavePending`: the count on flash is that
  of the list in memory), between the erasures (`ErasePending`) and between a
  reader's two reads (`LoadPending`: a load that was not overlapped has read the
  count of the saved list). *BlobClean* follows from `Neat` (unless a save was torn,
  a count the HTTP task reads is that of the blob it finds, or there is no blob), and
  *AddSurvivesCrash* from `Follows` (an undisturbed add works on the saved list, so
  the new count is never below that of the old blob).
- `StorageProofs`, second half: what each operation of `clipboard.c` does to a store
  that is within its limits and numbered in order (`WithinLimits`, `Numbered`), one
  lemma per operation, for rings of any size. `LinkGiven` (a link that was shown has a
  number below the next) gives *LinksHold*; *ClipsKept*, an action property, is what
  the lemmas say of the clips an operation may drop.
- `DnsServerProofs`: `Turns` says who may create whom, `Sockets` what a task still
  has open at each position; both hold as long as no task outlived the pause.
  `Late` needs no such condition: between two heartbeats the flag is the held
  task's, and a task that comes back from a hang refreshes the time before it waits
  again, from which *OnlyHungIsEnded* follows as an action property.
- `DnsCacheProofs`: as long as nothing unsound happened, replies under way are to
  queries sent (`Flight`), what the task holds is for its query (`Answer`, `Found`),
  a half-stored entry is the task's (`Half`), whole entries are true and unique
  (`Truth`), and a question that is about to be stored has no entry (`Gone`).
  `Dated` ties the 32-bit age to the time since storing, for *FreshAnswers*;
  `OneAsked` (at most one query under way before the first late reply) gives
  *NoMismatchUnlessLate*, which is proved and in no run.
- `ProxyProofs`, first half: unless a task replaced the other's mutex, who is inside holds the
  one there is (`Held`), and whoever is past the making finds one (`Made`); what a loading task has read is the key's value (`Loading`),
  what a save has written is the form's (`Written`), memory agrees with flash
  (`Agree`), and the address is the host's (`Resolved`).
- `ProxyProofs`, second half: `RelayInv` for `ProxyRelay`, for buffers, answers and
  receives of any size. `HeadIsFirst` (what is in the buffer and what is still to come
  are the answer, cut somewhere) and `SearchRight` (a head without its end seen has no
  end in it) give *EndIsSeen*: looking again from three bytes before the new part
  misses nothing. `LinesDone` follows the walk over the header lines, whose positions
  are those of `IsAnswer`, and gives *HeadTold* with `LengthTold`. `BodySoFar` (what
  was passed on and what is still to come are the body, and `body_relayed` counts the
  former) gives *BodyRight* and *NoWaitPastLength*; `PostSoFar` says the same of the
  phone's body and gives *PostInOrder*. `Advances`, in no run, is the part of
  *RelayEnds* that is not liveness: no step leads back to an earlier stage, and a turn
  of one of the four loops leaves less in it, a natural number (`Left`).
- `HciTransportProofs`: *ImplementsChannel* needs to know that the bytes of the ring
  are those of the packets in it. `Framing` says so with a sequence of offsets, one
  per packet, at which its length and its bytes stand; storing appends an offset,
  delivering removes the first and shifts the others. The refinement then maps every
  step to a step of `PacketChannel` or a stutter, for any ring size and any packets.

The type invariants of `Bridge`, `NvsNetworks` and `DnsCache` are proved and in no
run.

Model-checked only:

- every liveness property (*LostLinkRetried*, *ConnectAnswered*, *VisibleAgain*,
  *NatFollows*, *KeepsServing*, *SentIsReported*, *DnsAnswered*, *ScanShownEnds*,
  *RelayEnds*): liveness under fairness is out of the prover's reach;
- *PostBodyArrives*, which the code does not satisfy (section 6).

Every other property of the runs is a theorem. The hand-written loops over lists and
bytes (the sort of the candidates, the walk over the header lines, the search for the
blank line) are state machines in the models, one action per turn, so that what they
compute follows from an invariant. Two things in the proofs have the form of an
induction: that a nonempty set of numbers has a least element, which the library's
`NatLessThanWellFounded` gives, and with it the first clip of a number, the first
blank line and the place of a candidate. What a fold or a recursive operator computes
for every input could not be proved, and no module uses one.

The assumptions on constants are the `ASSUME`s of the modules and no more: capacities
and bounds are natural numbers, positive where the code's arrays are;
`Rssis \subseteq (-126)..0` because the code gives a hidden network -127 to sort it
last (`wifi_manager.c:384`), `HEAD_BUF_SIZE > 3` because the first line must fit, and
`IsAnswer` (section 2).

## 6. Findings

- `relay_post_body` (`proxy_relay.c:272`): the last send of the request's head is
  given 22 bytes of a string of 21, so the 0 that ends the string follows the head.
  Upstream takes it for the first byte of the body and never gets the last one.
  README.md:417 says "The proxy supports HTTP requests including POST bodies."

Met while modelling, visible in the models as a lapse, an exception of a property or
a branch of an action, and without a run of their own:

WiFi manager

- `wifi_manager.c:447`: a connect cycle that finds no candidate logs "will retry in
  %d s" and arms no timer; only a request or an event goes on from there.
- `wifi_manager.c:605`: a recovery out of CONNECTED replaces the link and reports
  nothing, so the flag and NAT go on describing the old one. *UplinkFlag* excepts it.
- `wifi_manager.c:629`: a recovery out of RETRY_WAIT resumes CONNECTING with an old
  index, which can grow past the list. *CandidateInRange* excepts it.
- `wifi_manager.c:482`: `handle_timeout()` leaves the wait armed when a cycle starts,
  so a timeout does happen in CONNECTING, although the comment says none should.
- `wifi_manager.c:240`: `scan_in_progress` stays set when the worker ignores a scan
  request (CONNECTING, RETRY_WAIT); the page then refreshes for ever. A request that
  finds the queue full while a scan runs turns the flag off under it.
- A scan that fails leaves the results of the one before, and the candidates are
  chosen from them.
- `wifi_manager.c:473`: deleting the last network during a retry wait leaves the
  page at "Reconnecting".
- `wifi_manager.c:563`: credentials that change while CONNECTING restart nothing
  (CHANGELOG.md:53 says they do).
- `wifi_manager.c:513-566`: CONNECTING has no timeout that does anything. An access
  point that takes the station in and never gives it an address holds the worker there
  for ever, and the other candidates are not tried: *ConnectAnswered* ends in
  `associated`, not in an address. A connect the driver refuses (`:435`) is not noticed
  either; *ConnectAnswered* excepts it.
- `wifi_manager.c:531`, `bt_pan.c:266`: each thread looks at the other's link and then
  writes the page, with no lock over both. The worker sees the phone, the phone's
  channel closes and its handler shows WAIT_BT, and then the worker shows BRIDGE: a
  bridge without a phone. Or it sees none, a phone comes and its handler shows BRIDGE,
  and then the worker shows WAIT_BT over two links. Nothing corrects either page before
  the next change of a link. *PageTrue* excepts exactly this, as `overtaken`; a reader
  can see both by checking it without that condition.
- `http_routes.c:624`: adding a network shows the connecting page also when the
  worker, already connected, ignores the request.

Bluetooth

- `bt_pan.c:272`: the channel of a second phone that was sent away closes, the
  handler takes it for the first one's, and a third phone is accepted beside the
  first (CHANGELOG.md:320: "Only one Bluetooth PAN client can connect at one time").
- `bt_pan.c:149`: timers are created and never deleted; when none can be had the
  device stays hidden. *VisibleAgain* excepts it.
- `hci_transport_esp32_vhci.c:145`: a length gets into the ring without its packet.
  *ImplementsChannel* has `Break` and `Mend` for it.

Flash and configuration

- `nvs_storage.c:38`: a power cut between the writes of a removal leaves a count
  shorter than the blob; the next load finds no network at all (FLASH.md:261:
  "Saved Wi-Fi networks survive reboot.").
- `clipboard.c:44`: the comment says that a blob of another size is ignored, but
  `storage_get_blob()` (`storage.c:71-78`) never compares the length: a longer one is
  refused, a shorter one is read into the beginning of the store.
- `proxy_gateway.c:27`: two tasks that come first together make a mutex each, and the
  one whose creation fails puts NULL in the place of the other's. *Safety* and
  *AddressOfHost* except it, as `twice`.
- `http_routes.c:429`: `cfg` is not initialised, and `proxy_gateway_load()` returns
  early, with nothing written, when there is no mutex (`proxy_gateway.c:70`): the page
  then shows what was on the stack.
- `clipboard.c:255`: the mutex is given back twice. With one HTTP task nobody has
  taken it in between, and the second attempt fails without harm.
- `clipboard.c:240`: one receive may bring only the first part of a form.

DNS

- `dns_server.c:327`: a task that outlives the pause and its replacement take each
  other's sockets and handle away; nobody serves, and the watchdog, without a handle,
  never looks again (README.md:116: "Watchdog and component recovery").
- `dns_server.c:308`: `now_ms` may be older than `dns_last_alive_ms`; the unsigned
  difference wraps. Two wrapped readings in a row end a healthy task.
- `dns_server.c:154`: after one late reply each answer is looked for one datagram too
  early: its id differs, and names are sent to the bridge's own pages.

Proxy relay and NAT

- `proxy_relay.c:167-172`: an answer without a length is passed on as long as upstream
  sends something every few seconds. Each receive and each send has its timeout, all of
  them together have none, and the only HTTP task serves nobody else meanwhile.
  CHANGELOG.md:47 says "Fixed proxy relay blocking indefinitely when upstream keeps
  connection open (now respects Content-Length and uses timeouts)"; that is so of an
  upstream that falls silent, or gives a length. *RelayEnds* excepts `UpstreamGoesOn`.
- `proxy_relay.c:139-141`: the block of headers that goes out may nearly fill its
  buffer of 2048 bytes. `snprintf()` then writes as much of the blank line's text as
  fits, returns its whole length, and `send()` is given that many: the phone gets a
  truncated end, the 0 that `snprintf()` put there and up to 20 bytes from behind the
  buffer, and takes them for part of the head or the body. `Overread` models it, and
  *BodyInOrder* excepts it, as `cramped`.
- Transfer-Encoding is dropped from the head (`proxy_relay.c:126`) and a body in chunks
  passed on with its framing, which an HTTP/1.0 client takes for part of the page.
  *BodyWhole* excepts it (`Plain`).
- A reason of 32 characters or more, or none, becomes "200 OK".
- A head longer than its buffer of 2048 bytes is cut: what follows of it, headers
  included, reaches the phone as body. Sends that take less than they are given are not
  noticed. `lapses` of `ProxyRelay` names each.
- `nat_bridge.c:34`: a failed `tcpip_callback()` is not noticed. *NatAgrees* excepts
  it.

## 7. Not modelled, and why

- BTstack's ESP32 port apart from the HCI transport (audio, UART, console, key
  store), the boards' register accesses, uptime and battery: third-party code or
  hardware access, no logic of the bridge.
- The text of the pages, URL and HTML codecs: sequential text conversions that no
  property of the other modules is about. `host_matches_bridge()` and
  `is_foreign_host()`, which decide routing, are in `ProxyRelay`.
- The device name: one string key read at the first use and written before a restart,
  nothing it could disagree with.
- The watchdog's reports on heap, stack and signal strength, which only log; its
  restart on a critical heap is the restart at any step of `NvsNetworks`.
- DHCP and hardware setup of the bootstrap: configuration. Build files and images.

Two hazards have no property. `http_routes.c:624` announces CONNECTING before the
worker has decided: `WifiManager` has the write, and nothing in the code promises
that the page is corrected. `wifi_manager.c:500`, a forget that waits behind a scan
and erases a network that was added meanwhile, needs the queue of `WifiManager` and
the flash of `NvsNetworks` together; the two are not composed, as the code does not
say which of the two requests the user meant to win.

The modules meet at named values instead: the flags `WifiManager` and `BtPan` publish
are the input of `Bridge`, a DNS task that waits for the gateway's mutex is one of the
hangs of `DnsServer`, and `DnsCache` goes on from the restart that `DnsServer`
describes.
