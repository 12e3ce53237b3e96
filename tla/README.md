# luxwap: TLA+ models, checks and proofs

luxwap is a VPN service kept in one repository: a Java control server (`src/RuoYi`),
a Python agent that runs next to an Xray process on every VPN node
(`src/xray-partner`), and clients for desktop, mobile and Flutter (`src/v2ray`). The
Android client carries the phone's traffic through `tun2socks`, whose source is in the
repository (`src/v2ray/v2rayNG/badvpn`).
This directory holds TLA+ modules that model the service's own logic, the TLC
configurations that check them on small instances, and TLAPS proofs.

## 1. The system

| Component | State it keeps | Operations | What makes it correct |
|---|---|---|---|
| **Payment** (`ClientApiController`, `XrayPaymentOrderServiceImpl`, `PayPageController`) | submit tokens, orders, packets, the subscription columns of `xray_user` | pay page, create order, Alipay precreate, Alipay notification, expiry job, packet edits | a payment extends the subscription exactly once, never for nothing, and is not lost |
| **User sync** (`XrayUserServiceImpl`, `MsgService`, `XrayPartnerWebSocketHandler`, agent `command_handler.py`, `status_handler.py`) | `xray_user` rows on the server, the inbound users of every Xray process | login, registration, enable/disable, periodic and requested sync, add/remove commands | the users of a node converge to those entitled to it |
| **Node link** (`XrayPartnerWebSocketHandler`, `XrayPartnerWebSocketSession`, agent `websocket_client.py`, `heartbeat_handler.py`) | the session map of the server, the agent's socket and last answer time | connect, close, ping/pong, health check, reconnect | a live agent is reachable, a dead one is forgotten |
| **Traffic accounting** (agent `traffic_collect_handler.py`, `MsgService`, `XrayTrafficStatService`) | Xray's counters, the agent's map and its file, `xray_traffic_collect`, the quotas | collect, save, report, upsert, statistics | what is charged is what was used |
| **OAuth login** (`OAuthServiceImpl`, `login_page.dart`) | the task map in memory, the login page, the callback server inside the client | create a task, authorise, callback with registration, poll, clean up | a device enters only as the account that authorised its task, and the page always comes back |
| **TCP through the tunnel** (`tun2socks.c`, `BSocksClient.c`, `BConnection_unix.c`) | `struct tcp_client` between an lwIP pcb and a SOCKS connection | accept, handshake, callbacks of lwIP, sends and receives, every way to close | both streams intact, no data refused or stuck, graceful ends, no use of what is freed |
| **UDP through the tunnel** (`SocksUdpClient.c`) | one SOCKS association for each port of an app, a limited number of them | submit, associate, send, receive, time out | places come back, a timeout loses no packet, the DNS rule ends only what it may |
| **Packet buffer** (`PacketBuffer.c`, `ChunkBuffer2.h`) | packets of different lengths in one ring of memory | write a packet, take a packet | nothing is overwritten, first in first out, room for the promised number |
| **Sessions** (`XrayUserServiceImpl.login`, `ClientJwtFilter`, `XrayUserSessionMapper`) | `xray_user_session` rows | login, token reuse, device limit, request filter | at most the allowed devices are logged in |
| **Registration and email codes** (`EmailCodeService`, `register`, `resetPassword`) | codes, users | send code, verify, register, change and reset password | one trial per device, codes work for their minutes only |
| **Traffic statistics** (`XrayTrafficStatService`) | `vpn_lines.remaining_traffic`, `xray_user.used_traffic` | sum the rows | the sums are those of the rows |
| **Activities** (`XrayActivityServiceImpl`) | activity, participants, configuration | start, join, rank, settings | no more participants than the activity admits, nobody twice |
| **Distributors** (`XrayDistributorsServiceImpl`, `ClientApiController.distributorsApply`) | applications, back-office accounts | apply, approve | one account for each approved distributor |
| **VPN lines** (`VpnLinesServiceImpl`) | `vpn_lines` rows, their status | import, edit, ping, status message | the list clients see is the list of working lines |
| **Inner users and merchants** | rows of the back office | single-statement forms | - |
| **Clients** (`v2rayn_flutter`, the service classes of `v2rayN`) | token, chosen line, running core | start, login, choose, connect, poll payment | the screen agrees with the core and the token |
| vendored: RuoYi framework, v2rayN and v2rayNG upstream, the rest of badvpn, lwIP, hysteria, libancillary, generated gRPC stubs | - | - | outside this project |

The parts interact as follows. Clients call `/api/client/**` over HTTP; request threads
read and write MySQL through MyBatis, mostly one statement at a time and only
rarely in a transaction. Services publish `MsgEvent`s inside the server; the
WebSocket handler turns them into JSON commands for one node or for all of
them. An agent keeps one WebSocket to the server, hands each message to its
handlers, and talks gRPC to its Xray process. Alipay calls the server back. The provider
of an OAuth account redirects the user's browser to a small server inside the client,
which passes the code on; the client polls the task meanwhile. On the phone, `tun2socks`
is one thread with an event loop: packets of the TUN device go to lwIP, which calls the
TCP clients back, or to the UDP relay; both talk SOCKS to the local proxy, and a
`PacketBuffer` sits in each connection of the relay.

What is hard here is concurrency between single statements (request threads,
scheduled jobs, the thread pool of the agent), events that are sent once and
lost when a node is not connected, repeated and reordered notifications, and
restarts of each of the processes. `tun2socks` has no threads, but callbacks inside
callbacks: an event sets jobs that run before it returns and may free what it belongs to. `PROJECT.json` lists these hazards
at their lines, each with the properties that cover it.

## 2. Modules

Each part has a module of that name with its state and actions; `...Properties`, what
the part promises and the inductive invariant behind it; `...Proofs`, the TLAPS proofs;
and `MC...`, the instance that TLC's configurations use.

| Module | What it models |
|---|---|
| `Payment` | submit tokens, orders, the notification handler, the activation transaction, the expiry job; Alipay, the clock and restarts as environment |
| `Billing` | abstract specification of `Payment`: an order is settled, and a settled order is credited once |
| `UserSync` | rows of users, the events about them, broadcasts, the agent's commands and thread pool, Xray's users |
| `NodeLink` | WebSocket connections, the server's session map and health check, the agent's heartbeat monitor |
| `Traffic` | Xray's counters, the agent's map and its file, reports, the rows of `xray_traffic_collect` |
| `OAuthLogin` | the clients' login pages, the server's task map, the callback threads with the registration, polls; the user and the provider as environment |
| `TunClient` | one `struct tcp_client` with its pcb, its `BSocksClient` and the pending jobs; lwIP, the app and the server as environment |
| `BytePipe` | abstract specification of each direction of `TunClient`: bytes arrive once, in order, after they were given |
| `UdpRelay` | the associations of `SocksUdpClient`, their send pipelines, timers and DNS rule; the proxy as environment |
| `PacketBuffer` | the two handlers of `PacketBuffer.c` and the ring of `ChunkBuffer2.h`, block by block |
| `PacketQueue` | abstract specification of `PacketBuffer`: a queue of whole packets |

`PaymentProperties` also has the refinement mapping to `Billing`, `PacketBufferProperties`
the one to `PacketQueue`, `TunClientProperties` the two to `BytePipe`. A definition called
`Bug_X` is the definition `X` with a plausible mistake. No specification uses it;
checking the module with `X` replaced by `Bug_X` must violate the property the mistake
is about, which shows that the property is able to fail.

### Payment

A worker is a request thread of the server. `pc` says where it is between two
database statements that other threads can observe: `precreate` is inside the remote call
after the order was committed; `marked` and `computed` are the two points
inside the transaction of `markSuccessAndActivate`, after the order row was
updated and after the user row was read. Until the transaction commits, other threads see
the old row, and an update of the same row waits (`Locked`). MySQL's row locks are
all the concurrency control there is; the code takes no lock itself.

`orderStatus`, `tokenStatus`, `users` and `packets` are the columns that
decide something; what never changes in an order is in `order`. The
minutes a token or an order is good for become a flag that time sets
(`TokenTimeUp`, `OrderTimeUp`). Months are integers. `trades` and
`notices` are Alipay: a trade is waiting, paid, finished, refunded or timed out, and
each change adds a notification that may arrive any number of times in any order.
Signatures, amounts, merchants and the QR code are left out: a notification
that fails those checks changes no row the model keeps.

`activated`, `granted` and `raced` are history variables. They count activations,
sum the months activated, and remember whether two activations of one user overlapped.

### UserSync

A thread of the server is a request (`register`, OAuth, `login`, `disable`), the
ten-minute timer, or the thread that answers a node's `sync_users`. `pc` marks the
points where others may come in between: `toggle` is between the read and the write
of `disable`; `publish` between the event and the copy of the session map in `dumpSessions`;
`broadcast` while the copy is being sent to; `reply` while a node is answered under
the handler's lock. A message is an operation for each user (`add`, `remove`,
`skip`) and whether it came as a list (`bulk`). The operations of one list are put
into the agent's executor (`pool`), and up to `PoolSize` of them are under way at a
time; a command (`bulk = FALSE`) is run on the socket's thread, past the pool.

`link` is what the server knows of a connection. `forgotten` is a connection that the map
has lost while the socket is open; how that happens is `NodeLink`'s subject. A failed
send is lost for that node and nothing repeats it. Xray loses its users when it stops.

`expired` and `status` are the only facts about a row that choose an
operation. `clean` and `doubted` are history variables: nothing has raced with the node's last
sync; and the users that ever expired or were switched off.

### NodeLink

Each socket has an end at the agent and one at the server, which open and close
separately, and each has something in flight that may be lost with it. `sessions` is
`sessionMap` (by address), `idle` the age of a session's last message, `silence` the age of the
agent's `last_response_time`. Ages are counted in ticks up to one above `Timeout`
(60 seconds on both sides). All server handlers hold one lock, so each is one action.

Reconnecting is two steps, as `websocket_client.py:30-35` is: `GiveUp` closes the old
`WebSocketApp`, and `Reconnect` makes a new one when the old thread has ended or five seconds
have passed. Closing does not cancel a connect in progress. Such an end is `abandoned`: the server
may still accept it, even after the next connection, and then has it in the map in the place
of the newer one; the agent never reads from it and it ends. The library
is not in the repository; what is used of `websocket-client` is that
`close` closes an open connection, leaves a connect alone, and that `run_forever` ends when it comes
back to a `WebSocketApp` that was closed meanwhile.

`Accept` puts the new session in the map without
closing the one it replaces; `AfterConnectionClosed` removes whatever the address has;
`HealthCheckRemoves` includes what the code does to the iterator it is using, with every
order of the map's entries (`before`).

### Traffic

`collector` is where the agent's threads are: not running, waiting for the first
connection, running, inside a save, or ended by an exception (`dead`: the report
thread goes on). `known`, `value` and `delta` are `traffic_map`; `fileKnown`,
`fileValue` and `fileDelta` are what a start would load; `file = "broken"` is the time
between opening the file, which empties it, and the end of the dump, or, when writing fails
(`SaveFails`: the `IOError` is only logged), until a later save. `carried` is
what Xray really carried since ever, which no program knows. `Upsert` relies on a unique key
of `xray_traffic_collect` over node and counter: the mapper's `ON DUPLICATE KEY UPDATE` asks for one,
but the table's definition is not in the repository.

`Digestible(c)` is what keeps a collection alive: a counter without the field `value` (a
counter at zero) and a counter that has shrunk each raise an exception, after the
counters listed before it were updated (`CollectFails`).

### OAuthLogin

`screen` is what the login page of a client shows: `creating` is the request for a task,
`waiting` the two seconds between polls, `polling` a poll under way, `loading` the
request for the user's data after the token was kept. `poll` says where the server is with
that poll: the lookup is under `taskStoreLock`, the two reads of status and token
are not. `pc` is a callback thread between the steps others can see: `lookup`,
`register` (reads), `insert`, `login`, `status` and `token` (two separate writes to
the task). `age` is a task's minutes and whether the cleanup has removed it. A redirect
arrives whenever the client's callback server listens, for any task it ever opened, as often
as the user likes (up to `MaxCalls`). A token stands for the account it
signs in; how the providers are asked is left out. `authorised` is a history variable.

### TunClient

Between two events the pending jobs run, last set first; `jobs` is that list, and an
event of the loop needs it empty (`Quiet`). `cb` is a callback of lwIP that has not
returned, and `killed` what it will find at `DEAD_LEAVE2`. `input` are the callbacks lwIP still
makes for the segment it has read: up to three, in the order of `tcp_input`. Bytes are numbers,
so that `srvGot` and `appGot` show loss, repetition and order. `sendLen`, `recvBusy`
and `recvLen` are the outstanding operations of `BConnection`, which do a part of what
they were asked, wait for the descriptor, or fail. `socks_recv_buf` empty stands for
`socks_recv_buf_used = -1`.

`HandleFreed`, `AbortClient`, `FreeClient` and `FreeSocks` are the four ways a side
ends (`client_handle_freed_client` and so on); every action that ends one uses them as the
handlers do. `TcpClose` includes what lwIP does with unread data: the close becomes
a reset that drops what is still to be sent. A server that has closed may reset the
connection afterwards (`ServerCloses`). Retransmission, the bytes of the SOCKS
handshake, and several connections at once (which share nothing but a list) are
left out.

### UdpRelay

One action is an event with the jobs it sets. `Flush` is what `BDatagram` does once
packets can go: it sends some of them until the socket would block, or fails, which
frees the connection. `send_buffer` keeps the packet in the hands of `BDatagram` first.
`timer` is the inactivity timer that `PacketPassInactivityMonitor` stops for a packet and
starts again when it is done. A packet is its DNS transaction ID, or `NoDns`;
`dns_id` becomes `NoDns` for good when a second, different packet is sent or any other
packet is received. So two packets with the same ID are one value: two queries
with one ID to different servers, which `dns_id` does not tell apart either, are not told
apart by `AnswerEndsOnlyItsQuery`. `BufPackets` is what the buffer surely holds; that it may hold more is
in `PacketBuffer`, and `Enqueue` allows it.

What reading showed and no property is about: the comment of `SocksUdpClient` at lines 113-115
speaks of answers from the same IP, which the code does not compare; receiving
does not restart the inactivity timer; and packets that wait for the association have no
timeout of their own, so an association whose handshake never ends keeps its
place. `FairSpec` assumes that the proxy ends it.

### PacketBuffer

`mem` is `buf_data` block by block; a packet is a header block with its length and the blocks
of its data. `start`, `used` and `wrap` are the fields of `ChunkBuffer2`; `recv` and `send` are
where the outstanding operations of the two sides write and read. `at` is a history variable
with the header blocks of the packets held; the refinement reads these packets out of
the memory itself. The proofs show two things about the code: the branch of
`_ChunkBuffer2_update_input` for "never possible" is never taken (`RingInv`), and the first of the two
conditions for an early wrap in `ChunkBuffer2_SubmitPacket` never decides.

## 3. Runs

| Run | Bounds | What it shows |
|---|---|---|
| `payment_safety` | 1 user, 2 tokens, 2 orders, 1 packet (0 or 1 months), 2 threads, 1 month of time, 1 restart, 2 activations of an order | all safety properties, `PaymentIsNotTakenBack`, and that `Payment` implements `Billing` |
| `payment_live` | 1 user, 1 token, 1 order, 2 threads, 1 restart | `PaidIsActivated`, `PendingIsResolved` |
| `usersync` | 1 user, 1 node, 1 server thread, pool of 2, 1 message in flight, 2 lists in the pool | `CleanSyncIsExact`, `SubscriberIsNeverCutOff`, `SubscriberIsServed`, `ExpiredIsRemoved` |
| `nodelink` | 1 node, 2 sockets, used again and again, timeout of 1 tick | `EntryHasServerEnd`, `ActiveSessionStays`, `AgentComesBack`, `ForgottenIsReplaced`, `DeadSessionIsRemoved` |
| `nodelink_healthcheck` | 2 nodes, 2 sockets, timeout 0 | a disagreement (below) |
| `traffic` | 2 counters, 3 units each, 1 restart of Xray, 1 report in flight | `NeverOvercharged`, `SavedIsEquivalent`, `EveryUnitIsCountedOnce`, `TrafficIsReported` |
| `traffic_restart` | the same with 1 counter | a disagreement (below) |
| `oauth` | 1 client, 2 tasks, 2 accounts, 1 callback thread, 2 polls, 2 redirects | `OnlyTheAuthorisedEnters`, `PageComesBack` |
| `oauth_callback` | the same with 2 callback threads, 1 poll | a disagreement (below) |
| `tunclient` | window of 2, 3 bytes read at once, send buffer of 2, 4 bytes each way | that each direction implements `BytePipe`, `WindowFitsBuffer`, `CallbackKnowsFate`, `NothingIsStuck`, `EndsAreGraceful`, `EndsAreCleanedUp` |
| `udprelay` | 2 ports, 2 IDs, 1 place, buffer of 2, 6 packets | `CountIsExact` (in `TypeOK`), `TimeoutLosesNothing`, `AnswerEndsOnlyItsQuery`, `PlacesComeBack` |
| `packetbuffer` | MTU of 5 bytes, 2 packets, lengths 0, 4 and 5 with two contents | the asserts of `ChunkBuffer2` (`TypeOK`), `RoomIsFree`, and that `PacketBuffer` implements `PacketQueue` |

The types of the variables are checked as well (`TypeOK`), but for `NodeLink`, `Traffic` and
`OAuthLogin`, where they are proved.

Why the bounds are enough:

- *Payment.* Two orders of one user are what the races on the user row need, and two
  threads are what races on an order need; a third of either is in line behind the row
  lock. A packet worth 0 months is what makes the activation throw. The second
  activation of an order is only reachable after a refund; `MaxActivations` stops the
  counting there.
- *UserSync.* Operations about different users touch different members of
  Xray's inbound, and different nodes share nothing but the list they are sent; what
  can go wrong is two operations about one user on one node. For that
  two lists in the executor suffice: a stale list overtakes a newer one, or
  a command overtakes a list. More users, server threads and pool threads are covered by the
  proofs; the liveness properties ask for one server thread that is free in between.
- *NodeLink.* An old and a new connection of one node are needed for every late
  close and replaced session, and for a connect that was given up and is accepted late. Sockets are used again once both ends are closed, so the number
  of reconnections is not bounded. The exception in the health check needs a second entry.
- *Traffic.* With three units a counter can shrink at Xray's restart and still not be zero.
  A second counter is what a collection that fails half-way needs.
- *OAuthLogin.* Two tasks are an attempt and the one before it; two accounts are what a
  mix-up of them needs, and two redirects let each task have one or one task have two. More clients
  and callback threads are covered by the proof.
- *TunClient.* Four bytes are twice the window and twice the send buffer, so each fills,
  drains and fills again; 3 bytes read at once do not fit the send buffer, so a part
  always stays behind. The proofs hold for all sizes.
- *UdpRelay.* Two ports fight for one place; a buffer of two is full, half full and empty.
  Six packets are enough to fill it, drain it and fill it again.
- *PacketBuffer.* Lengths of no block, of one and of the two of an MTU make the ring wrap at the end
  of its memory and before it; two contents show which packet is where. The proofs
  hold for all lengths.

Deadlock is checked for `UserSync`, `NodeLink`, `OAuthLogin`, `TunClient` and `PacketBuffer`.
`Payment` ends when every trade is over and time is up. `Traffic` ends when its bounds are
used up and the agent cannot start because the file was cut off in the middle of a save
(`load_traffic_map` does not catch the exception). `UdpRelay` ends when the apps have
sent their packets and every connection is gone.

### Fairness

- `payment_live`: Alipay repeats a notification until it is answered `success`, hence
  strong fairness of each `Deliver(n)` (a delivery waits while the row is locked, and is
  taken up again and again); a thread that has started goes on (weak fairness), since
  nothing in its code waits for ever; the scheduled job runs every minute (strong
  fairness, because row locks interrupt it); deadlines pass.
- `usersync`: threads that have started go on; the timer fires while it is
  scheduled (strong, since it competes for the one modelled thread); a broadcast to a
  session that stays open does not fail every time; the agent handles what arrives and
  its pool works. The properties themselves assume that the timer is alive and the node
  stays reachable: `TimerDies` is a behaviour of the code (one exception ends a
  `scheduleAtFixedRate` task).
- `nodelink`: time passes, the health check and the closing callbacks run; the agent's
  monitor runs, not every attempt to connect fails, one that was given up ends, and a socket
  that neither side uses any more becomes free. It is *not* assumed that the server notices by itself that the
  far end of a session in its map is gone: that is what the health check is for.
- `traffic`: the collect and report threads run, a save ends or fails, not every report is lost.
- `oauth`: the client's timers and its request timeout (30 seconds) run, and the server's
  threads go on. No user has to authorise anything, and no redirect has to arrive.
- `tunclient`: the event loop goes on with its jobs and with descriptors that are ready; the proxy
  answers the handshake or fails; it takes what is written to it; and the app's TCP acknowledges what
  reaches it, as TCP does while the peer is there. Neither the app nor the server has to
  send or close anything, and no error has to be reported for a descriptor on which nothing is
  outstanding (`FdError`): a hangup then is only noted.
- `udprelay`: the proxy answers a handshake or gives it up, a writable socket takes packets in
  the end, the inactivity timer runs out. The bound on the packets is what lets a connection become
  inactive: while an app keeps sending, its place is rightly kept.

### Disagreements between code and comments

| Run | The code | What is said of it |
|---|---|---|
| `nodelink_healthcheck` | `XrayPartnerWebSocketHandler.java:49` removes from the map it iterates over; the exception ends the task for good | the comment at line 47: dead sessions have to be removed by hand |
| `traffic_restart` | `traffic_collect_handler.py:53` makes the increment a string, which cannot be added to a number: the collect thread ends | the comment at line 51: the new value is then the increment |
| `oauth_callback` | `OAuthServiceImpl.java:119` writes the status before the token, and a poll reads both without the lock: it may find success without a token and turn the client away | `integration_test_cases.md:69`: the callback page shows success, Flutter enters the main page |

`nodelink` passes with one node because removing the only entry leaves the iterator nothing
to look at.

Four more were seen while modelling `UserSync`. The model has what the code does; no run is
about them, since each follows from one line:

- `status_handler.py:15` starts the monitor once, and only its start asks for the users,
  while line 38 says that they have to be synchronised after a reconnection, too.
- `status_handler.py:44` compares a protobuf message (or -1) with 0, so an agent whose
  Xray has restarted never asks; line 42 says that a restart needs a synchronisation.
- `XrayUserServiceImpl.java:262` looks at the expiration of the token just made, so an
  expired user is added; line 265 says: expired, delete the user.
- `XrayUserServiceImpl.java:344` removes on status 1 and adds on 0; `XrayUser.java:68` says
  that 1 is enabled.

The periodic sync makes up for the first two, which is why `usersync` passes.

## 4. What is proved

The theorems hold for every value of the constants that satisfies the named assumption
of the module (`PaymentAssumption`, `UserSyncAssumption`, `NodeLinkAssumption`,
`TrafficAssumption`, `OAuthAssumption`, `TunAssumption`, `RelayAssumption`,
`BufferAssumption`: bounds are naturals, sizes are positive, null values are not ordinary values, a
packet of the buffer is not longer than its MTU). Each
proof has an inductive invariant `IInv`, one lemma for each of its conjuncts with
one step for each action that can disturb it, and short theorems that follow from it.

**Payment** (`PaymentProofs`): `TypeOK`, `OnlyPaidIsActivated`,
`ActivatedOnceUnlessRefunded`, `SuccessMeansActivated`,
`LedgerIsExact`, `TokenBacksOneOrder`, `FailedIsNeverPayable`,
`PaymentIsNotTakenBack` and `ImplementsBilling`. That a paid order is activated at
most once is not inductive by itself: the proof needs that an activated, unrefunded
order is `SUCCESS` (`ActivationInv`), that a thread inside the transaction works on an
order that is not (`WorkerInv`), that it holds the row alone (`OneWorkerPerOrder`), and
that Alipay only notifies what happened (`NoticeInv`). `LedgerIsExact` needs that the
values a thread has computed are still right unless another activation of that user
committed in between, which is what `raced` records.

**UserSync** (`UserSyncProofs`): `TypeOK`, `CleanSyncIsExact`, `SubscriberIsNeverCutOff`.
The second needs that every operation that may still take effect - in a thread's hand, on a
connection, in a pool - removes nobody but `doubted` users and speaks only of users that
have a row (`HarmlessInv`), which stays true because rows are not deleted and `doubted` only
grows. A clean sync is exact because as long as nothing races the batch is alone in the
pool, each of its operations is still the one the list would carry now, and the users it is
done with are installed or not as they should be (`CleanInv`); the list has no operation for
a user without a row, and no such user is installed (`PresentInv`). The number of pool
threads does not matter.

**NodeLink** (`NodeLinkProofs`): `TypeOK`, `EntryHasServerEnd`, `ActiveSessionStays`. The
second is inductive together with the types: a socket gets a new owner only while it has no server
end, when no entry names it. `ActiveSessionStays` also needs `OthersAreGivenUp`: an agent may have
several connections with an end left, but only its current socket's is one it still uses, and between
giving up and connecting again not even that. So an older connection of the node that closes
late, or is accepted late, is one that was given up: what is accepted while the node is
connected cannot be a connect it still waits for.

**Traffic** (`TrafficProofs`): `TypeOK`, `NeverOvercharged`, `SavedIsEquivalent`,
`EveryUnitIsCountedOnce`.
What the server is told later depends on the reports under way, these on the map, and the map on the
file it may be loaded from; so each of them has to be bounded by what was carried. For the
map and the file also the next collection must stay within the bound
(`Covered`: what is counted plus what the counter has moved). The other two rest on `FileInv`:
a living agent could go on from its file at any time, also from the one it is
writing, because a collection changes `delta` and `value` of a known counter by the same
amount, even if it fails half-way.

**OAuthLogin** (`OAuthLoginProofs`): `OnlyTheAuthorisedEnters`. A token is followed from the
redirect through the thread's job (`CallbackInv`), the task (`TokenInv`) and the answer to a
poll (`PollInv`) into the client. The last step is the one that could fail: an
answer that arrives must be about the task the page knows now, which holds because a page
cannot begin a new attempt while a poll is under way.

**TunClient** (`TunClientProofs`): `TypeOK`, `StreamsAreIntact`, `WindowFitsBuffer`,
`CallbackKnowsFate`, `NothingIsStuck`, `EndsAreGraceful` and `ImplementsPipes`, for any window, buffer sizes and number of bytes. The invariant says which
lists of jobs there can be (`JobsInv`: at most one for each direction, and one whose bytes have moved is
first), and keeps two accounts: of the app's bytes (`UpInv`, `WindowInv`: the buffer continues what the
server got, and window, buffer and what lwIP has still to report add up to `Wnd`), and of the
server's (`DownInv`: what the app got, what is unacknowledged, what waits and what a Recv has
just read follow each other and add up to what was read; `socks_recv_tcp_pending` is exactly
what lwIP has still to confirm). `LifeInv` says what is left of the two connections; with it
`FateInv` is inductive. `NextIs` reduces the steps to twenty kinds with what their guards imply, and
each part of the invariant is then proved by going through these.

On top of `IInv` two more invariants are kept. `FlowInv` says who moves what next at *every* point,
also between the jobs of an event and inside a callback: bytes of the app are in a Send, the server is
being read or its bytes wait, what waits is paid for by an acknowledgement that is still to
come, and a client whose pcb is gone has bytes left to send. When the loop waits for
events nothing is still to be confirmed, so `socks_recv_tcp_pending` is what is unacknowledged and
`NothingIsStuck` follows. `EndInv` keeps the accounts
of a direction after the other connection has gone (`DownAccount`, `UpAccount`) and that no
byte is passed on before it was given (`NothingInvented`). With them every step that closes a
pcb or frees a client has delivered what `EndsAreGraceful` asks for, and every step is one of
`BytePipe` or a stutter, in both directions: `Give` and `Arrive` come from the segments, the
writes and the reads, and only `NextConnection` starts again from nothing.

**UdpRelay** (`UdpRelayProofs`): `TypeOK` with `CountIsExact`, `TimeoutLosesNothing`,
`AnswerEndsOnlyItsQuery`. The last needs `QueryInv`: a connection that still counts as
one query was given nothing but copies of it. That a timeout frees only a connection that
has sent all it accepted needs `Conserved`: what it accepted it has sent or holds, so with
nothing held, as whenever the timer runs (`TimerIsQuiet`), everything is sent.

**PacketBuffer** (`PacketBufferProofs`): `TypeOK`, `RoomIsFree` and `ImplementsQueue`, for any MTU,
number of packets and lengths. The packets held form a chain from `start` to the end of the ring
(`ChainInv`), each within its part (`PacketInv`), in order (`OrderInv`); no position is ever too close
to the end for an MTU (`RingInv`); a packet takes at most a header and an MTU (`CountInv`), so that the
input can be refused only while `Num` packets are held; and the interfaces agree with the
ring (`IoInv`).

Only model-checked are all liveness properties (the provers do not reason about `ENABLED`):
`PaidIsActivated`, `PendingIsResolved`, `SubscriberIsServed`, `ExpiredIsRemoved`, `AgentComesBack`,
`ForgottenIsReplaced`, `DeadSessionIsRemoved`, `TrafficIsReported`, `PageComesBack`,
`EndsAreCleanedUp`, `PlacesComeBack`; and the disagreements, which are single
counterexamples. Every safety and every action property of the passing runs is a theorem.
`OnlyPaidIsActivated`, `StreamsAreIntact` (which the refinement contains) and the
types of `NodeLink` and `Traffic` are proved and in no run.

## 5. Plan

Done: `Payment` with `Billing`, `UserSync`, `NodeLink`, `Traffic`, `OAuthLogin`, `TunClient`, `UdpRelay`,
`PacketBuffer` with `PacketQueue`; `BytePipe` for `TunClient`; all safety and action properties of the
passing runs proved.

What is left, in the order of what it would add:

1. The composition of `UdpRelay` with `PacketQueue` in place of its `send_buffer`, so
   that the two proofs meet.
2. `Sessions` and `Accounts`, once the keys of `xray_user` and `xray_user_session` are part of
   the repository.
3. `Activity`: joining with a count that is stale.

## 6. Not modelled

- *Sessions, registration, passwords and email codes.* What two logins or two
  registrations at once do is decided by the keys of `xray_user` and `xray_user_session`, whose
  definitions are not in the repository. A model would have to guess them. What can be read
  without them: `getActiveDevicesByUserId` selects no id, so the device the limit wants to
  log out is never found (`XrayUserServiceImpl.java:249` says that it is).
- *Traffic statistics.* One thread that sums up all rows again each time.
- *Activities, distributors, VPN lines, inner users, merchants.* Back-office forms of single
  statements, which no modelled part reads.
- *The Flutter client but for signing in, the service classes of v2rayN.* Screens and a child
  process; they keep nothing that two actors share.
- *The rest of badvpn, and lwIP.* Its client, server and ncd are not built into the app, udpgw
  is not switched on by it. lwIP is a stack of its own, here the environment of `TunClient`.
- *Other vendored code.* The RuoYi framework, the upstream code of v2rayN and v2rayNG,
  hysteria, libancillary and the generated gRPC stubs are other projects' code; most of the
  repository's lines are theirs.

Each is listed in `PROJECT.json` with its status, and the hazards known in them with the reason
why no property covers them.
