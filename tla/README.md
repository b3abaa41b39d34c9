# TLA+ models of GNUnet's CORE, TRANSPORT and CADET

GNUnet is a framework of services (one process each, one event loop per process)
that peers run to form an overlay network. This directory models the stack every
application stands on: TRANSPORT, which connects neighbours and carries messages over
UDP; CORE, which turns these connections into encrypted sessions and shares them among
local clients; and CADET, which offers reliable channels between any two peers.

## The parts

| Part | State | Operations | What makes it hard |
|------|-------|------------|--------------------|
| TRANSPORT neighbours (`transport/gnunet-service-transport_neighbours.c`) | per neighbour: a state of ten, two addresses, the answer owed, timeout and master task | SYN, SYN_ACK, ACK, keep-alive, switch, disconnect, timeouts | crossing SYNs, switches, ended sessions, failed sends, restarts |
| TRANSPORT fragmentation (`fragmentation/`, `plugin_transport_udp.c`) | bits not yet acknowledged, round; bits received | send fragment, ACK, receive fragment, evict | lost, repeated and reordered fragments and ACKs |
| CORE receive window (`core/gnunet-service-core_kx.c`) | highest number received, 32-bit bitmap, number sent | transmit, receive, reset by a new key | messages around the window's edge, shifts by the width |
| CORE key exchange (same file) | per neighbour: status, keys, challenge, tasks; per peer: the ephemeral key | EPHEMERAL_KEY, PING, PONG, ENCRYPTED, retry, keep-alive, timeout, rekey | both sides rekey or time out at once; keys expire in use |
| CORE sessions and clients (`core/gnunet-service-core_sessions.c`, `..._typemap.c`, `gnunet-service-core.c`, `core_api.c`) | request lists, ready messages, cork timer, type maps; in each client a record per neighbour | request, solicit, transmit, cork, type map broadcast and confirmation, connect and disconnect notifications | three parties with messages under way between them; answers to requests that are gone |
| CADET channels (`cadet/gnunet-service-cadet-new*.c`) | per end: state, control task, messages sent and received out of order, window | open, port open/close, data, acknowledgement, destroy | retransmission, reordering, crossing opens and closes |
| the other services | see `components` in `PROJECT.json` | | databases, cryptography, statistics, I/O |

TRANSPORT tells CORE that a neighbour is connected; the key exchange runs over
TRANSPORT's queue; once it is UP a session is created, type maps are exchanged over it
and clients' messages are solicited. CADET is a client of CORE. Inside a service a
handler or task is never interrupted, so an action of a model is one handler or task, and
concurrency is between peers, processes, their messages and their timers.

## Modules

Each component module comes with an `MC...` module and `.cfg` files for TLC and, where
something is proved, a `...Proofs` module. Actions and variables bear the names of the
functions and fields they model; `map` in `PROJECT.json` gives the lines.

### CoreWindow

One direction of one connection. `last` and `bitmap` are
`last_sequence_number_received` and `last_packets_bitmap` (a set of bit positions);
`Duplicate`, `Ancient`, `Mark`, `Shift` and `Highest` are the tests and updates of
`handle_encrypted`, in its order: the window moves before the timestamp is checked, so
a message too old still counts as received. `passed` and `delivered` are history
variables. `Width` is a parameter (32 in the code).

Run `core_window`: `TypeOK`, `NoFreshMessageIsDuplicate`, `AtMostTwice`,
`WindowOnlyMovesForward`. Width 2, four numbers, two keys: the window can be overrun
(4 - 1 > 2), a shift can equal or exceed the width, and a reset can happen with messages
on the way.

### CoreKx

`kx[<<p, q>>]` is p's `GSC_KeyExchangeInfo` for q. A session key is represented by the
generations of the two ephemeral keys it is derived from, which is what decides
whether the other side can decrypt. `retry` and `alive` say that `retry_set_key_task`
and `keep_alive_task` are pending; `silent` that half of the idle timeout has passed
without a sign of life. A PING challenge is fresh when no message of this exchange
bears it (a 32-bit random number in the code). `derived` records every key ever derived.
A handler's early returns are the `..._ignored` actions. `Network` says which of the
messages sent are lost and whether the message received can arrive again. The network is
disturbed first (loss, repetition, disconnects, restarts, rekeying, key expiry) and may
become `calm`: from then on everything is delivered, and faster than the timers run
(seconds in the code).

Run `core_kx`: `TypeOK`, `TimersFollowStatus`, `UpMeansConfirmed`, `NewestKeyWins`, and
`EventuallyAgreed` under `FairSpec`. Two peers (exchanges of different pairs share only
the ephemeral key); one of them may rekey or restart with a second key, enough for old and
new to be confused; one handshake message and one data message in flight; enough
challenges that a fresh one always exists. The safety properties are proved for all bounds.

Fairness: the scheduler runs a pending task, transport delivers or reports the
connection once calm. Timers have strong fairness because their guard
`calm => net = {}` disables them during deliveries although the task stays pending.

### CoreSessions, CoreClients

`CoreSessions` is the service as a record (`Service`) and its functions as operators on
it, because they call one another: `GSC_SESSIONS_*`, `GSC_CLIENTS_*`, `GSC_TYPEMAP_*`,
`try_transmission` and `solicit_messages`. The last two call each other: the loop of
`solicit_messages` may drop a request, which tries a transmission, which starts the loop
again. `solicit_messages[n]` unfolds this n calls deep, `try_transmission` as deep as the
list of requests is long; `TransmissionIsRecursive` proves that this is deep enough. A
failed assertion sets `aborted`.
`CoreClients` composes the service with the libraries of its clients, the two streams of
each client's connection, and what the key exchange and TRANSPORT report. Priorities are
kept, sizes are small numbers of which `MaxSize` fit into a packet; of the delays the
model keeps whether the cork deadline of the queue has come. The counters of the type map
have `CounterSize` values (256 in the code). Type maps are sets of types; a
confirmation names the map it confirms, which the code does with a hash. `told` holds the
maps ever sent to the neighbour, over all sessions: a confirmation of any of them may come
at any time, late ones of an earlier session included.

* `core_session`: `TypeOK`, `ConnectmapFollows`, `RequestsLinked`, `LibraryNeverBreaks`,
  `MyMapIsUnion`, `TypemapRepeated`. Two clients, one of which matches a neighbour by its
  type and may leave and may ask for more than fits into a packet, and one that takes
  every neighbour; two sessions and two type maps of the neighbour; cancelled messages,
  timeouts, reinitialisation and payload from the neighbour.
* `core_session_live`: `EventuallyAsked` and `EventuallyTransmitted` under `FairSpec`,
  without departures. Both allow for a `Stale` request: one the service has solicited
  although its client no longer has the message (it lost the neighbour meanwhile, or
  cancelled; `core_mq_cancel_impl` does not tell the service). Such a request keeps its
  room in `solicit_messages` until the session ends, and others may wait behind it.
* `core_session_abort`: `NeverAborts` is violated, see below.

Fairness: the event loops of clients and service run, TRANSPORT sends what it is given,
timers fire. TRANSPORT's report of unused bandwidth has strong fairness while the queue
has room: the report comes back after every use of bandwidth, and `transmit_typemap_task`,
the one thing that fills the queue without being asked, backs off exponentially.

The trace of `core_session_abort`: a client has a request with the service; the
neighbour's type map stops matching and matches again, so the library drops its
`PeerRecord` and makes a new one, whose `smr_id_gen` starts over, and sends a request with
the same number. The service solicits the first request; the library takes the SEND_READY
for the second one and sends. The service's duplicate of the request is in the list,
unsolicited, when the types go away again and the message arrives: `try_transmission`
solicits the request, finds the client no longer connected to the neighbour, and the
assertion in `GSC_CLIENTS_reject_request` fails.

### Fragmentation

`fragmentation.c` at the sender, `defragmentation.c` at the receiver, and the code of
`plugin_transport_udp.c` that drives them, for one session. `fc` is the
`GNUNET_FRAGMENT_Context` (bitmaps are sets of bits; `task` and `proc_busy` as in the
code), `queue` the plugin's transmission queue. `lru` holds the receiver's message
contexts by `last_update` (times are taken to differ), `missing` their `bits`, and
`have_sender` is the flag of `DefragContext` without which `ack_proc` answers nothing.
Fragment identifiers, random 32-bit numbers in the code, are taken to be distinct.

Of the delays the model keeps one: `exhausted` stands for `num_rounds >= 64`, from where
on the delay between two fragments of a round is FOREVER (`asleep`). When the 64th round
comes is left open, so no counter is needed. `late` says that the deadline has passed;
the plugin notices only when a fragment is in its queue. `May` names the events a run
includes besides the ordinary ones.

* `fragmentation` (`May = {"cut", "rounds"}`): `TypeOK`, `OkMeansDelivered`, `TaskOrBusy`,
  `HandedOnOnce`, and `EventuallyFinished`: in a network that need not calm down every
  message ends with success or failure, unless its sender is asleep.
* `fragmentation_live` (`May = {"calm", "cut"}`): `EventuallyOk`, once calm, a message
  within its deadline is acknowledged as long as the receiver can answer for it.

Both properties name a limit of the code in their premise. A receiver that loses its
context after a partial ACK ("cut") does not answer before it has a whole message, and
the sender repeats only what was not acknowledged: the message fails at its deadline. A
sender that is `asleep` ("rounds") wakes up only by an ACK and until then holds the
session's only context.

Bounds: two fragments, so that some but not all can be missing at both ends, and a third
position behind them, as in all messages of fewer than 64 fragments; two messages with
room for one at the receiver, so that late fragments of the first evict the second; two
packets in flight, so that they overtake each other. No deadlock check: a sender that is
done with all its messages stops. Fairness: pending tasks run, the bandwidth tracker does
not withhold bandwidth for ever, the socket takes what is queued, packets in a calm network
arrive, and a deadline is finite and passes.

### Neighbours

`n[p]` is peer p's `NeighbourMapEntry` for the other peer: state, the answer it owes
(`ack`), primary and alternative address, whether the master task and the delayed
disconnect are scheduled, the nonce of a keep-alive that waits for its response, and the
time stamp of the SYN to be answered. Of a timeout the model keeps only whether it is
shorter than a keep-alive interval (`short`): a timer may otherwise fire at any time.
Addresses come from ATS, which suggests any usable one at any time or none at all; there
is one session per address. `May` names the disturbances, which end when `calm` becomes
true: "loss", "dup", "session" (a session ends), "fail" (a send fails), "force" (a client
forces a disconnect), "stop" (a service is restarted), "send" (payload is queued, which
schedules the master task). `aborted` has the peers whose service failed the assertion of
`send_syn`: nothing of it runs, and what is sent to it is lost, until ARM starts it again
(`GST_neighbours_start`) without entries.

* `neighbours`: `TypeOK`, `AddressFollowsState`, `SynAckOwedOnlyWithoutAddress`,
  `CleanupScheduled`, `AbortsOnlyOnRefusedSynAck`, and `EventuallyAgree` under `FairSpec`:
  once calm, both peers come to agree on whether they are connected, unless one of them
  lost its master task. `AddressFollowsState` is about the entry between two handlers;
  what a handler does with an address it just lost is the subject of
  `AbortsOnlyOnRefusedSynAck`: the assertion fails only in RECONNECT_ATS, when a SYN_ACK
  is owed and the plugin refuses it.
* `neighbours_task`: `MasterTaskPending` is violated. On the timeout of SYN_SENT,
  `master_task` enters INIT_ATS and returns; it cleared `n->task` at its start, and
  `set_state_and_timeout` re-schedules only a pending task. The entry has no timeout any
  more, and a connection made from it no keep-alives, until payload is queued.

Bounds: one peer has two addresses, so that it can switch, and sends two SYNs, so that an
answer to the first can be taken for one to the second; the other has one of each; one
message in flight and one nonce. Any message may still be lost, repeated or late. What these
bounds leave out: two SYNs that cross, a DISCONNECT overtaken by a new SYN (and so the
comparison of time stamps that ignores it), and a second keep-alive after an unanswered one.
The safety properties are proved without these bounds; `EventuallyAgree` is checked only
within them. No deadlock check: two peers that gave up and know of no more addresses stop.
Fairness: scheduled tasks run, what arrives is delivered, and ARM restarts a service that
aborted; a timer stays pending during deliveries, hence strong fairness. ATS need not
suggest anything. `BecomeCalm` is fair: the property is about what follows the last
disturbance.

### CadetData, ReliableFifo

Payload in one direction on a channel that is READY at both ends. `head_sent`, `tq`,
`retry_data_task` are the sender's list, the tunnel's queue and the retransmission timer;
`mid_recv`, `mid_futures`, `head_recv` the receiver's window, bitmap (a set of bit numbers)
and out-of-order queue; `allow_send` and `client_ready` are the flow control towards the
clients. The tunnel loses and reorders messages but, numbering and encrypting them,
delivers none twice. `ReliableFifo` says what a reliable in-order channel promises:
each message once, in order, and none forgotten before the other side has it. `Fifo` in
`CadetData` is the refinement mapping.

Run `cadet_data` (`FairSpec`, reliable, in order, window 2, bitmap of 3 bits, four messages,
two in flight each way): `TypeOK`, `AckTellsTheTruth`, `CreditsConserved`,
`RetransmissionAlive`, the refinement `IsReliableFifo`, and `EventuallyGiven` once the
network is calm. Four messages are twice the window, so that the window moves past
a message missing for long; two in flight overtake each other. No deadlock check: a client
stops sending. Fairness: tasks run, the tunnel sends, a calm network delivers, a receiving
client asks for the next message when it is done with one (client API); nothing forces a
client to send.

### CadetOpen

The life of one channel: one control task and at most one control message in the tunnel's
queue at each end, the port and the list of channels that wait for it at the destination.
Of payload only whether some is unacknowledged is kept (`head_sent`); `CadetData` has the
rest. `granted` and `bound` count, up to `HistoryCap`, the supplies of LOCAL_ACKs given to the
owner and the bindings to the port. `crashed` records the use of an end that does not exist. `May`
names what a run includes.

* `cadet_open` (`{"port", "timeout", "calm"}`, `HistoryCap` 2): `BoundOnce`, `OpenIsRepeated`,
  and `OpenCompletes` under `FairSpec`. `TypeOK` is left to the proof.
* `cadet_open_close` (`{"port", "close", "payload", "calm"}`, `HistoryCap` 1):
  `PayloadOnlyToBound`: payload sets out for the destination only after a client there got
  the channel, however long the OPEN waits for its port; and `OrphanLearns` under
  `FairSpec`: a destination with payload for an owner that is gone learns of it even if the
  DESTROY was lost, unless its service fails (`DestroyIsHandled` below).

There are no bounds besides `HistoryCap`, which has to be 2 only for "at most once": messages
in flight form a set of ten. No deadlock
check: a closed channel stops. Fairness: tasks run, tunnels come up and send, a calm network
delivers, the port is opened in the end (otherwise nothing can complete). Payload that is
not acknowledged is repeated, which `CadetData` shows (`RetransmissionAlive`).

## Proofs

For every value of the constants that meets the named assumptions of the modules:

* `CoreWindowProofs`: `TypeOK`, `NoFreshMessageIsDuplicate`, `AtMostTwice` and
  `WindowOnlyMovesForward`. `WindowInv` adds that
  a set bit belongs to a number that passed, and that a number that passed twice is behind
  the window or has its bit set; without it the duplicate check says nothing.
* `CoreKxProofs`, any set of peers: `TypeOK`, `TimersFollowStatus`, `UpMeansConfirmed` and,
  with ephemeral keys in use, `NewestKeyWins`. `KxInv` adds what is true of messages in
  flight (`MessagesGood`): PING, PONG and data are sent only under keys their sender
  derived. `UpMeansConfirmed` needs it: `handle_pong` looks only at the message.
  `KxAgreementLasts` is the safety half of `EventuallyAgreed`: in a `Settled` state (calm, all
  exchanges UP with keys that agree, no retry task, only PINGs and PONGs under the present
  keys and challenges in flight, and one of them for each peer that waits) every step leads
  to a `Settled` state, so no exchange starts over. `KxSettledIsEnough`: `EventuallyAgreed`
  follows from `<>Settled`. That fairness leads there is left to TLC; on the instance of
  `core_kx` every calm state is followed by a `Settled` one.
* `FragmentationProofs`: `TypeOK`, `OkMeansDelivered`, `TaskOrBusy`, `HandedOnOnce`, for any
  number of messages and fragments and any room at the receiver. `Inv` adds that the queue
  holds nothing but the fragment its context waits for, that a receiver without
  missing fragments has handed the message on, and that an ACK in flight without missing
  fragments is for such a message: success is reported on nothing but that ACK.
* `CadetDataProofs`, with every combination of the options `Reliable` and `OutOfOrder`:
  `TypeOK`, `CreditsConserved`, `RetransmissionAlive`. `EndsInv` adds how the sender's list,
  the tunnel's queue and the timer belong together, and that an unreliable channel
  keeps a message only as long as it is in the tunnel's queue. For `Reliable /\ ~OutOfOrder`
  (`InOrder`): `IsReliableFifo` (every step maps to a step of `ReliableFifo` or a stutter)
  and `AckTellsTheTruth`, which fails with `OutOfOrder` (below). `ChannelInv` adds to `EndsInv` that the client was given exactly
  `1 .. mid_recv - 1`, that every bit stands for a queued message, that what the tunnel
  has is part of `head_sent`, and that acknowledgements in flight were true and stay so, since
  `mid_recv` only grows.
* `CoreSessionsProofs`, about the operators of `CoreSessions`, for any service state with
  at most one request per client, each of which fits into a packet (`Sound`).
  `TransmissionIsRecursive`: `try_transmission` and `solicit_messages` satisfy the equations
  of the code, in which each calls the other without a bound. A request is solicited once,
  so the requests that were not (`Unasked`) bound the depth. `TryTransmissionFollows`: what a
  call of `try_transmission` may do to the service (`Follows`): send, solicit clients that
  have the neighbour, and drop requests from both containers at once. The lemmas say
  the same of every other function of the service (`Stays`). `TryTransmissionSpares`: from a
  `Safe` state (waiting messages are smaller than a packet, and who is still to be asked
  has the neighbour or has its request in its map) no such call fails an assertion; nor does
  any event at the session while what waits is smaller than a packet (`Endures`). It
  assumes `MaxSize` of at least 2: the type map, of size 1, is smaller than a packet.
* `CoreClientsProofs`, any clients, types, messages and bounds: `TypeOK`,
  `ConnectmapFollows`, `RequestsLinked`, `LibraryNeverBreaks`, `TypemapRepeated` and, as long
  as `FewClients` holds (fewer clients are connected than a counter of the type map has
  values, 256 in the code), `MyMapIsUnion`. `ClientsInv` adds to what holds inside the
  service (`ServiceInv`) what is under way between it and the libraries. `ViewInv`: the
  messages in a client's queue, taken one by one, lead its library from what it knows of
  the neighbour to what the connectmap says (`Leads`), so that each meets the state it
  expects. `TalkInv`: INIT comes first and once, and only a library that is gone closes the
  connection. `CountInv` counts, for each type, the clients that registered it.
  Two theorems complete what `core_session_abort` shows. `AbortsOnlyOnFatalSend`: an assertion
  of the service fails only while a message as large as a packet waits, or in
  `handle_client_send` on such a message or on one that is `Late`, the step at the end of the
  trace above. `NeverAbortsUnlessLate`: if all messages are smaller than a packet and none
  is late, `NeverAborts` holds.
* `CadetOpenProofs`, whatever is lost, repeated, late or timed out: `TypeOK` and
  `PayloadOnlyToBound`; without "close" in `May`, `BoundOnce`; without "payload",
  `OpenIsRepeated`. Both premises are needed: a delayed OPEN that arrives after the
  destination has closed its end makes a second channel, which is bound again; and payload
  that overtakes the OPEN_ACK cancels the OPEN (below). `GrantInv` adds that an OPEN_ACK in
  flight, in the queue or scheduled means a binding, and so does a supply of LOCAL_ACKs,
  without which the owner sends nothing; `BindInv` that a channel that was bound
  is READY and that no DESTROY is under way. `ServiceStaysUp`: `DestroyIsHandled` and
  `LooseChannelsExist` hold without "port" (no channel ever waits), and with "port" if there
  is neither "timeout" nor "close". The table below shows that either of the two, together
  with "port", breaks one of them.
* `NeighboursProofs`, any addresses: `TypeOK`, `AddressFollowsState`,
  `SynAckOwedOnlyWithoutAddress`, `CleanupScheduled`. The four together are inductive, once
  stated per entry (`GoodEntry`) so that each operation on an entry has its lemma.
  `NeighboursAborts` proves `AbortsOnlyOnRefusedSynAck` from it: every other caller of
  `send_syn` has just set the address it sends to. `SynHasSessionUnlessRefused`: the
  assertion holds if no send is refused.
  `MasterTaskPending`, which `neighbours_task` shows violated, is broken in one way only.
  `TaskLostOnlyInSynSent`: a step that leaves an entry without its task is the timeout of
  SYN_SENT of that entry. `TaskPendingUnlessSynTimesOut`: without such a timeout
  `MasterTaskPending` holds. An entry is `Tended` if it has its task or is gone, and every
  handler is shown to keep it so.

Only model-checked: every liveness property (liveness and ENABLED are outside the prover's
reach) and the violations. Every invariant, action property and refinement that a passing
run checks is proved; of the violated properties the theorems say where they hold.

## Further disagreements between code and comments

Besides the two that runs show, each property below is stated in its module and is violated
under `Spec` (`PassedOn`: `FairSpec`) with the constants given (CadetOpen: `HistoryCap` 2).
They have no run of their own.

| Property | Constants | What happens |
|----------|-----------|--------------|
| `BitmapRecordsWindow` (CoreWindow; comment at `gnunet-service-core_kx.c:318`) | as `core_window` | when a higher number arrives the bitmap is shifted but the bit of the previous highest number is not set (`:1589`); a copy of it passes once more, which is why `AtMostTwice` is not "at most once" |
| `ResetOnlyWithFreshKey` (CoreWindow; `gnunet-service-core_kx.c:855`) | as `core_window` | a repeated EPHEMERAL_KEY derives the same key and resets the numbers |
| `AckTellsTheTruth` with `OutOfOrder` (CadetData; `gnunet-service-cadet-new_channel.c:1522`) | `Reliable` TRUE, `OutOfOrder` TRUE, `MaxPending` 2, `Width` 3, `MaxMsgs` 3, `NetCap` 2, `MayCalm` FALSE | message 2 overtakes 1 and is given to the client; `mid_recv` becomes 2 (`:1264`), so the acknowledgement covers 1, which never arrived |
| `SettlesAllBelowBase` (CadetData; `:1522`) | `Reliable` TRUE, `OutOfOrder` FALSE, `MaxPending` 2, `Width` 3, `MaxMsgs` 4, `NetCap` 1, `MayCalm` FALSE | message 1 is lost, 2 and 3 are acknowledged by bits; 4 and the repeated 1 arrive, all are given, and the acknowledgement has base 5. `:1534` matches only what is at most `max_pending_messages + 1` behind the base: 4 is settled, 1 never is. It is repeated for ever and keeps a LOCAL_ACK |
| `NotOutOfOrder` (CadetData; `gnunet_cadet_service.h:78`) | `Reliable` FALSE, `OutOfOrder` FALSE, `MaxPending` 2, `Width` 3, `MaxMsgs` 3, `NetCap` 2, `MayCalm` FALSE | a message older than `mid_recv` is queued, and `GCCH_handle_local_ack` gives the first queued message whatever `mid_recv` is |
| `PassedOn` (CadetData; `gnunet-service-cadet-new_channel.c:1203`) | the same; also with `MayCalm` TRUE | a message other than `mid_recv` is queued although the client is ready (`:1253`), and the queue is looked at only on a LOCAL_ACK, which a ready client does not send |
| `OpenIsRepeated` (CadetOpen; `:289`) | `May = {"payload"}` | the destination's payload overtakes the OPEN_ACK; `send_channel_data_ack` cancels the OPEN in the queue (`:817`), and no task is left |
| `LooseChannelsExist` (CadetOpen; `gnunet-service-cadet-new.c:159`) | `May = {"port", "timeout"}` | `timeout_closed_cb` frees a channel that stays in `loose_channels` |
| `DestroyIsHandled` (CadetOpen; `gnunet-service-cadet-new_channel.c:1596`) | `May = {"port", "close"}` | a DESTROY for a channel that waits for its port: `GCCH_handle_remote_destroy` reads `ch->dest`, which is NULL (`:1621`) |
| `CloseWaitsForQueue` (CadetOpen; `:1072`) | `May = {"close", "payload"}` | the branch at `:1068` needs a second local client; a channel to another peer is destroyed with its send queue |
| `GrantedOnFirstConnect` (CadetOpen; `:1148`) | `May = {}` | an OPEN repeated before the OPEN_ACK came is still in the queue; when it is sent, `send_channel_open` runs again, takes READY back to OPEN_SENT, and the next OPEN_ACK grants a second supply |
| `CountsMissingFragments` (Fragmentation; `defragmentation.c:543`) | `N` 3, `Width` 4, `MaxMsgs` 1, `NumMsgs` 1, `NetCap` 1, `May = {}` | the loop runs over all positions and starts over at each that is not missing: the count that delays the ACK is 0 for fewer than 64 fragments |
| `SomeLossIsCounted` (Fragmentation; `fragmentation.c:441`) | `N` 3, `Width` 4, `MaxMsgs` 2, `NumMsgs` 1, `NetCap` 2, `May = {}` | a masked bit is compared with 1 (`:426`), so only bit 0 is counted |
| `SynHasSession` (Neighbours; assertion at `gnunet-service-transport_neighbours.c:1878`) | as `neighbours` | in RECONNECT_ATS with a SYN_ACK owed (`:2611`), the plugin refuses the SYN_ACK; its continuation removes the address just set, and `send_syn` is called on it (`:2627`) |
| `OnlySilentIsCut` (Neighbours; comment on `NeighbourMapEntry.timeout`) | as `neighbours` | after a failed switch the connection has a timeout shorter than the keep-alive interval and is cut although the peer answers |
| `OnlyLatestSynAckCounts` (Neighbours; comment on `connect_timestamp`) | as `neighbours` | RECONNECT_SENT and SWITCH_SYN_SENT take a SYN_ACK for an earlier SYN |
| `AckIsSpent` (Neighbours; `gnunet_transport_service.h:207`) | as `neighbours` | `ack_state` stays SEND_ACK after the ACK it waited for |

Seen while reading, not stated as properties:

* `gnunet-service-core_sessions.c:517` lets through a request of exactly
  `GNUNET_CONSTANTS_MAX_ENCRYPTED_MESSAGE_SIZE`, which `:672` asserts against; the
  instances keep to sizes below it, or above it.
* `gnunet-service-core_sessions.c:75` says the deadline is a second ahead if the message is not
  corked and "now" otherwise; the code does it the other way round.
* The comment of `core_mq_cancel_impl` says it undoes `mq_send_impl`; the SEND_REQUEST stays
  with the service (`Stale` above).
* `map_counters` has eight bits: with 256 clients of one type the type is lost from the map,
  hence `FewClients` in `MapAlwaysUnion`.
* `check_client_send` does not look at the size. With `MaxSends` 2 a SEND_READY for an earlier
  request (as in `core_session_abort`) can be taken for a message too large for a packet, whose
  own SEND_REQUEST was ignored while the neighbour's types did not match. It is accepted,
  fits into no packet, and what is queued behind it waits until the session ends. `TypeOK`
  therefore bounds the sizes of requests and not those of messages; the attempt to prove
  the stricter bound inductive failed at this step.
* `GSC_TYPEMAP_get_from_message` compares the size of an uncompressed map with the header
  included to the size of the map without it, and so takes none.
* A confirmation is compared with the hash of the present map only. One that is late over the
  end of a session stops the repetition in the next, although the map was not sent there;
  `TypemapRepeated` therefore counts what was sent in earlier sessions as sent.

## Not modelled

The models stand for about 8,600 lines of a repository of over 500,000: the state machines
of three services, some 60% of `gnunet-service-core_kx.c`, `gnunet-service-core_sessions.c`,
`fragmentation/`, `gnunet-service-cadet-new_channel.c` and
`gnunet-service-transport_neighbours.c`. Most of the repository is not modelled at all.

* Composition of key exchange and session: `CoreClients` lets the key exchange report
  sessions and reinitialisations freely, so it covers more than `CoreKx` produces. Whether
  `GSC_SESSIONS_reinit` is called whenever the other side lost its session (it is not for
  a sender in REKEY_SENT, `gnunet-service-core_kx.c:965`) is therefore not asked.
* CORE: the session of a peer with itself, monitoring clients, the encoding of type maps, the
  reconnection of a library to a restarted service, shutdown, clock skew.
* TRANSPORT: of the neighbours queued payload, quotas and bandwidth, monitoring and blacklists;
  address validation; of UDP sockets, addresses, NAT, broadcasts, unfragmented messages,
  flow delays and the estimation of latencies.
* CADET: key exchange and queue of tunnels and connections (the models see a queue that
  sends, loses and reorders), routing, channels between two clients of one peer,
  unreliable channels under `CadetOpen`, client connections and monitoring.
* Everywhere: message formats, statistics, logging; the cryptography itself (a message is
  readable exactly by who derived its key).
* The services outside the table of parts are listed with reasons in `PROJECT.json` under
  `components`.
