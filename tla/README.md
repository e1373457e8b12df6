# TLA+ model of the mixnet core engine

This directory holds a TLC-checkable model of `Mixnet`, the core engine in
`src/src/core/mod.rs`, and of its forward path against a clock. Its collaborators live outside `src/`: the session
container and phase tables, the kx store, the packet queues, the SURB
keystore, the replay filter, the fragment assembler and Sphinx. They are
modelled from their contracts in `spec.md`, and PROJECT.json marks those
definitions `spec_modelled`.

## 1. Inventory

### Parts and how they interact

| part | state | operations (mod.rs lines) |
|---|---|---|
| session lifecycle | `session_status` (index, phase); `sessions` (Current/Prev slots, each Empty, Disabled or Full) | `set_session_status` 205-245, `maybe_set_mixnodes` 248-320, `post_session` 114-132 |
| kx store | secrets per session index, discarded below a threshold | `discard_sessions_before` (237), `session_exchange` (344), `public_for_session` (285) |
| replay filter | one per Full session: set of packet kx publics | `contains` (335), `insert` (385, 418) |
| forward queue | bounded min-heap of `(deadline, packet)` | `insert` (395), `pop` (474), `next_deadline` (467) |
| authored queues | one bounded FIFO per Full session | `push` (623, 671), `pop` (547), `remaining_capacity` (590, 654) |
| SURB keystore | bounded map from id to keys; evicts the oldest | `insert` (612), `entry` / `remove` (438-444) |
| invalidation | `invalidated` bits | set at 241, 316, 396, 473 and 538; `take_invalidated` 677-681 |
| cover (cover.rs) | none | `gen_cover_packet` builds bytes only |

The caller is a networking layer. It:
- drives `set_session_status` and `maybe_set_mixnodes` from the chain;
- feeds inbound packets to `handle_packet`;
- pops forward packets at their deadlines and authored packets at Poisson times;
- posts requests, and replies with the SURBs the requests delivered;
- caches `reserved_peer_addresses`, `next_forward_packet_deadline` and `next_authored_packet_delay`, refreshing each cached value when `take_invalidated` reports its bit.

Every operation is a synchronous `&mut self` call. The concurrency is
therefore the interleaving of calls chosen by the caller and by the network:
- which packets arrive;
- duplicated and replayed packets;
- status changes between any two calls;
- stale caller caches.

### Hard behaviours

The hazards, with the source line where each one bites, are listed in
PROJECT.json. In short:
- a status update that lowers the index;
- the replay filter carried across rotation, and skipped when the forward queue is full;
- the search order across two sessions;
- single use of SURBs when reply packets are duplicated, including when decryption fails;
- prev disabled in step with the kx discard;
- partial failure in `post_request` and `post_reply`;
- keystore eviction;
- the capacity bound on authored queues;
- the three invalidation bits and the caches they guard, and a forward timer left armed for a later head;
- the forward heap popped without regard to the time;
- authored packets stranded in their queues;
- `wrapping_sub` in `post_session`.

## 2. Modules

- **Mixnet.tla**: the engine plus the caller for one node.
  - Variables map to fields:
    - `status` is `session_status`.
    - `slots` is `sessions`. A slot is a record with fields `state`, `mixnode`, `queued` (the authored queue length) and `filter` (the replay filter).
    - `kxDiscardedBefore` is `kx_store`.
    - `fwdQueue` is `forward_packet_queue`.
    - `keystore` and `nextSurb` are `surb_keystore`.
    - `invalidated` is `invalidated`.
  - The caller's variables:
    - `held` is the number of SURBs available for replies;
    - `cacheReserved`, `cacheForward` and `cacheAuthored` are its cached query results.
  - History variables, used only by properties: `out` (the result of the last `post_request`), `acted`, `replies` and `rewound`.
  - One action per public method, and one per caller query. Each action carries the method's early returns and error paths as separate disjuncts.
  - Nondeterminism stands in for what the code decides by RNG or by Sphinx:
    - the session chosen by rate;
    - loop versus drop cover;
    - which fragment fails to build, and after how many of its SURBs;
    - how many SURBs a completed request hands over;
    - whether a reply decrypts.
  - The constant `CallerRewinds` says whether the caller may set a lower session index. The code does not forbid this, but a caller driven by the chain never does it.
- **ForwardPath.tla**: the forward path with time, for one node.
  - Times are relative to now, after Lamport's "Real Time is Really Simple". `fwdQueue` holds, in insertion order, the ticks left until each deadline (`Instant::now() + delay` at insert time). A tick lowers every deadline and the timer by one, and -1 stands for any time already past. Since only distances to now matter, the model covers unbounded time with finitely many states. `invalidated` is the NEXT_FORWARD_PACKET_DEADLINE bit. `timer` is the caller's armed forward timer. `lastPopped` is history.
  - `ForwardTo` is handle_packet's ForwardTo branch after the mixnode check: queue full, target error, or insert with the head-changed bit. `PopNextForwardPacket` raises the bit and pops a least deadline.
  - The caller: `RearmTimer` is take_invalidated reporting the bit followed by next_forward_packet_deadline; `Tick` lets time pass up to the armed timer, once the caller has taken the bit. The caller pops when the timer fires, or at any time when `CallerPopsEarly`.
  - Session search and replay filtering, which decide whether a packet reaches ForwardTo, are in Mixnet.tla.
- **SessionLifecycle.tla**: the abstract specification of the session slots, by absolute session index.
  - Each session moves through Future → Pending → Active or Disabled → Gone, never back.
  - While a session is Active, its replay filter only grows.
  - Mixnet maps into it: the session at `status.index` is the Current slot, the one below it is the Prev slot, lower indices are Gone and higher ones are Future. An Empty slot maps to Pending, a Full one to Active and a Disabled one to Disabled.
  - `SessionLifecycleRefined == Lifecycle!Spec` is checked as a property of `Spec`.
- **MCMixnet.tla**: the constants' record values for TLC, and two VIEWs.
  - `MCViewCaches` (the invalidation runs) drops the history variables. Those runs never check them, and they feed no guard.
  - `MCViewSurbs` (surbs) and `MCViewPostReply` (post_reply) drop the caches, the invalidation bits and the history variables their property does not read. None of these feeds a guard.

Data abstraction:
- A packet is a record naming the session it was built for, its action, its delay or its SURB id. The record doubles as its kx public key.
- A forward deadline is the packet's delay. Since "now" only grows, the delays decide which packets are heads among those queued together.
- `next_authored_packet_delay` is the mean period it samples from.

## 3. Runs

The forward_path runs use ForwardPath with plain constants; all others use MCMixnet.

| run | cfg | checks | bounds | states |
|---|---|---|---|---|
| sessions | MCMixnet_refine.cfg | TypeOK, ReplayImmunity, FullSessionsHaveKeys, SessionLifecycleRefined, with a caller that never lowers the index | index 0..2, packets for session 1, forward capacity 1, mixnode queue 2, requests of up to 2 fragments, caller holds up to 1 SURB (so post_reply's capacity check is reached) | 41k |
| surbs | MCMixnet_surbs.cfg | SurbSingleUse (each entry's keys used for at most one decryption, successful or not) | index 0..1, 2 SURB ids, keystore capacity 1, up to 1 SURB per request, caller holds up to 1 | 19k |
| inv_reserved | MCMixnet_inv_Reserved.cfg | ReservedPeersFresh | index 0..2, delays {0,1}, forward capacity 2, queues of 1 | 151k |
| inv_forward | MCMixnet_inv_Forward.cfg | ForwardDeadlineFresh | as inv_reserved | 113k |
| inv_authored | MCMixnet_inv_Authored.cfg | AuthoredDeadlineFresh | as inv_reserved | 177k |
| live | MCMixnet_live.cfg | AuthoredQueuesServed, under FairSpec | index 0..1, no inbound packets, queue capacity 2 | 8k |
| post_reply | MCMixnet_post_reply.cfg | PostReplyLosesAtMostOneSurb | index 0..1, messages of up to 3 fragments, mixnode queue 3, caller holds up to 3 SURBs | 7k |
| replay_rewind | MCMixnet_replay_rewind.cfg | ReplayImmunityAlways (violation expected) | as sessions, with a caller that may lower the index | trace |
| post_atomic | MCMixnet_post_atomic.cfg | PostRequestAllOrNothing (violation expected) | as surbs | trace |
| surbs_evicted | MCMixnet_surbs_evicted.cfg | RequestSurbsLive (violation expected) | keystore capacity 1, up to 2 SURBs per request | trace |
| forward_path | ForwardPath.cfg | TypeOK, ForwardOnTime, DeadlineMonotone (module ForwardPath) | forward capacity 4, delays 0..3, unbounded time | 1.8k |
| forward_early | ForwardPath_early.cfg | DeadlineMonotone with a caller that pops early (violation expected) | as forward_path | trace |

Why the bounds are enough:
- Indices 0..2 include:
  - a shift by one;
  - a jump by two, which resets both slots;
  - going back, which resets and is the rewind hazard;
  - and, through the phases, every combination of prev needed or discarded.
- Packets for session 1 reach both slots: as Current at index 1 and as Prev at index 2.
- A forward capacity of 1 makes the queue-full drop reachable.
- Two delays make the heap head both change and stay on insert.
- Two-fragment messages with a queue of 2 reach both the partial failure and the capacity refusal.
- A keystore of capacity 1 with 2 ids reaches eviction.
- In ForwardPath, four delays and a queue of 4 let a later packet overtake the head (for example delay 0 after delay 3), tie with it, and fill the queue. Because times are relative, no horizon cuts a behaviour short.
- In post_reply, three-fragment replies can fail at the first, second or third fragment, or succeed.

The `sessions` run fixes `CallerRewinds = FALSE`, because the refinement only holds for a monotone index (see below). The rewinding caller is explored by `replay_rewind` and by the surbs, invalidation and post_reply runs.

ForwardPath assumes that the caller handles a raised bit (take_invalidated, re-query, re-arm) before the clock moves on. Its `ForwardOnTime` is about the engine's part of the deal: if every head change and every pop raises the bit, a caller that re-arms promptly is never late.

Fairness: only the `live` run uses fairness (`FairSpec`). It assumes weak fairness of `PopAuthoredFrom(rel, FALSE)` for each slot, i.e. pop_next_authored_packet with that session picked and the drop branch taken. This is justified as follows:
- The caller calls pop_next_authored_packet each time its authored delay fires.
- Each call picks every cover-generating session with positive probability.
- The drop branch has probability 1 - loop_cover_proportion, which must be below 1.

So an outcome that stays possible happens eventually with probability 1. Status changes, packets and posts are environment actions and get no fairness.

`AuthoredQueuesServed` excludes one case on purpose. Once the phase reaches CoverToPrev, requests already queued on the previous session are never sent. This is the phase table's design and is listed as a hazard.

With `CallerRewinds = TRUE`, the refinement fails on the same trace as replay_rewind: lowering the index turns an Active session back into a Pending one. The sessions run therefore states the assumption of a monotone index explicitly.

Findings:
- **replay_rewind.** The sequence is: index 0 → 2, a jump that resets both slots. At index 2 (phase needing prev), session 1 is filled into the Prev slot and delivers a request. Setting index 1 resets both slots again, but secret 1 is kept. The rebuilt session 1, now Current, has an empty filter, so the same request is delivered again. This contradicts spec §8 properties 1 and 2. Spec §3 has the index only increase, but §4.1's "any other delta" admits a decrease, and the code does not refuse one.
- **surbs_evicted.** A one-fragment request with 2 SURBs and a keystore of capacity 1 returns Ok. The second SURB's insert has already evicted the first, so a reply through it is dropped as unknown. Nothing in post_request compares num_surbs with surb_keystore_capacity, and spec §8 property 6 promises a round trip for all K SURBs.
- **forward_early.** pop_next_forward_packet never looks at the time. A caller that pops the head (deadline 1) at time 0 can then get a packet queued afterwards with delay 0 (deadline 0). So spec §8 property 7 holds only for a caller that waits for the deadline, which forward_path checks.
- **post_atomic.** A two-fragment request whose second fragment fails to build returns Err with the first fragment already queued. The spec's §4.4 "never partial enqueue" only covers the capacity check; it says nothing about this case.

## 4. Mutants

Each property of a passing run is shown to catch a plausible bug in the code it is about:

| property | mutation |
|---|---|
| TypeOK | capacity check off by one |
| ReplayImmunity | replay-filter insert dropped |
| FullSessionsHaveKeys | prev never disabled |
| SurbSingleUse | keystore entry removed only when decryption succeeds |
| ReservedPeersFresh | session built without raising the bits |
| ForwardDeadlineFresh | forward pop does not set its bit |
| AuthoredDeadlineFresh | authored pop does not set its bit |
| AuthoredQueuesServed | authored pop checks requests allowed on Current instead of on the picked session |
| PostReplyLosesAtMostOneSurb | post_reply pops all SURBs up front |
| SessionLifecycleRefined | maybe_set_mixnodes fills a Disabled slot as well as an Empty one |
| TypeOK (ForwardPath) | forward-queue capacity check off by one |
| ForwardOnTime | insert reports a head change only into an empty queue |
| DeadlineMonotone | the heap pops in insertion order |

## 5. Plan for the following modules

1. **FragmentAssembler.tla** (spec_modelled). Bounded per-message and total fragment state, eviction, and completion handing over SURBs. Compose it in place of the nondeterministic `got` in `DeliverRequest`.
2. Done: the forward path with an explicit clock (ForwardPath.tla, spec §8 property 7). Still open: an abstract bounded priority queue refined by the heap, which only pays off once the heap's own code (packet_queues.rs) is under src/.
3. **MixnetNet.tla**. Two or three engines composed with a network that loses, duplicates and reorders packets. It checks round-trip delivery (spec §8 property 6) and SURB eviction against replies in flight.
4. Done: liveness of the authored queues (run `live`) and the session-lifecycle refinement (run `sessions`).
5. **A modular session index.** This needs the `Add` of RelSessionIndex and SessionIndex from sessions.rs, which is not under src/. Without it, the `wrapping_sub` edge in post_session only changes the error kind (see its hazard).

## 6. Not modelled

- Packet bytes, cryptography and routing (Sphinx, topology, request builder).
- `gen_cover_packet`: it has no engine state.
- Statistical properties (spec §8 properties 3 and 4).
- Replay-filter false positives: they only drop packets.
- The fragment assembler's internals (fragment.rs, not under src/). DeliverRequest hands the caller any number of SURBs up to the bound, which covers every completion the assembler can produce. Its eviction order does not affect any property of the engine's own code.
- Logging.
- The `destination` write-back and the returned delay of `post_request`: these are data, not control.
