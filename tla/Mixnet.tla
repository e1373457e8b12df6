------------------------------- MODULE Mixnet -------------------------------
(***************************************************************************)
(* The mixnet core engine `Mixnet` of src/src/core/mod.rs, one node, with  *)
(* the caller that drives it (feeds packets, sets the session status,      *)
(* pops packets, posts requests and replies, and caches what it queried    *)
(* until `take_invalidated` says the cached value is stale).               *)
(*                                                                         *)
(* Data is abstracted: a Sphinx packet is a record naming the session key  *)
(* it was built for and the action peeling it yields; the key-exchange     *)
(* public key that the replay filter stores is the packet record itself.   *)
(* Queued packets are the kind of message they carry.  A forward deadline  *)
(* is the packet's delay: the clock only shifts all deadlines inserted     *)
(* after it advances, so the delays alone decide the heap's order among    *)
(* the packets a run holds at once.  Collaborators outside src/            *)
(* (sessions.rs, kx_store.rs, packet_queues.rs, surb_keystore.rs, the      *)
(* Sphinx primitive, the fragment assembler) are modelled from their       *)
(* contracts in spec.md.                                                   *)
(***************************************************************************)
EXTENDS Naturals, Integers, Sequences, FiniteSets, SequencesExt, FiniteSetsExt, Functions

CONSTANTS
    MaxIndex,            \* largest session index the caller may set
    PacketSessions,      \* sessions whose keys the inbound packets are built for
    Delays,              \* forwarding delays a Forward header may carry
    ForwardQueueCapacity,   \* config.forward_packet_queue_capacity
    SurbKeystoreCapacity,   \* config.surb_keystore_capacity
    MaxFragmentsPerMessage, \* config.max_fragments_per_message
    MixnodeSession,      \* config.mixnode_session: [capacity, period]
    NonMixnodeSession,   \* config.non_mixnode_session: a record or NoConfig
    NoConfig,            \* model value: non_mixnode_session is None
    NumSurbIds,          \* bound on SURB keystore ids ever issued
    MaxNumSurbs,         \* largest num_surbs the caller passes to post_request
    MaxHeldSurbs,        \* bound on SURBs the caller holds for replies
    CallerCaches,        \* the Invalidated flags whose query results the caller caches
    CallerRewinds,       \* whether the caller may set a lower session index
    NotCached,           \* model value: the caller holds no cached value
    None                 \* model value: a query returned None

ASSUME MaxIndex \in Nat /\ PacketSessions \subseteq 0..MaxIndex /\ Delays \subseteq Nat
ASSUME ForwardQueueCapacity \in Nat \ {0} /\ SurbKeystoreCapacity \in Nat \ {0}
ASSUME MaxFragmentsPerMessage \in Nat \ {0}
ASSUME MixnodeSession.capacity \in Nat \ {0} /\ MixnodeSession.period \in Nat \ {0}
ASSUME CallerRewinds \in BOOLEAN
ASSUME CallerCaches \subseteq {"RESERVED_PEERS", "NEXT_FORWARD_PACKET_DEADLINE", "NEXT_AUTHORED_PACKET_DEADLINE"}

VARIABLES
    status,       \* self.session_status: [index, phase]
    slots,        \* self.sessions: [Rels -> slot], see Slot below
    kxDiscardedBefore, \* self.kx_store: secrets of sessions below this are gone
    fwdQueue,     \* self.forward_packet_queue: Seq of [pkt, deadline], insertion order
    keystore,     \* self.surb_keystore: Seq of SURB ids, oldest first
    nextSurb,     \* number of SURB ids the keystore has generated
    invalidated,  \* self.invalidated
    held,         \* number of SURBs the caller holds to reply with
    cacheReserved, cacheForward, cacheAuthored, \* the caller's cached query results
    out,          \* result of the last post_request: "Ok", "Err", or "none"
    acted,        \* history: times each packet was forwarded or delivered
    replies,      \* history: decryptions tried with each SURB id's keys
    rewound       \* history: the session index has been set lower than before

engineVars == <<status, slots, kxDiscardedBefore, fwdQueue, keystore, nextSurb, invalidated>>
callerVars == <<held, cacheReserved, cacheForward, cacheAuthored>>
histVars == <<out, acted, replies, rewound>>
vars == <<engineVars, callerVars, histVars>>

-----------------------------------------------------------------------------
(* Sessions, phases and the phase predicates (sessions.rs, spec 3/9).      *)

Indices == 0..MaxIndex
Rels == {"Current", "Prev"}
PhaseOrder == <<"ConnectToCurrent", "CoverToCurrent", "RequestsToCurrent",
                "CoverToPrev", "DisconnectFromPrev">>
Phases == ToSet(PhaseOrder)
Rank(ph) == CHOOSE i \in DOMAIN PhaseOrder : PhaseOrder[i] = ph

NeedPrev(ph) == Rank(ph) < Rank("DisconnectFromPrev")
GenCoverPackets(ph, rel) ==
    IF rel = "Current" THEN Rank(ph) >= Rank("CoverToCurrent") ELSE NeedPrev(ph)
AllowRequestsAndReplies(ph, rel) ==
    IF rel = "Current" THEN Rank(ph) >= Rank("RequestsToCurrent")
                       ELSE Rank(ph) < Rank("CoverToPrev")
DefaultRequestSession(ph) ==
    IF Rank(ph) >= Rank("RequestsToCurrent") THEN "Current" ELSE "Prev"

\* RelSessionIndex + SessionIndex: the previous session is current_index - 1
IndexOf(rel, cur) == IF rel = "Current" THEN cur ELSE cur - 1

-----------------------------------------------------------------------------
(* Packets.  The record is the packet's key-exchange public key.           *)

ActPackets == [sess : PacketSessions, act : {"Forward"}, delay : Delays]
                \cup [sess : PacketSessions, act : {"Request"}]
SurbIds == 0..(NumSurbIds - 1)
Packets == ActPackets
             \cup [sess : PacketSessions, act : {"Cover", "Bad"}]
             \cup [sess : PacketSessions, act : {"Reply"}, surb : SurbIds]

(* A session slot: Empty, Disabled or Full with its topology role, the     *)
(* length of its authored packet queue (FIFO; what the packets carry is    *)
(* not told apart by any property) and its replay filter.                  *)
EmptySlot == [state |-> "Empty", mixnode |-> FALSE, queued |-> 0, filter |-> {}]
DisabledSlot == [EmptySlot EXCEPT !.state = "Disabled"]
SessionConfig(slot) == IF slot.mixnode THEN MixnodeSession ELSE NonMixnodeSession

\* kx_store: public_for_session and session_exchange succeed iff not discarded
KxAvailable(idx) == idx >= kxDiscardedBefore

-----------------------------------------------------------------------------
(* What the caller's queries return.                                       *)

\* reserved_peer_addresses(): the topologies of the Full sessions
ReservedPeers ==
    UNION {IF slots[rel].state = "Full" THEN {IndexOf(rel, status.index)} ELSE {} : rel \in Rels}

\* next_forward_packet_deadline(): the head of the min-heap
NextForwardDeadline ==
    IF fwdQueue = <<>> THEN None
    ELSE Min({fwdQueue[i].deadline : i \in DOMAIN fwdQueue})

\* The sessions that generate authored packets in the current phase
CoverSessions ==
    {rel \in Rels : slots[rel].state = "Full" /\ GenCoverPackets(status.phase, rel)}

\* next_authored_packet_delay(): the mean of the exponential it samples
NextAuthoredPeriod ==
    IF CoverSessions = {} THEN None
    ELSE Min({SessionConfig(slots[rel]).period : rel \in CoverSessions})


-----------------------------------------------------------------------------
(* Helpers for the collaborators' operations.                              *)

NoOut == "none"
Flags == {"RESERVED_PEERS", "NEXT_FORWARD_PACKET_DEADLINE", "NEXT_AUTHORED_PACKET_DEADLINE"}

\* History counters stop at 2: "more than once" is all the properties ask.
Bump(f, x) == [f EXCEPT ![x] = IF @ < 2 THEN @ + 1 ELSE 2]

\* ForwardPacketQueue::insert returns whether the head (min deadline) changed
HeadChanged(deadline) == fwdQueue = <<>> \/ deadline < NextForwardDeadline

\* SurbKeystore::insert, repeated: append fresh ids, evicting the oldest at capacity
KeystoreInsert(ks, first, count) ==
    LET all == ks \o [i \in 1..count |-> first + i - 1]
    IN IF Len(all) > SurbKeystoreCapacity
       THEN SubSeq(all, Len(all) - SurbKeystoreCapacity + 1, Len(all))
       ELSE all

\* fragment_blueprints: n fragments sharing num_surbs SURBs in any split
Splits(n, numSurbs) == {sp \in [1..n -> 0..numSurbs] : SumFunction(sp) = numSurbs}

RemainingCapacity(slot) == SessionConfig(slot).capacity - slot.queued

\* Mutant: the queue space check lets one fragment too many through.
FitsInQueueOffByOne(slot, n) == n <= RemainingCapacity(slot) + 1

\* post_request / post_reply: "fragment_blueprints.len() >
\* authored_packet_queue.remaining_capacity()" is NotEnoughSpaceInQueue
FitsInQueue(slot, n) == n <= RemainingCapacity(slot)
Push(rel, n) == [slots EXCEPT ![rel].queued = @ + n]

-----------------------------------------------------------------------------
(* Engine operations (impl Mixnet in mod.rs).                              *)

\* Both session slots Empty (Mixnet::new, and a reset on an index jump)
NoSessions == [Current |-> EmptySlot, Prev |-> EmptySlot]

\* Nothing forwarded or delivered yet, and no SURB keys used, per packet
\* (built with :> and @@ so that the counters are explicit functions)
ZeroCounts(S) == FoldSet(LAMBDA x, f : (x :> 0) @@ f, <<>>, S)
NotActed == ZeroCounts(ActPackets)
NoReplies == ZeroCounts(SurbIds)

Init ==
    /\ status = [index |-> 0, phase |-> "ConnectToCurrent"]
    /\ slots = NoSessions
    /\ kxDiscardedBefore = 0
    /\ fwdQueue = <<>>
    /\ keystore = <<>>
    /\ nextSurb = 0
    /\ invalidated = {}
    /\ held = 0
    /\ cacheReserved = NotCached
    /\ cacheForward = NotCached
    /\ cacheAuthored = NotCached
    /\ out = NoOut
    /\ acted = NotActed
    /\ replies = NoReplies
    /\ rewound = FALSE

\* Mutant: the previous session is kept although the phase no longer needs it.
DiscardPrevNever(shifted, ph) == shifted

\* set_session_status, "Discard sessions which are no longer needed"
DiscardPrev(shifted, ph) ==
    IF NeedPrev(ph) THEN shifted ELSE [shifted EXCEPT !["Prev"] = DisabledSlot]

\* set_session_status: shift by one, or clear on any other index change;
\* disable prev when not needed; discard old kx secrets; invalidate.
SetSessionStatus(i, ph) ==
    LET shifted ==
          IF i = status.index THEN slots
          ELSE IF i = status.index + 1
               THEN [Current |-> EmptySlot, Prev |-> slots["Current"]]
               ELSE NoSessions
    IN
    /\ [index |-> i, phase |-> ph] # status
    /\ slots' = DiscardPrev(shifted, ph)
    /\ kxDiscardedBefore' =
          Max({kxDiscardedBefore, IF NeedPrev(ph) THEN i - 1 ELSE i})
    /\ invalidated' = invalidated \cup {"RESERVED_PEERS", "NEXT_AUTHORED_PACKET_DEADLINE"}
    /\ status' = [index |-> i, phase |-> ph]
    /\ rewound' = (rewound \/ i < status.index)
    /\ out' = NoOut
    /\ UNCHANGED <<fwdQueue, keystore, nextSurb, callerVars, acted, replies>>

\* Mutant: the new session is built without raising the invalidation flags.
BuildSessionQuietly(rel, produced) ==
    /\ slots' = [slots EXCEPT ![rel] =
          [EmptySlot EXCEPT !.state = "Full", !.mixnode = (produced = "Mixnode")]]
    /\ UNCHANGED invalidated

\* maybe_set_mixnodes, "Build Session struct": a Full slot with the role's
\* queue and a fresh replay filter; reserved peers and the authored
\* deadline are invalidated.
BuildSession(rel, produced) ==
    /\ slots' = [slots EXCEPT ![rel] =
          [EmptySlot EXCEPT !.state = "Full", !.mixnode = (produced = "Mixnode")]]
    /\ invalidated' = invalidated \cup {"RESERVED_PEERS", "NEXT_AUTHORED_PACKET_DEADLINE"}

\* Mutant: only a Full slot is left alone, so a Disabled one is rebuilt.
SlotIsEmptyOrDisabled(slot) == slot.state # "Full"

\* "Create the Session only if the slot is empty. If the slot is disabled,
\* don't even try."
SlotIsEmpty(slot) == slot.state = "Empty"

\* (A producer returning Err leaves the slot Empty: a stutter, not modelled.)
\* maybe_set_mixnodes, for an Empty slot, when the producer returns Ok with
\* too few mixnodes, with the local kx key discarded, or without a config
\* for the local role: the slot becomes Disabled.  Otherwise it becomes Full.
MaybeSetMixnodes(rel, produced) ==
    LET idx == IndexOf(rel, status.index)
        disabled ==
          \/ produced = "TooFew"
          \/ ~KxAvailable(idx)
          \/ produced = "NonMixnode" /\ NonMixnodeSession = NoConfig
    IN
    /\ SlotIsEmpty(slots[rel])
    /\ IF disabled
       THEN /\ slots' = [slots EXCEPT ![rel] = DisabledSlot]
            /\ UNCHANGED invalidated
       ELSE BuildSession(rel, produced)
    /\ out' = NoOut
    /\ UNCHANGED <<status, kxDiscardedBefore, fwdQueue, keystore, nextSurb,
                   callerVars, acted, replies, rewound>>


\* handle_packet: try each Full session, current first.  A packet whose key
\* is in that session's replay filter stops the search; a missing secret or
\* a bad MAC tries the other session; any other peel error stops it.
TryOrder == <<"Current", "Prev">>
PeelResult(p, rel) ==
    LET idx == IndexOf(rel, status.index) IN
    CASE slots[rel].state # "Full"                -> "Skip"
      [] p \in slots[rel].filter                  -> "Replay"
      [] ~KxAvailable(idx) \/ p.sess # idx        -> "Skip"
      [] p.act = "Bad"                            -> "Malformed"
      [] OTHER                                    -> "Peeled"
PeelTried(p) == SelectInSeq(TryOrder, LAMBDA r : PeelResult(p, r) # "Skip")
Peeled(p, rel) ==
    /\ PeelTried(p) # 0
    /\ rel = TryOrder[PeelTried(p)]
    /\ PeelResult(p, rel) = "Peeled"

\* A packet dropped with nothing changed: not peeled by any session, found
\* in a replay filter, malformed, or peeled to DeliverCover.
Dropped ==
    /\ out' = NoOut
    /\ UNCHANGED <<engineVars, callerVars, acted, replies, rewound>>

HandleUnpeeled(p) ==
    /\ ~\E rel \in Rels : Peeled(p, rel)
    /\ Dropped

\* Mutant: the packet's key is not recorded in the replay filter.
InsertReplayFilterNot(rel, p) == UNCHANGED slots

\* session.replay_filter.insert(kx_public(packet)), done for ForwardTo and
\* DeliverRequest after the is_mixnode check
InsertReplayFilter(rel, p) == slots' = [slots EXCEPT ![rel].filter = @ \cup {p}]

\* Action::ForwardTo: only as a mixnode of the session and with room in the
\* forward queue; then the replay filter is updated, and the packet queued
\* unless its target does not map to a peer id.
ForwardTo(p, rel) ==
    \/ /\ ~slots[rel].mixnode
       /\ Dropped
    \/ /\ slots[rel].mixnode
       /\ Len(fwdQueue) = ForwardQueueCapacity
       /\ Dropped
    \/ /\ slots[rel].mixnode
       /\ Len(fwdQueue) < ForwardQueueCapacity
       /\ InsertReplayFilter(rel, p)
       /\ \/ UNCHANGED <<fwdQueue, invalidated, acted>>
          \/ LET deadline == p.delay IN
             /\ fwdQueue' = Append(fwdQueue, [pkt |-> p, deadline |-> deadline])
             /\ invalidated' = IF HeadChanged(deadline)
                               THEN invalidated \cup {"NEXT_FORWARD_PACKET_DEADLINE"}
                               ELSE invalidated
             /\ acted' = Bump(acted, p)
       /\ out' = NoOut
       /\ UNCHANGED <<status, kxDiscardedBefore, keystore, nextSurb, callerVars,
                      replies, rewound>>

\* Action::DeliverRequest: only as a mixnode; the replay filter is updated
\* and the fragment goes to the assembler, which may complete a message
\* handing the caller `got` SURBs.
DeliverRequest(p, rel) ==
    \/ /\ ~slots[rel].mixnode
       /\ Dropped
    \/ /\ slots[rel].mixnode
       /\ InsertReplayFilter(rel, p)
       /\ acted' = Bump(acted, p)
       /\ \E got \in 0..(MaxHeldSurbs - held) : held' = held + got
       /\ out' = NoOut
       /\ UNCHANGED <<status, kxDiscardedBefore, fwdQueue, keystore, nextSurb,
                      invalidated, cacheReserved, cacheForward, cacheAuthored,
                      replies, rewound>>

\* Mutant: the keystore entry is removed only when decryption succeeds.
ConsumeSurbOnSuccess(ks, id, decrypted) == IF decrypted THEN Remove(ks, id) ELSE ks

\* entry.remove(), after decrypting, whatever the outcome: the SURB id is
\* not recognised again
ConsumeSurb(ks, id, decrypted) == Remove(ks, id)

\* Action::DeliverReply: no replay filter; an unknown SURB id is dropped;
\* otherwise the keystore entry is removed whether or not decryption succeeds.
DeliverReply(p) ==
    \/ /\ p.surb \notin ToSet(keystore)
       /\ Dropped
    \/ /\ p.surb \in ToSet(keystore)
       /\ \E decrypted \in BOOLEAN :
             keystore' = ConsumeSurb(keystore, p.surb, decrypted)
       /\ replies' = Bump(replies, p.surb)
       /\ out' = NoOut
       /\ UNCHANGED <<status, slots, kxDiscardedBefore, fwdQueue, nextSurb,
                      invalidated, callerVars, acted, rewound>>

HandlePacket(p) ==
    \/ HandleUnpeeled(p)
    \/ \E rel \in Rels :
          /\ Peeled(p, rel)
          /\ \/ p.act = "Forward" /\ ForwardTo(p, rel)
             \/ p.act = "Request" /\ DeliverRequest(p, rel)
             \/ p.act = "Reply"   /\ DeliverReply(p)
             \/ p.act = "Cover"   /\ Dropped

\* Mutant: popping does not invalidate the forward deadline.
InvalidateForwardDeadlineNot == UNCHANGED invalidated

\* self.invalidated |= Invalidated::NEXT_FORWARD_PACKET_DEADLINE
InvalidateForwardDeadline ==
    invalidated' = invalidated \cup {"NEXT_FORWARD_PACKET_DEADLINE"}

\* pop_next_forward_packet: always invalidates the deadline; pops a packet
\* with the least deadline (the heap's tie-break is unspecified).
PopNextForwardPacket ==
    /\ InvalidateForwardDeadline
    /\ \/ fwdQueue = <<>> /\ UNCHANGED fwdQueue
       \/ \E i \in DOMAIN fwdQueue :
             /\ fwdQueue[i].deadline = NextForwardDeadline
             /\ fwdQueue' = RemoveAt(fwdQueue, i)
    /\ out' = NoOut
    /\ UNCHANGED <<status, slots, kxDiscardedBefore, keystore, nextSurb,
                   callerVars, acted, replies, rewound>>


\* Mutant: popping does not invalidate the authored deadline.
InvalidateAuthoredDeadlineNot == UNCHANGED invalidated

\* self.invalidated |= Invalidated::NEXT_AUTHORED_PACKET_DEADLINE
InvalidateAuthoredDeadline ==
    invalidated' = invalidated \cup {"NEXT_AUTHORED_PACKET_DEADLINE"}

\* Mutant: the queue pop checks whether requests are allowed on the
\* current session instead of the chosen one.
PopsQueuedWrongSession(rel, loop) ==
    ~loop /\ AllowRequestsAndReplies(status.phase, "Current") /\ slots[rel].queued > 0

\* pop_next_authored_packet, the drop branch: the head of the chosen
\* session's authored queue is sent if requests and replies are allowed on
\* it and the queue is non-empty; otherwise a drop cover packet.
PopsQueued(rel, loop) ==
    ~loop /\ AllowRequestsAndReplies(status.phase, rel) /\ slots[rel].queued > 0

\* pop_next_authored_packet with session `rel` picked (randomly, by rate)
\* and `loop` the loop-cover coin: invalidate the authored deadline, then
\* send loop cover, the queue head, or drop cover.
PopAuthoredFrom(rel, loop) ==
    /\ rel \in CoverSessions
    /\ InvalidateAuthoredDeadline
    /\ cacheAuthored' = IF cacheAuthored = NotCached THEN NotCached
                        ELSE [cacheAuthored EXCEPT !.spent = TRUE]
    /\ IF PopsQueued(rel, loop)
       THEN slots' = [slots EXCEPT ![rel].queued = @ - 1]
       ELSE UNCHANGED slots
    /\ out' = NoOut
    /\ UNCHANGED <<status, kxDiscardedBefore, fwdQueue, keystore, nextSurb,
                   held, cacheReserved, cacheForward, acted, replies, rewound>>

\* pop_next_authored_packet: with no session generating packets, None and
\* nothing else.
PopNextAuthoredPacket ==
    \/ /\ CoverSessions = {}
       /\ out' = NoOut
       /\ UNCHANGED <<engineVars, callerVars, acted, replies, rewound>>
    \/ \E rel \in Rels, loop \in BOOLEAN : PopAuthoredFrom(rel, loop)

\* post_session: the session must be current or previous (wrapping_sub),
\* open to requests and replies in this phase, and Full.
RelOf(idx) == IF status.index - idx = 0 THEN "Current" ELSE "Prev"
PostSession(idx) ==
    CASE status.index - idx \notin {0, 1}                         -> "BadSessionIndex"
      [] ~AllowRequestsAndReplies(status.phase, RelOf(idx))       -> "RequestsAndRepliesBlocked"
      [] slots[RelOf(idx)].state = "Empty"                        -> "SessionEmpty"
      [] slots[RelOf(idx)].state = "Disabled"                     -> "SessionDisabled"
      [] OTHER                                                    -> "Ok"

PostFails(op) ==
    /\ out' = IF op = "post_request" THEN "Err" ELSE NoOut
    /\ UNCHANGED <<engineVars, callerVars, acted, replies, rewound>>

\* post_request(destination, data, num_surbs): n fragment blueprints;
\* destination is <<>> (None) or <<session_index>>.  After the up-front
\* checks, fragments are built and pushed one by one; building fragment
\* `failAt` may fail (Topology) after `j` of its SURBs got keystore entries,
\* leaving the earlier fragments queued and all those entries in place.
PostRequest(dest, n, numSurbs) ==
    LET idx == IF dest = <<>>
               THEN IndexOf(DefaultRequestSession(status.phase), status.index)
               ELSE dest[1]
        rel == RelOf(idx)
        op == "post_request"
    IN
    \/ /\ n > MaxFragmentsPerMessage
       /\ PostFails(op)
    \/ /\ n <= MaxFragmentsPerMessage
       /\ PostSession(idx) # "Ok"
       /\ PostFails(op)
    \/ /\ n <= MaxFragmentsPerMessage
       /\ PostSession(idx) = "Ok"
       /\ ~FitsInQueue(slots[rel], n)
       /\ PostFails(op)
    \/ /\ n <= MaxFragmentsPerMessage
       /\ PostSession(idx) = "Ok"
       /\ FitsInQueue(slots[rel], n)
       /\ \/ PostFails(op)   \* RequestBuilder::new
          \/ \E split \in Splits(n, numSurbs), failAt \in 1..(n + 1) :
                LET pushed == failAt - 1 IN
                \E j \in IF failAt = n + 1 THEN {0} ELSE 0..split[failAt] :
                   LET inserted == SumFunctionOnSet(split, 1..pushed) + j IN
                   /\ nextSurb + inserted <= NumSurbIds
                   /\ keystore' = KeystoreInsert(keystore, nextSurb, inserted)
                   /\ nextSurb' = nextSurb + inserted
                   /\ slots' = Push(rel, pushed)
                   /\ out' = IF failAt = n + 1 THEN "Ok" ELSE "Err"
                   /\ UNCHANGED <<status, kxDiscardedBefore, fwdQueue, invalidated,
                                  callerVars, acted, replies, rewound>>

\* Mutant: every SURB the message needs is popped up front.
SurbsPoppedAll(failAt, n) == n

\* surbs.pop() per fragment, before completing it: when fragment failAt
\* fails, failAt SURBs are gone; on success (failAt = n + 1) all n.
SurbsPopped(failAt, n) == Min({failAt, n})

\* post_reply(surbs, session_index, ...): n fragment blueprints, one SURB
\* popped per fragment; completing fragment `failAt` may fail (BadSurb, or
\* Topology mapping the first hop) after its SURB was popped, leaving the
\* earlier fragments queued.
PostReply(idx, n) ==
    LET rel == RelOf(idx)
        op == "post_reply"
    IN
    \/ /\ n > Min({MaxFragmentsPerMessage, held})
       /\ PostFails(op)
    \/ /\ n <= Min({MaxFragmentsPerMessage, held})
       /\ PostSession(idx) # "Ok"
       /\ PostFails(op)
    \/ /\ n <= Min({MaxFragmentsPerMessage, held})
       /\ PostSession(idx) = "Ok"
       /\ ~FitsInQueue(slots[rel], n)
       /\ PostFails(op)
    \/ /\ n <= Min({MaxFragmentsPerMessage, held})
       /\ PostSession(idx) = "Ok"
       /\ FitsInQueue(slots[rel], n)
       /\ \E failAt \in 1..(n + 1) :
             /\ held' = held - SurbsPopped(failAt, n)
             /\ slots' = Push(rel, failAt - 1)
             /\ out' = NoOut
       /\ UNCHANGED <<status, kxDiscardedBefore, fwdQueue, keystore, nextSurb,
                      invalidated, cacheReserved, cacheForward, cacheAuthored,
                      acted, replies, rewound>>

\* take_invalidated: read and clear the flags; the caller drops the cached
\* values the flags mark as stale.
TakeInvalidated ==
    /\ invalidated' = {}
    /\ cacheReserved' = IF "RESERVED_PEERS" \in invalidated THEN NotCached ELSE cacheReserved
    /\ cacheForward' = IF "NEXT_FORWARD_PACKET_DEADLINE" \in invalidated
                       THEN NotCached ELSE cacheForward
    /\ cacheAuthored' = IF "NEXT_AUTHORED_PACKET_DEADLINE" \in invalidated
                        THEN NotCached ELSE cacheAuthored
    /\ out' = NoOut
    /\ UNCHANGED <<status, slots, kxDiscardedBefore, fwdQueue, keystore, nextSurb,
                   held, acted, replies, rewound>>

-----------------------------------------------------------------------------
(* The caller's queries, cached until take_invalidated drops them.       *)

QueryReservedPeers ==
    /\ "RESERVED_PEERS" \in CallerCaches
    /\ cacheReserved' = ReservedPeers
    /\ UNCHANGED <<engineVars, held, cacheForward, cacheAuthored, histVars>>

QueryForwardDeadline ==
    /\ "NEXT_FORWARD_PACKET_DEADLINE" \in CallerCaches
    /\ cacheForward' = NextForwardDeadline
    /\ UNCHANGED <<engineVars, held, cacheReserved, cacheAuthored, histVars>>

\* The caller arms a timer from the returned delay; `spent` records that
\* the timer has fired and the packet for it was popped.
QueryAuthoredDelay ==
    /\ "NEXT_AUTHORED_PACKET_DEADLINE" \in CallerCaches
    /\ cacheAuthored' = [period |-> NextAuthoredPeriod, spent |-> FALSE]
    /\ UNCHANGED <<engineVars, held, cacheReserved, cacheForward, histVars>>

-----------------------------------------------------------------------------

Next ==
    \/ \E i \in Indices, ph \in Phases :
          /\ CallerRewinds \/ i >= status.index
          /\ SetSessionStatus(i, ph)
    \/ \E rel \in Rels, produced \in {"TooFew", "Mixnode", "NonMixnode"} :
          MaybeSetMixnodes(rel, produced)
    \/ \E p \in Packets : HandlePacket(p)
    \/ PopNextForwardPacket
    \/ PopNextAuthoredPacket
    \/ \E dest \in {<<>>} \cup {<<i>> : i \in Indices},
          n \in 1..(MaxFragmentsPerMessage + 1), numSurbs \in 0..MaxNumSurbs :
          PostRequest(dest, n, numSurbs)
    \/ \E idx \in Indices, n \in 1..(MaxFragmentsPerMessage + 1) : PostReply(idx, n)
    \/ TakeInvalidated
    \/ QueryReservedPeers
    \/ QueryForwardDeadline
    \/ QueryAuthoredDelay

Spec == Init /\ [][Next]_vars

(* The caller calls pop_next_authored_packet each time the delay from      *)
(* next_authored_packet_delay expires, and that call picks each            *)
(* cover-generating session with positive probability and takes the drop   *)
(* branch with probability 1 - loop_cover_proportion, taken to be below 1. *)
(* So every outcome that stays possible eventually happens: weak fairness  *)
(* of each drop-branch pop.  Nothing else is assumed fair: status changes, *)
(* packets and posts come from the environment.                            *)
Fairness == \A rel \in Rels : WF_vars(PopAuthoredFrom(rel, FALSE))

FairSpec == Spec /\ Fairness

-----------------------------------------------------------------------------
(* Properties.                                                             *)

Slot == [state : {"Empty", "Disabled", "Full"}, mixnode : BOOLEAN,
         queued : Nat, filter : SUBSET ActPackets]

\* Types, and every authored packet queue within its configured capacity
\* (post_request and post_reply check the whole message fits before pushing).
TypeOK ==
    /\ status \in [index : Indices, phase : Phases]
    /\ slots \in [Rels -> Slot]
    /\ \A rel \in Rels : slots[rel].state = "Full" =>
          slots[rel].queued <= SessionConfig(slots[rel]).capacity
    /\ kxDiscardedBefore \in -1..MaxIndex
    /\ Len(fwdQueue) <= ForwardQueueCapacity
    /\ ToSet(fwdQueue) \subseteq [pkt : ActPackets, deadline : Nat]
    /\ Len(keystore) <= SurbKeystoreCapacity /\ ToSet(keystore) \subseteq SurbIds
    /\ nextSurb \in 0..NumSurbIds
    /\ invalidated \subseteq Flags
    /\ held \in 0..MaxHeldSurbs
    /\ acted \in [ActPackets -> 0..2] /\ replies \in [SurbIds -> 0..2]

\* Replay immunity (handle_packet): no Forward or DeliverRequest packet is
\* acted on twice, as long as the session index never went backwards.
\* Needs the replay filter to be written on the right path and carried
\* across rotation by advance_by_one.
ReplayImmunity ==
    rewound \/ \A p \in ActPackets : acted[p] <= 1

\* Replay immunity without the proviso: a status update that lowers the
\* index clears the sessions, and a session rebuilt for an index whose kx
\* secret is still held starts with an empty replay filter.
ReplayImmunityAlways ==
    \A p \in ActPackets : acted[p] <= 1

\* SURBs are single use (DeliverReply): the keys of a keystore entry are
\* used for at most one decryption, however often the reply packet is
\* replayed and whether or not that decryption succeeded (a reply that
\* fails to decrypt must not leave the entry for a second try).
SurbSingleUse ==
    \A s \in SurbIds : replies[s] <= 1

\* A Full session's key-exchange secret is never discarded while the session
\* is kept: set_session_status must disable the previous session exactly
\* when the kx store discards its secret.
FullSessionsHaveKeys ==
    \A rel \in Rels : slots[rel].state = "Full" => KxAvailable(IndexOf(rel, status.index))

\* The caller's cached results are current unless the invalidation flag for
\* them is raised (the Invalidated contract, mod.rs 134-148).
ReservedPeersFresh ==
    cacheReserved # NotCached /\ "RESERVED_PEERS" \notin invalidated
        => cacheReserved = ReservedPeers

ForwardDeadlineFresh ==
    cacheForward # NotCached /\ "NEXT_FORWARD_PACKET_DEADLINE" \notin invalidated
        => cacheForward = NextForwardDeadline

AuthoredDeadlineFresh ==
    cacheAuthored # NotCached /\ "NEXT_AUTHORED_PACKET_DEADLINE" \notin invalidated
        => cacheAuthored = [period |-> NextAuthoredPeriod, spent |-> FALSE]

\* A session that can carry requests and keeps packets in its authored
\* queue has that queue served: pop_next_authored_packet must pick the
\* right session and check allow_requests_and_replies for that session.
\* (Packets of a session whose phase stops allowing requests are not
\* covered: they are stranded by design until the session is dropped.)
Stranded(rel) ==
    /\ slots[rel].state = "Full" /\ slots[rel].queued > 0
    /\ AllowRequestsAndReplies(status.phase, rel)

AuthoredQueuesServed ==
    \A rel \in Rels :
        <>[]Stranded(rel) => []<><<slots'[rel].queued < slots[rel].queued>>_vars

\* post_reply loses at most one SURB to a failure (spec 8 property 5:
\* only the SURBs popped before the failure point): every SURB taken from
\* the caller's list is for a fragment now in an authored queue, except
\* the one of the fragment whose completion failed.
QueuedTotal(sl) == sl["Current"].queued + sl["Prev"].queued

PostReplyLosesAtMostOneSurb ==
    [][held' < held => held - held' <= QueuedTotal(slots') - QueuedTotal(slots) + 1]_vars

\* post_request is all or nothing (spec 4.4 step 4, "never partial
\* enqueue"): a call that returns an error pushes nothing into any authored
\* packet queue.
PostRequestAllOrNothing ==
    [][out' = "Err" => UNCHANGED slots]_vars

\* Round trip (spec 8 property 6: a request with K SURBs, K within the
\* per-message maximum, gets replies through all K): when post_request
\* returns Ok, every SURB keystore entry it registered is still there.
\* The keystore insert in post_request evicts the oldest entry at capacity,
\* and nothing compares num_surbs with surb_keystore_capacity.
RequestSurbsLive ==
    [][out' = "Ok" => \A s \in nextSurb..(nextSurb' - 1) : s \in ToSet(keystore')]_vars

-----------------------------------------------------------------------------
(* Refinement: the Current/Prev slots implement SessionLifecycle, the life *)
(* of each session by absolute index.  A slot's session is the one at      *)
(* status.index (Current) or status.index - 1 (Prev); every other index    *)
(* below the current one is Gone, every index above it Future.             *)

SlotLife(slot) ==
    CASE slot.state = "Empty"    -> "Pending"
      [] slot.state = "Full"     -> "Active"
      [] slot.state = "Disabled" -> "Disabled"

LifeOf ==
    [i \in Indices |->
        IF i > status.index THEN "Future"
        ELSE IF i = IndexOf("Current", status.index) THEN SlotLife(slots["Current"])
        ELSE IF i = IndexOf("Prev", status.index) THEN SlotLife(slots["Prev"])
        ELSE "Gone"]

FilterOf ==
    [i \in Indices |->
        IF i = IndexOf("Current", status.index) THEN slots["Current"].filter
        ELSE IF i = IndexOf("Prev", status.index) THEN slots["Prev"].filter
        ELSE {}]

Lifecycle == INSTANCE SessionLifecycle WITH life <- LifeOf, filter <- FilterOf, Keys <- ActPackets

\* With a caller whose session index never goes down (the chain's), the
\* engine's slot shifting (set_session_status: advance_by_one, reset,
\* disabling prev) and slot filling (maybe_set_mixnodes only fills an Empty
\* slot) give every session one life, in order, with a replay filter that
\* is never reset while the session accepts packets.
SessionLifecycleRefined == Lifecycle!Spec

====
