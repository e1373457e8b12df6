----------------------------- MODULE ForwardPath -----------------------------
(***************************************************************************)
(* The forward path of the mixnet engine (src/src/core/mod.rs) against a   *)
(* clock, with the caller's forward timer.                                 *)
(*                                                                         *)
(* handle_packet peels a Forward packet and queues it at                   *)
(* Instant::now() + delay in forward_packet_queue, a bounded min-heap;     *)
(* when the insert changes the heap's head it raises                       *)
(* NEXT_FORWARD_PACKET_DEADLINE.  The caller arms one timer at the         *)
(* deadline next_forward_packet_deadline returns, re-arms it when          *)
(* take_invalidated reports that bit, and calls pop_next_forward_packet    *)
(* when the timer fires.                                                   *)
(*                                                                         *)
(* Session and replay handling, which decide whether a packet gets here,   *)
(* are in Mixnet.tla; this module starts where ForwardTo has passed the    *)
(* mixnode check.  A queued packet is its deadline.  Time is discrete, and *)
(* the caller reacts to a raised bit before the clock moves on.            *)
(*                                                                         *)
(* Times are kept relative to now: a deadline is how many ticks remain     *)
(* until it, and a tick lowers every one of them.  Only the distances      *)
(* between deadlines and now matter to the engine and the caller, so the   *)
(* model covers all time with finitely many states.  -1 stands for any     *)
(* time already past.                                                      *)
(***************************************************************************)
EXTENDS Naturals, Sequences, SequencesExt, FiniteSetsExt

CONSTANTS
    ForwardQueueCapacity, \* config.forward_packet_queue_capacity
    Delays,               \* forwarding delays a Forward header may carry, in ticks
    CallerPopsEarly,      \* whether the caller may pop before its timer fires
    None                  \* model value: next_forward_packet_deadline returned None

ASSUME ForwardQueueCapacity \in Nat \ {0} /\ Delays \subseteq Nat
ASSUME CallerPopsEarly \in BOOLEAN

VARIABLES
    fwdQueue,     \* self.forward_packet_queue: deadlines, in insertion order
    invalidated,  \* the NEXT_FORWARD_PACKET_DEADLINE bit of self.invalidated
    timer,        \* the caller's armed deadline, or None
    lastPopped    \* history: deadline of the last packet popped, -1 before any

vars == <<fwdQueue, invalidated, timer, lastPopped>>

-----------------------------------------------------------------------------
(* The forward packet queue (packet_queues.rs, spec 4.7).                  *)

\* ForwardPacketQueue::next_deadline, i.e. next_forward_packet_deadline()
NextDeadline == IF fwdQueue = <<>> THEN None ELSE Min(ToSet(fwdQueue))

\* Mutant: insert reports a head change only into an empty queue.
HeadChangedOnlyWhenEmpty(deadline) == fwdQueue = <<>>

\* ForwardPacketQueue::insert returns whether the head changed
HeadChanged(deadline) == fwdQueue = <<>> \/ deadline < NextDeadline

Init ==
    /\ fwdQueue = <<>>
    /\ invalidated = FALSE
    /\ timer = None
    /\ lastPopped = -1

-----------------------------------------------------------------------------
(* Engine operations.                                                      *)

\* Mutant: the capacity check lets one packet too many in.
HasRoomOffByOne == Len(fwdQueue) <= ForwardQueueCapacity

\* forward_packet_queue.remaining_capacity() != 0
HasRoom == Len(fwdQueue) < ForwardQueueCapacity

\* handle_packet, Action::ForwardTo after the mixnode check: dropped when the
\* queue is full; otherwise (after the replay-filter insert) a target that
\* maps to no peer id is dropped, and any other packet is queued at
\* Instant::now() + delay, raising the bit if it became the head.
ForwardTo(delay) ==
    \/ /\ ~HasRoom
       /\ UNCHANGED vars
    \/ /\ HasRoom
       /\ \/ UNCHANGED vars   \* target_to_peer_id failed
          \/ LET deadline == delay IN
             /\ fwdQueue' = Append(fwdQueue, deadline)
             /\ invalidated' = (invalidated \/ HeadChanged(deadline))
             /\ UNCHANGED <<timer, lastPopped>>

\* Mutant: the heap pops in insertion order.
PopMinFifo == {1} \cap DOMAIN fwdQueue

\* ForwardPacketQueue::pop: a packet with the least deadline (ties in any
\* order)
PopMin == {i \in DOMAIN fwdQueue : fwdQueue[i] = NextDeadline}

\* pop_next_forward_packet: raise the bit, pop the head if any.  The caller
\* calls it when its timer fires (the timer is then spent), or at any time
\* if CallerPopsEarly.
PopNextForwardPacket ==
    /\ CallerPopsEarly \/ IF timer = None THEN FALSE ELSE timer <= 0
    /\ invalidated' = TRUE
    /\ timer' = None
    /\ \/ fwdQueue = <<>> /\ UNCHANGED <<fwdQueue, lastPopped>>
       \/ \E i \in PopMin :
             /\ fwdQueue' = RemoveAt(fwdQueue, i)
             /\ lastPopped' = fwdQueue[i]

-----------------------------------------------------------------------------
(* The caller.                                                             *)

\* take_invalidated reports the bit: re-arm the timer from
\* next_forward_packet_deadline().
RearmTimer ==
    /\ invalidated
    /\ invalidated' = FALSE
    /\ timer' = NextDeadline
    /\ UNCHANGED <<fwdQueue, lastPopped>>

\* One tick later: every deadline is one tick nearer (down to "past").
Later(t) == IF t > -1 THEN t - 1 ELSE -1

\* Time passes, up to the armed timer, once the caller has taken the bit.
Tick ==
    /\ ~invalidated
    /\ IF timer = None THEN TRUE ELSE timer > 0
    /\ fwdQueue' = [i \in DOMAIN fwdQueue |-> Later(fwdQueue[i])]
    /\ timer' = IF timer = None THEN None ELSE Later(timer)
    /\ lastPopped' = Later(lastPopped)
    /\ UNCHANGED invalidated

Next ==
    \/ \E delay \in Delays : ForwardTo(delay)
    \/ PopNextForwardPacket
    \/ RearmTimer
    \/ Tick

Spec == Init /\ [][Next]_vars

-----------------------------------------------------------------------------
(* Properties.                                                             *)

TypeOK ==
    /\ fwdQueue \in Seq(-1..Max(Delays \cup {0}))
    /\ Len(fwdQueue) <= ForwardQueueCapacity
    /\ invalidated \in BOOLEAN
    /\ timer \in -1..Max(Delays \cup {0}) \cup {None}
    /\ lastPopped \in -1..Max(Delays \cup {0})

\* No forward packet is overdue: a caller that re-arms its timer whenever
\* take_invalidated reports NEXT_FORWARD_PACKET_DEADLINE pops every packet
\* by its deadline.  Needs ForwardPacketQueue::insert to report each new
\* head, and pop_next_forward_packet to raise the bit.
ForwardOnTime == \A i \in DOMAIN fwdQueue : fwdQueue[i] >= 0

\* Deadline monotonicity (spec 8 property 7): pop_next_forward_packet
\* returns packets in non-decreasing deadline order (both deadlines taken
\* relative to the time of the later pop).
DeadlineMonotone ==
    [][Len(fwdQueue') < Len(fwdQueue) => lastPopped' >= lastPopped]_vars

====
