------------------------------ MODULE MCMixnet ------------------------------
(* Model-checking instance of Mixnet: session indices 0..2 so that the     *)
(* caller can advance by one, jump by two and go back; a mixnode and a     *)
(* non-mixnode session config with different capacities and periods.       *)
EXTENDS Mixnet

MCMixnodeSession == [capacity |-> 2, period |-> 1]
\* The post_reply run: a mixnode queue that takes a three-fragment reply.
MCMixnodeSession3 == [capacity |-> 3, period |-> 1]
MCNonMixnodeSession == [capacity |-> 1, period |-> 2]

\* The sessions run: one forwarding delay, no caller caches.
MCDelaysOne == {0}
MCCachesNone == {}

\* The invalidation runs: deadlines that tie and differ, one cache each.
MCDelaysTwo == {0, 1}
MCCachesReserved == {"RESERVED_PEERS"}
MCCachesForward == {"NEXT_FORWARD_PACKET_DEADLINE"}
MCCachesAuthored == {"NEXT_AUTHORED_PACKET_DEADLINE"}
MCSmallMixnodeSession == [capacity |-> 1, period |-> 1]

\* With no caller caches nothing reads the Invalidated flags or the last
\* post_request result, so states differing only there are merged.
\* For the invalidation run: the history variables are read by no property
\* checked there and by no guard, so they are left out of the view.
MCViewCaches ==
    <<status, slots, kxDiscardedBefore, fwdQueue, keystore, nextSurb, held,
      invalidated, cacheReserved, cacheForward, cacheAuthored>>
\* For the post_reply run: its property reads held and the authored queues;
\* the history variables, caches and invalidation bits feed no guard.
MCViewPostReply ==
    <<status, slots, kxDiscardedBefore, fwdQueue, keystore, nextSurb, held>>
\* For the surbs run: SurbSingleUse reads the replies history; the other
\* history variables, the caches and the invalidation bits feed no guard.
MCViewSurbs ==
    <<status, slots, kxDiscardedBefore, fwdQueue, keystore, nextSurb, held, replies>>
====
