-------------------------- MODULE SessionLifecycle --------------------------
(***************************************************************************)
(* What the engine promises about its sessions, named by absolute session  *)
(* index rather than by the Current/Prev slot that holds them.             *)
(*                                                                         *)
(* Each session index goes through its life once, in order:                *)
(*   Future  - not yet reached by the current index;                       *)
(*   Pending - its slot exists and waits for its mixnodes;                 *)
(*   Active  - the slot holds a Full session (topology, queue, filter);    *)
(*   Disabled - the slot is disabled for the rest of the session;          *)
(*   Gone    - the slot has been dropped.                                  *)
(* No session is ever rebuilt, and while a session is Active its replay    *)
(* filter only grows: a packet key it has recorded stays recorded for as   *)
(* long as the session can accept packets.                                 *)
(***************************************************************************)
CONSTANTS
    Indices,     \* the session indices
    Keys         \* the packet key-exchange public keys a filter may hold

VARIABLES
    life,        \* life[i]: where session i is in its life
    filter       \* filter[i]: the replay filter of session i, if Active

States == {"Future", "Pending", "Active", "Disabled", "Gone"}

\* The moves a session may make in one step (staying put is always allowed).
Moves ==
    {<<"Future", "Pending">>, <<"Future", "Disabled">>, <<"Future", "Gone">>,
     <<"Pending", "Active">>, <<"Pending", "Disabled">>, <<"Pending", "Gone">>,
     <<"Active", "Disabled">>, <<"Active", "Gone">>, <<"Disabled", "Gone">>}

MayBecome(from, to) == from = to \/ <<from, to>> \in Moves

TypeOK ==
    /\ life \in [Indices -> States]
    /\ filter \in [Indices -> SUBSET Keys]

Init ==
    /\ life = [i \in Indices |-> IF i = 0 THEN "Pending" ELSE "Future"]
    /\ filter = [i \in Indices |-> {}]

\* One step may move any number of sessions (a rotation moves two or three
\* at once), each along its own life.
SessionStep(i) ==
    /\ MayBecome(life[i], life'[i])
    /\ life'[i] = "Active" => filter[i] \subseteq filter'[i]
    /\ life'[i] # "Active" => filter'[i] = {}

Next == \A i \in Indices : SessionStep(i)

Spec == Init /\ [][Next]_<<life, filter>>

=============================================================================
