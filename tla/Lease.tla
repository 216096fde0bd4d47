------------------------------- MODULE Lease -------------------------------
(***************************************************************************)
(* What a lock with a time to live promises, whoever implements it.        *)
(*                                                                         *)
(* A client that acquired a resource works "inside" it until it leaves.    *)
(* The lease may run out while the client is still inside: the client is   *)
(* then "late" and the resource is free for the next one.  A late client   *)
(* that finally releases must not take the lease away from its successor.  *)
(* common/utils/lock.py implements this promise with a Redis key, SET NX   *)
(* EX and a compare-and-delete script; EmbeddingTask is checked and proved *)
(* to implement it.                                                        *)
(***************************************************************************)

CONSTANTS Resources, Clients, None

VARIABLES
    holder,     \* resource -> the client the lease belongs to, or None
    inside,     \* client -> the resource it believes it owns, or None
    late        \* the clients whose lease ran out while they were inside

leaseVars == <<holder, inside, late>>

LeaseTypeOK ==
    /\ holder \in [Resources -> Clients \cup {None}]
    /\ inside \in [Clients -> Resources \cup {None}]
    /\ late \in SUBSET Clients

LeaseInit ==
    /\ holder = [r \in Resources |-> None]
    /\ inside = [c \in Clients |-> None]
    /\ late = {}

\* A free lease is granted at once.
Acquire(c, r) ==
    /\ inside[c] = None
    /\ holder[r] = None
    /\ holder' = [holder EXCEPT ![r] = c]
    /\ inside' = [inside EXCEPT ![c] = r]
    /\ UNCHANGED late

\* A punctual client frees its own lease, a late one leaves everybody's alone.
Release(c, r) ==
    /\ inside[c] = r
    /\ holder' = IF c \in late THEN holder ELSE [holder EXCEPT ![r] = None]
    /\ inside' = [inside EXCEPT ![c] = None]
    /\ late' = late \ {c}

\* The client is gone without releasing: the lease stays until it runs out.
Abandon(c) ==
    /\ inside[c] # None
    /\ inside' = [inside EXCEPT ![c] = None]
    /\ late' = late \ {c}
    /\ UNCHANGED holder

\* The time to live of a lease is over.
RunOut(r) ==
    /\ holder[r] # None
    /\ holder' = [holder EXCEPT ![r] = None]
    /\ late' = late \cup {c \in Clients : holder[r] = c /\ inside[c] = r}
    /\ UNCHANGED inside

LeaseNext ==
    \/ \E c \in Clients, r \in Resources : Acquire(c, r) \/ Release(c, r)
    \/ \E c \in Clients : Abandon(c)
    \/ \E r \in Resources : RunOut(r)

LeaseSpec == LeaseInit /\ [][LeaseNext]_leaseVars

\* The promise: of two clients inside one resource, one has outlived its lease.
LeaseExclusive ==
    \A c1, c2 \in Clients :
        /\ c1 # c2
        /\ inside[c1] # None
        /\ inside[c1] = inside[c2]
        => c1 \in late \/ c2 \in late
=============================================================================
