---------------------------- MODULE LeaseProofs ----------------------------
(***************************************************************************)
(* What follows from the abstract lease, for any resources and clients.    *)
(***************************************************************************)
EXTENDS Lease, TLAPS

\* A client inside a resource holds its lease unless it is late, and only a client that
\* is inside can be late.
Holding ==
    /\ \A c \in Clients : inside[c] # None => (holder[inside[c]] = c <=> c \notin late)
    /\ \A c \in late : inside[c] # None

LeaseInv == LeaseTypeOK /\ Holding

LEMMA HoldingStep ==
    ASSUME None \notin Resources, None \notin Clients, LeaseInv, [LeaseNext]_leaseVars
    PROVE  LeaseInv'
<1> USE DEF LeaseInv, LeaseTypeOK, Holding
<1>1. CASE UNCHANGED leaseVars
  BY <1>1 DEF leaseVars
<1>2. ASSUME NEW c \in Clients, NEW r \in Resources, Acquire(c, r) PROVE LeaseInv'
  BY <1>2 DEF Acquire
<1>3. ASSUME NEW c \in Clients, NEW r \in Resources, Release(c, r) PROVE LeaseInv'
  BY <1>3 DEF Release
<1>4. ASSUME NEW c \in Clients, Abandon(c) PROVE LeaseInv'
  BY <1>4 DEF Abandon
<1>5. ASSUME NEW r \in Resources, RunOut(r) PROVE LeaseInv'
  BY <1>5 DEF RunOut
<1> QED
  BY <1>1, <1>2, <1>3, <1>4, <1>5 DEF LeaseNext

\* The promise of the lock: of two clients inside one resource, one has outlived its lease.
THEOREM LeasePromise ==
    ASSUME None \notin Resources, None \notin Clients
    PROVE  LeaseSpec => []LeaseExclusive
<1>1. LeaseInit => LeaseInv
  BY DEF LeaseInit, LeaseInv, LeaseTypeOK, Holding
<1>2. LeaseInv /\ [LeaseNext]_leaseVars => LeaseInv'
  BY HoldingStep
<1>3. LeaseInv => LeaseExclusive
  BY DEF LeaseInv, LeaseTypeOK, Holding, LeaseExclusive
<1> QED
  BY <1>1, <1>2, <1>3, PTL DEF LeaseSpec
=============================================================================
