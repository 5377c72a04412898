------------------------------- MODULE Lease -------------------------------
(***************************************************************************)
(* What the store's lock promises its users (services/store.go, the        *)
(* comment on Store.TryLock): at most one owner, an owner that only time   *)
(* or the owner itself can take the lease from, and an extension only the  *)
(* owner can ask for.  It is the abstract specification that FileJob is     *)
(* shown to implement; nothing here is about jobs or their progress.       *)
(***************************************************************************)
EXTENDS Integers

CONSTANTS Replicas,   \* the processes that may own the lease
          TTL,        \* how long one acquisition or extension lasts, in ticks
          Nobody,     \* the value of owner when the key is free
          Orphan      \* the owner of a lease whose token nobody knows any more

VARIABLES owner,  \* whose token the lock key carries
          left    \* the ticks until the key expires, 0 when it is free

leaseVars == <<owner, left>>

LeaseInit == owner = Nobody /\ left = 0

Acquire(r) == owner = Nobody /\ owner' = r /\ left' = TTL

\* The acquisition was applied by the store but its answer was lost.
AcquireUnknown == owner = Nobody /\ owner' = Orphan /\ left' = TTL

Extend(r) == owner = r /\ left' = TTL /\ UNCHANGED owner

Release(r) == owner = r /\ owner' = Nobody /\ left' = 0

\* The owner is gone without releasing: the lease is left to expire.
Abandon(r) == owner = r /\ owner' = Orphan /\ UNCHANGED left

Elapse == /\ owner # Nobody
          /\ left' = left - 1
          /\ owner' = IF left = 1 THEN Nobody ELSE owner

LeaseNext == \/ AcquireUnknown
             \/ Elapse
             \/ \E r \in Replicas : Acquire(r) \/ Extend(r) \/ Release(r) \/ Abandon(r)

LeaseSpec == LeaseInit /\ [][LeaseNext]_leaseVars
=============================================================================
