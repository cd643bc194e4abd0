------------------------------ MODULE RealmLock ------------------------------
(***************************************************************************)
(* What the database lock promises the operations that use it: one owner   *)
(* at a time, a term that names one uninterrupted ownership, and a grant   *)
(* to somebody else only when the owner gave the lock up or let its whole  *)
(* duration pass.  TargetLock implements it; MigrationApply and            *)
(* SchemaLifecycle rely on it.                                             *)
(***************************************************************************)
EXTENDS Integers

CONSTANTS
    Owners,     \* operations that may own the lock
    NoOwner,
    Longest     \* the longest duration an owner may ask for

VARIABLES
    owner,      \* who owns the lock
    term,       \* which ownership this is
    rest,       \* how long the ownership still lasts without a renewal
    issued      \* terms handed out so far

realmVars == <<owner, term, rest, issued>>

RealmInit ==
    /\ owner = NoOwner
    /\ term = 0
    /\ rest = 0
    /\ issued = 0

\* Somebody takes a lock nobody owns, or one its owner let lapse.
Grant(o, d) ==
    /\ owner = NoOwner \/ rest = 0
    /\ owner' = o
    /\ issued' = issued + 1
    /\ term' = issued'
    /\ rest' = d

\* The owner asks again: the same ownership, for a whole duration.
Renew(o, d) ==
    /\ owner = o
    /\ rest' = d
    /\ UNCHANGED <<owner, term, issued>>

\* The ownership ends: the owner released it, or the Lease was deleted.
Free ==
    /\ owner # NoOwner
    /\ owner' = NoOwner
    /\ term' = 0
    /\ rest' = 0
    /\ UNCHANGED issued

RealmTick ==
    /\ rest' = IF rest > 0 THEN rest - 1 ELSE 0
    /\ UNCHANGED <<owner, term, issued>>

RealmNext ==
    \/ \E o \in Owners, d \in 1..Longest : Grant(o, d) \/ Renew(o, d)
    \/ Free
    \/ RealmTick

RealmSpec == RealmInit /\ [][RealmNext]_realmVars
=============================================================================
