----------------------------- MODULE TargetLock -----------------------------
(***************************************************************************)
(* The Lease that serialises every operation on one database              *)
(* (internal/targetlock).  A Locker is the in-memory half of the protocol, *)
(* one per reconciler and manager process; a caller is one goroutine that  *)
(* asks a Locker for the Lease on behalf of a holder, the identity of one  *)
(* claimed operation.  Two callers may share a Locker (two resources of    *)
(* one manager) or a holder (an old and a new manager process working on   *)
(* the same claim).                                                        *)
(*                                                                         *)
(* Every API call is a step of its own, so anything may happen between the *)
(* read, the judgement and the compare-and-swap of one Acquire.  Time is   *)
(* kept as ages that saturate at Horizon: the code only ever compares an   *)
(* elapsed time with a Lease duration.                                     *)
(***************************************************************************)
EXTENDS Integers

CONSTANTS
    Holders,        \* operation identities (targetlock.Holder)
    NoHolder,       \* the empty holderIdentity of a released Lease
    Lockers,        \* Locker instances
    Callers,        \* goroutines calling Acquire and Release
    HolderOf,       \* [Callers -> Holders]
    LockerOf,       \* [Callers -> Lockers]
    DurationOf,     \* [Callers -> 1..Horizon], Request.Duration
    FirstEpoch,     \* [Holders -> {NoEpoch, Placeholder}], a new claim's epoch
    MaxAttempts,    \* maxAttempts
    Horizon,        \* ages saturate here: at least every duration
    MaxVersion,     \* bound: writes of the Lease
    MaxFaults       \* bound: restarts, failed calls and outside deletions

ASSUME LockConstants ==
    /\ NoHolder \notin Holders
    /\ HolderOf \in [Callers -> Holders]
    /\ LockerOf \in [Callers -> Lockers]
    /\ Horizon \in Nat
    /\ DurationOf \in [Callers -> 1..Horizon]
    /\ FirstEpoch \in [Holders -> {-1, 0}]
    /\ MaxAttempts \in Nat \ {0}
    /\ MaxVersion \in Nat
    /\ MaxFaults \in Nat

VARIABLES
    lease,      \* the Lease object in the API server
    age,        \* history: time since the last write of the Lease
    nextEpoch,  \* the next random acquisition epoch (newEpoch never repeats)
    obs,        \* per Locker: the foreign record it watches, and for how long
    call,       \* per caller: the Acquire or Release in flight
    persisted,  \* per holder: LeaseEpoch in the claim's status
    faults,     \* restarts, failures and deletions so far
    ended       \* history: epochs whose acquisition is over

vars == <<lease, age, nextEpoch, obs, call, persisted, faults, ended>>

-----------------------------------------------------------------------------
\* A claim that carries no epoch, and the token a new claim makes up before
\* it first asks: well-formed, and never the epoch of any Lease.
NoEpoch == -1
Placeholder == 0

\* The version is the resourceVersion: it grows with every write, a deletion
\* included, so it names the stored record exactly (leaseRecord).
Lease == [exists : BOOLEAN, holder : Holders \cup {NoHolder}, epoch : Nat,
          duration : 0..Horizon, version : Nat]

NoLease(v) == [exists |-> FALSE, holder |-> NoHolder, epoch |-> 0,
               duration |-> 0, version |-> v]

\* observations[key]: none, or the version watched and the time since
\* firstSeen.
NoObs == [set |-> FALSE, version |-> 0, age |-> 0]
Observation == [set : BOOLEAN, version : Nat, age : 0..Horizon]

\* A call in flight: where it is, Request.ExpectedEpoch, the Lease as this
\* attempt read it, the attempts that failed, and the AcquireResult.
Labels == {"idle", "get", "judge", "create", "update", "adopt", "getRelease",
           "clear"}
Call == [at : Labels, expected : Nat \cup {NoEpoch}, seen : Lease,
         attempts : Nat, epoch : Nat \cup {NoEpoch}, lost : BOOLEAN]
Running(label, e, l, n) ==
    [at |-> label, expected |-> e, seen |-> l, attempts |-> n,
     epoch |-> NoEpoch, lost |-> FALSE]
Granted(e, new, lost) ==
    [at |-> "adopt", expected |-> e, seen |-> NoLease(0), attempts |-> 0,
     epoch |-> new, lost |-> lost]
Idle == Running("idle", NoEpoch, NoLease(0), 0)

Foreign(c, l) == l.holder # NoHolder /\ l.holder # HolderOf[c]
Own(c, l) == l.holder = HolderOf[c]
Older(a) == IF a < Horizon THEN a + 1 ELSE a

\* Writing the Lease: a fresh version, and its age starts again.  The history
\* variable collects the epoch of an acquisition the write ends.
Tenured(l) == l.exists /\ l.holder # NoHolder
Write(l) ==
    /\ lease.version < MaxVersion
    /\ lease' = [l EXCEPT !.version = lease.version + 1]
    /\ age' = 0
    /\ ended' = IF Tenured(lease) /\ ~(Tenured(l) /\ l.epoch = lease.epoch
                                                  /\ l.holder = lease.holder)
                THEN ended \cup {lease.epoch} ELSE ended

Forget(c) == obs' = [obs EXCEPT ![LockerOf[c]] = NoObs]
Move(c, r) == call' = [call EXCEPT ![c] = r]
Return(c) == Move(c, Idle)

\* A conflict or a vanished object: the next of maxAttempts iterations, or
\* ErrConcurrentUpdate.
Retry(c, label) ==
    IF call[c].attempts + 1 < MaxAttempts
    THEN Move(c, Running(label, call[c].expected, NoLease(0), call[c].attempts + 1))
    ELSE Return(c)

-----------------------------------------------------------------------------
Init ==
    /\ lease = NoLease(0)
    /\ age = 0
    /\ nextEpoch = 1
    /\ obs = [l \in Lockers |-> NoObs]
    /\ call = [c \in Callers |-> Idle]
    /\ persisted = FirstEpoch
    /\ faults = 0
    /\ ended = {}

\* Acquire and Release start from the epoch the claim records.
Begin(c, label) ==
    /\ call[c].at = "idle"
    /\ lease.version < MaxVersion
    /\ Move(c, Running(label, persisted[HolderOf[c]], NoLease(0), 0))
    /\ UNCHANGED <<lease, age, nextEpoch, obs, persisted, faults, ended>>

BeginAcquire(c) == Begin(c, "get")

\* The uncached read that opens an attempt.
Get(c) ==
    /\ call[c].at = "get"
    /\ Move(c, Running(IF lease.exists THEN "judge" ELSE "create",
                       call[c].expected, lease, call[c].attempts))
    /\ IF lease.exists THEN UNCHANGED obs ELSE Forget(c)
    /\ UNCHANGED <<lease, age, nextEpoch, persisted, faults, ended>>

\* Mutation: the record watched is not compared with the one read.
UnexpiredAnyRecord(c) ==
    LET o == obs[LockerOf[c]] IN ~(o.set /\ o.age >= call[c].seen.duration)

\* observeForeignLease: a record this Locker has not been watching unchanged
\* for the whole duration is contention.
Unexpired(c) ==
    LET o == obs[LockerOf[c]]
        seen == call[c].seen IN
    ~(o.set /\ o.version = seen.version /\ o.age >= seen.duration)

\* Mutation: every look at a foreign record starts its watch again.
WatchAfresh(c) ==
    obs' = [obs EXCEPT ![LockerOf[c]] =
              [set |-> TRUE, version |-> call[c].seen.version, age |-> 0]]

Watch(c) ==
    LET o == obs[LockerOf[c]]
        seen == call[c].seen IN
    obs' = IF o.set /\ o.version = seen.version THEN obs
           ELSE [obs EXCEPT ![LockerOf[c]] =
                   [set |-> TRUE, version |-> seen.version, age |-> 0]]

\* A live foreign holder: the call ends with Contention.
JudgeContended(c) ==
    /\ call[c].at = "judge"
    /\ Foreign(c, call[c].seen) /\ Unexpired(c)
    /\ Watch(c)
    /\ Return(c)
    /\ UNCHANGED <<lease, age, nextEpoch, persisted, faults, ended>>

\* An expired foreign holder, an empty one, or the caller's own: write it.
JudgeFree(c) ==
    /\ call[c].at = "judge"
    /\ ~(Foreign(c, call[c].seen) /\ Unexpired(c))
    /\ Forget(c)
    /\ Move(c, Running("update", call[c].expected, call[c].seen, call[c].attempts))
    /\ UNCHANGED <<lease, age, nextEpoch, persisted, faults, ended>>

\* Mutation: the update carries no resourceVersion.
AnyVersion(c) == lease.exists

\* Create succeeds only where no Lease exists, Update only on the version read.
Current(c) == lease.exists /\ lease.version = call[c].seen.version
Wins(c) == \/ call[c].at = "create" /\ ~lease.exists
           \/ call[c].at = "update" /\ Current(c)

\* Mutations: a takeover keeps the epoch it finds; the claim's own token
\* becomes the epoch.
GrantedEpochKept(c) ==
    IF call[c].at = "update" THEN call[c].seen.epoch ELSE nextEpoch
GrantedEpochExpected(c) == call[c].expected

\* A caller that finds its own Lease keeps the epoch; every other write draws
\* a fresh one.
Keeps(c) == call[c].at = "update" /\ Own(c, call[c].seen)
GrantedEpoch(c) == IF Keeps(c) THEN call[c].seen.epoch ELSE nextEpoch

\* Mutation: the holder is not compared.
ContinuityLostByEpochOnly(c) ==
    /\ call[c].expected # NoEpoch
    /\ ~(call[c].at = "update" /\ call[c].seen.epoch = call[c].expected)

\* AcquireResult.ContinuityLost: continuous is only the caller's own Lease
\* under the epoch it expected.
ContinuityLost(c) ==
    /\ call[c].expected # NoEpoch
    /\ ~(Keeps(c) /\ call[c].seen.epoch = call[c].expected)

\* The write of an Acquire (newLease, updateLease).
WriteAcquired(c) ==
    /\ Wins(c)
    /\ Write([exists |-> TRUE, holder |-> HolderOf[c], epoch |-> GrantedEpoch(c),
              duration |-> DurationOf[c], version |-> 0])
    /\ nextEpoch' = IF Keeps(c) THEN nextEpoch ELSE nextEpoch + 1

WriteLands(c) ==
    /\ WriteAcquired(c)
    /\ IF call[c].at = "create" THEN UNCHANGED obs ELSE Forget(c)
    /\ Move(c, Granted(call[c].expected, GrantedEpoch(c), ContinuityLost(c)))
    /\ UNCHANGED <<persisted, faults>>

WriteConflicts(c) ==
    /\ call[c].at \in {"create", "update"}
    /\ ~Wins(c)
    /\ Retry(c, "get")
    /\ UNCHANGED <<lease, age, nextEpoch, obs, persisted, faults, ended>>

\* The caller records the epoch it was granted in its claim
\* (tryMigrationApplyLock): its own status write, and not the Lease's.  The
\* patch carries the resourceVersion it read, so it fails on a changed claim.
Adopt(c) ==
    /\ call[c].at = "adopt"
    /\ persisted' = [persisted EXCEPT ![HolderOf[c]] =
                        IF @ = call[c].expected THEN call[c].epoch ELSE @]
    /\ Return(c)
    /\ UNCHANGED <<lease, age, nextEpoch, obs, faults, ended>>

-----------------------------------------------------------------------------
\* Release needs an epoch (ErrInvalidRequest without one).
BeginRelease(c) ==
    /\ persisted[HolderOf[c]] # NoEpoch
    /\ Begin(c, "getRelease")

\* Mutation: a release compares the holder and not the epoch.
GetForReleaseByHolder(c) ==
    /\ call[c].at = "getRelease"
    /\ IF lease.exists /\ Own(c, lease)
       THEN Move(c, Running("clear", call[c].expected, lease, call[c].attempts))
       ELSE Return(c)
    /\ UNCHANGED <<lease, age, nextEpoch, obs, persisted, faults, ended>>

\* A missing Lease, another holder or a later acquisition is already released.
GetForRelease(c) ==
    LET mine == lease.exists /\ Own(c, lease) /\ lease.epoch = call[c].expected IN
    /\ call[c].at = "getRelease"
    /\ IF mine THEN Move(c, Running("clear", call[c].expected, lease, call[c].attempts))
               ELSE Return(c)
    /\ IF lease.exists THEN UNCHANGED obs ELSE Forget(c)
    /\ UNCHANGED <<lease, age, nextEpoch, persisted, faults, ended>>

\* The write of a Release: the record it read, with no holder.
WriteReleased(c) ==
    /\ call[c].at = "clear"
    /\ Current(c)
    /\ Write([call[c].seen EXCEPT !.holder = NoHolder])
    /\ UNCHANGED nextEpoch

ClearLands(c) ==
    /\ WriteReleased(c)
    /\ Forget(c)
    /\ Return(c)
    /\ UNCHANGED <<persisted, faults>>

ClearConflicts(c) ==
    /\ call[c].at = "clear"
    /\ ~Current(c)
    /\ Retry(c, "getRelease")
    /\ UNCHANGED <<lease, age, nextEpoch, obs, persisted, faults, ended>>

-----------------------------------------------------------------------------
Fault == faults < MaxFaults /\ faults' = faults + 1

\* An API call fails and the Acquire or Release returns the error.
CallFails(c) ==
    /\ call[c].at # "idle"
    /\ Fault
    /\ Return(c)
    /\ UNCHANGED <<lease, age, nextEpoch, obs, persisted, ended>>

\* The write happens and its answer is lost: the call fails all the same.
AnswerLost(c) ==
    /\ WriteAcquired(c) \/ WriteReleased(c)
    /\ Fault
    /\ Return(c)
    /\ UNCHANGED <<obs, persisted>>

\* A manager process restarts: its observations and calls are gone.
Restart(l) ==
    /\ Fault
    /\ obs' = [obs EXCEPT ![l] = NoObs]
    /\ call' = [c \in Callers |-> IF LockerOf[c] = l THEN Idle ELSE call[c]]
    /\ UNCHANGED <<lease, age, nextEpoch, persisted, ended>>

\* Somebody outside the operator deletes the Lease.
DeleteLease ==
    /\ lease.exists
    /\ Fault
    /\ Write(NoLease(0))
    /\ UNCHANGED <<nextEpoch, obs, call, persisted>>

Tick ==
    /\ age' = IF lease.exists THEN Older(age) ELSE age
    /\ obs' = [l \in Lockers |->
                 IF obs[l].set THEN [obs[l] EXCEPT !.age = Older(@)] ELSE obs[l]]
    /\ UNCHANGED <<lease, nextEpoch, call, persisted, faults, ended>>

\* The steps a call in flight takes by itself.
Proceeds(c) ==
    \/ Get(c) \/ JudgeContended(c) \/ JudgeFree(c) \/ WriteLands(c)
    \/ WriteConflicts(c) \/ Adopt(c) \/ GetForRelease(c) \/ ClearLands(c)
    \/ ClearConflicts(c)

Next ==
    \/ \E c \in Callers : \/ BeginAcquire(c) \/ BeginRelease(c) \/ Proceeds(c)
                          \/ CallFails(c) \/ AnswerLost(c)
    \/ \E l \in Lockers : Restart(l)
    \/ DeleteLease
    \/ Tick

Spec == Init /\ [][Next]_vars

\* A call in flight finishes (client-go's timeouts) and time passes; nobody
\* has to ask for the Lease, so a holder may abandon it.
FairSpec ==
    /\ Spec
    /\ \A c \in Callers : WF_vars(Proceeds(c))
    /\ WF_vars(Tick)

-----------------------------------------------------------------------------
\* The values every variable takes.
TypeOK ==
    /\ lease \in Lease
    /\ age \in 0..Horizon
    /\ nextEpoch \in Nat \ {0}
    /\ obs \in [Lockers -> Observation]
    /\ call \in [Callers -> Call]
    /\ persisted \in [Holders -> Nat \cup {NoEpoch}]
    /\ faults \in Nat
    /\ ended \in SUBSET Nat

\* Acquire never takes the Lease from another holder before that holder's
\* whole duration has passed since it last wrote the Lease, whatever happened
\* between the read, the observation and the compare-and-swap, and whichever
\* Locker restarted in between (Acquire, observeForeignLease).
NoEarlyTakeover ==
    [][\A h \in Holders :
         (Tenured(lease) /\ lease.holder = h /\ lease'.exists
            /\ lease'.holder \notin {h, NoHolder})
         => age >= lease.duration]_vars

\* A granted Acquire that expected an epoch reports continuity lost exactly
\* when the acquisition that epoch names is over, or never was one: no result
\* is kept across an interruption, and none is thrown away without one
\* (AcquireResult.ContinuityLost).
ContinuityExact ==
    [][\A c \in Callers :
         (call[c].at \in {"create", "update"} /\ call'[c].at = "adopt"
            /\ call[c].expected # NoEpoch)
         => (call'[c].lost <=> call[c].expected \in ended \cup {Placeholder})]_vars

EmptiesNamed ==
    (Tenured(lease) /\ lease'.exists /\ lease'.holder = NoHolder)
    => \E c \in Callers : /\ call[c].at = "clear" /\ call'[c].at = "idle"
                          /\ HolderOf[c] = lease.holder
                          /\ call[c].expected = lease.epoch

\* Release ends the acquisition its caller's claim recorded and no other: a
\* late release by an old manager leaves a later acquisition alone, even one
\* of the same holder (Release).
ReleaseOnlyNamedAcquisition == [][EmptiesNamed]_vars

\* An epoch names one acquisition: once that is over, by release, takeover or
\* deletion, no Lease carries its epoch again under any holder (newEpoch,
\* updateLease).
EndedEpochsStayEnded == Tenured(lease) => lease.epoch \notin ended

\* A Lease its holder stopped renewing does not keep out a claim that goes on
\* asking, as contended claims do every maxLockContentionPoll: it stops being
\* foreign to that claim, or the model's writes run out (observeForeignLease
\* returns 0 in the end).
AbandonedLeaseIsTaken ==
    \A c \in Callers :
        []<><<BeginAcquire(c)>>_vars =>
            []<>(~(lease.exists /\ Foreign(c, lease)) \/ lease.version = MaxVersion)

-----------------------------------------------------------------------------
\* The parts of the inductive invariant.

\* A Locker watches no record newer than the stored one, and has not watched
\* the stored one for longer than it has stood.
ObservationSound(o) ==
    /\ o.version <= lease.version
    /\ (o.set /\ o.version = lease.version) => lease.exists /\ o.age <= age

\* An epoch a claim or a call carries is the placeholder or one drawn for the
\* claim's own holder.
Carries(e, h) ==
    /\ e < nextEpoch
    /\ (Tenured(lease) /\ e = lease.epoch) => lease.holder = h

\* What a call read under the stored version is the stored record; a call
\* about to overwrite another holder has waited out its duration; a call about
\* to clear read its own acquisition.
CallSound(c, r) ==
    /\ r.seen.version <= lease.version
    /\ r.at \in {"judge", "update", "clear"} =>
         /\ r.seen.exists
         /\ r.seen.version = lease.version => r.seen = lease
    /\ (r.at = "update" /\ r.seen.version = lease.version /\ Foreign(c, lease))
         => age >= lease.duration
    /\ r.at = "clear" =>
         r.seen.holder = HolderOf[c] /\ r.seen.epoch = r.expected
    /\ Carries(r.expected, HolderOf[c]) /\ Carries(r.epoch, HolderOf[c])

\* Every epoch drawn so far names the acquisition in force or one that is over.
EpochsAccounted ==
    /\ lease.epoch < nextEpoch
    /\ Tenured(lease) => lease.epoch > 0
    /\ \A e \in ended : e > 0 /\ e < nextEpoch
    /\ \A e \in 1..(nextEpoch - 1) :
         (e \notin ended <=> (Tenured(lease) /\ lease.epoch = e))

\* The inductive invariant: what every Locker and caller knows of the Lease
\* is right whenever the version it knows is still the stored one, and every
\* epoch has one owner (Acquire, Release, observeForeignLease).
LockInvariant ==
    /\ TypeOK
    /\ \A l \in Lockers : ObservationSound(obs[l])
    /\ \A c \in Callers : CallSound(c, call[c])
    /\ \A h \in Holders : Carries(persisted[h], h)
    /\ EpochsAccounted

-----------------------------------------------------------------------------
\* The promise to the operations: a Lease held by somebody is an ownership,
\* and what is left of its duration since it was last written is what the
\* ownership still lasts.
Realm == INSTANCE RealmLock WITH
    Owners <- Holders, NoOwner <- NoHolder, Longest <- Horizon,
    owner <- IF lease.exists THEN lease.holder ELSE NoHolder,
    term <- IF Tenured(lease) THEN lease.epoch ELSE 0,
    rest <- IF Tenured(lease) /\ lease.duration > age THEN lease.duration - age ELSE 0,
    issued <- nextEpoch - 1

\* The Lease protocol implements the lock the operations rely on: reads,
\* observations, conflicts and restarts are invisible, every write of the
\* Lease is a grant, a renewal or the end of an ownership, and a grant over
\* another owner waits for the whole duration (Acquire, Release).
ImplementsRealmLock == Realm!RealmSpec
=============================================================================
