-------------------------- MODULE TargetLockProofs --------------------------
(***************************************************************************)
(* Proofs about the Lease protocol of TargetLock for every value of its    *)
(* constants: the inductive invariant, the safety properties that follow   *)
(* from it, and the refinement of RealmLock.                               *)
(***************************************************************************)
EXTENDS TargetLock, TLAPS

\* The first state, with no Lease, no observation and idle callers, satisfies
\* the inductive invariant (New).
LEMMA InitInvariant == Init => LockInvariant
  BY LockConstants DEF Init, LockInvariant, TypeOK, ObservationSound, CallSound,
     EpochsAccounted, Carries, Lease, NoLease, NoObs, Observation, Call, Idle,
     Labels, NoEpoch, Placeholder, Tenured, Foreign, Running

\* A step of one caller that leaves the Lease alone keeps the invariant when
\* the caller's new record, and the observations, are sound.
LEMMA QuietStep ==
  ASSUME LockInvariant,
         UNCHANGED <<lease, age, nextEpoch, ended>>,
         NEW c \in Callers, NEW r \in Call, Move(c, r), CallSound(c, r),
         obs' \in [Lockers -> Observation],
         \A l \in Lockers : ObservationSound(obs'[l]),
         persisted' \in [Holders -> Nat \cup {NoEpoch}],
         \A h \in Holders : Carries(persisted'[h], h),
         faults' \in Nat
  PROVE  LockInvariant'
<1>1. TypeOK'
  BY DEF LockInvariant, TypeOK, Move
<1>2. \A l \in Lockers : ObservationSound(obs[l])'
  BY DEF ObservationSound
<1>3. ASSUME NEW d \in Callers PROVE CallSound(d, call[d])'
  <2>1. CallSound(d, call'[d])
    BY DEF Move, LockInvariant, TypeOK
  <2> QED BY <2>1 DEF CallSound, Carries, Tenured, Foreign
<1>4. \A h \in Holders : Carries(persisted[h], h)'
  BY DEF Carries, Tenured
<1>5. EpochsAccounted'
  BY DEF LockInvariant, EpochsAccounted, Tenured
<1> QED BY <1>1, <1>2, <1>3, <1>4, <1>5 DEF LockInvariant

\* The absent Lease is a Lease record of version 0.
LEMMA NoLeaseType == NoLease(0) \in Lease /\ NoLease(0).version = 0
  BY LockConstants DEF NoLease, Lease

\* A call in progress has the type of a call.
LEMMA RunningType ==
  ASSUME NEW label \in Labels, NEW e \in Nat \cup {NoEpoch}, NEW l \in Lease,
         NEW n \in Nat
  PROVE  Running(label, e, l, n) \in Call
  BY DEF Running, Call, NoEpoch

\* An idle caller knows nothing, so nothing it knows is wrong.
LEMMA IdleSound ==
  ASSUME LockInvariant, NEW c \in Callers
  PROVE  Idle \in Call /\ CallSound(c, Idle)
<1>1. Idle \in Call
  BY NoLeaseType, RunningType DEF Idle, Labels
<1>2. CallSound(c, Idle)
  BY NoLeaseType, LockConstants
  DEF Idle, Running, CallSound, Carries, NoEpoch, LockInvariant, TypeOK, Lease, Tenured, EpochsAccounted
<1> QED BY <1>1, <1>2

\* Replacing one Locker's observation by a sound one keeps all sound
\* (observeForeignLease).
LEMMA WatchSound ==
  ASSUME LockInvariant, NEW k \in Lockers, NEW w \in Observation,
         ObservationSound(w), obs' = [obs EXCEPT ![k] = w]
  PROVE  /\ obs' \in [Lockers -> Observation]
         /\ \A l \in Lockers : ObservationSound(obs'[l])
<1>1. obs' \in [Lockers -> Observation]
  BY DEF LockInvariant, TypeOK
<1>2. \A l \in Lockers : obs'[l] = w \/ obs'[l] = obs[l]
  BY DEF LockInvariant, TypeOK
<1> QED BY <1>1, <1>2 DEF LockInvariant

\* Dropping an observation keeps all sound (forgetObservation).
LEMMA ForgetSound ==
  ASSUME LockInvariant, NEW c \in Callers, Forget(c)
  PROVE  /\ obs' \in [Lockers -> Observation]
         /\ \A l \in Lockers : ObservationSound(obs'[l])
  BY LockConstants DEF LockInvariant, TypeOK, Forget, NoObs, Observation, ObservationSound, Lease

\* The start of Acquire or Release keeps the invariant: it carries the epoch
\* its claim persisted.
LEMMA BeginKeeps ==
  ASSUME LockInvariant, NEW c \in Callers, NEW label \in {"get", "getRelease"},
         Begin(c, label)
  PROVE  LockInvariant'
<1> DEFINE r == Running(label, persisted[HolderOf[c]], NoLease(0), 0)
<1>1. r \in Call
  BY RunningType, NoLeaseType, LockConstants DEF LockInvariant, TypeOK, Labels
<1>2. CallSound(c, r)
  BY NoLeaseType, LockConstants
  DEF Running, CallSound, Carries, NoEpoch, LockInvariant, TypeOK, Lease, Tenured, EpochsAccounted
<1> QED BY <1>1, <1>2, QuietStep DEF Begin, LockInvariant, TypeOK

\* A caller that returns without writing the Lease keeps the invariant.
LEMMA ReturnKeeps ==
  ASSUME LockInvariant, NEW c \in Callers, Return(c),
         UNCHANGED <<lease, age, nextEpoch, ended>>,
         obs' \in [Lockers -> Observation],
         \A l \in Lockers : ObservationSound(obs'[l]),
         persisted' \in [Holders -> Nat \cup {NoEpoch}],
         \A h \in Holders : Carries(persisted'[h], h),
         faults' \in Nat
  PROVE  LockInvariant'
  BY IdleSound, QuietStep DEF Return

\* The read of Acquire keeps the invariant: what it read is the stored record.
LEMMA GetKeeps ==
  ASSUME LockInvariant, NEW c \in Callers, Get(c)
  PROVE  LockInvariant'
<1> DEFINE label == IF lease.exists THEN "judge" ELSE "create"
           r == Running(label, call[c].expected, lease, call[c].attempts)
<1>1. r \in Call
  BY RunningType DEF LockInvariant, TypeOK, Labels, Call
<1>2. CallSound(c, r)
  BY DEF Running, CallSound, Carries, NoEpoch, LockInvariant, TypeOK, Lease, EpochsAccounted
<1>3. obs' \in [Lockers -> Observation] /\ \A l \in Lockers : ObservationSound(obs'[l])
  BY ForgetSound DEF Get, LockInvariant, TypeOK
<1> QED BY <1>1, <1>2, <1>3, QuietStep DEF Get, LockInvariant, TypeOK

\* Finding the Lease held keeps the invariant: a new observation starts at
\* age 0 and an old one is not changed (observeForeignLease).
LEMMA JudgeContendedKeeps ==
  ASSUME LockInvariant, NEW c \in Callers, JudgeContended(c)
  PROVE  LockInvariant'
<1> DEFINE o == obs[LockerOf[c]]
           w == [set |-> TRUE, version |-> call[c].seen.version, age |-> 0]
<1>1. w \in Observation /\ ObservationSound(w)
  BY LockConstants
  DEF JudgeContended, Observation, ObservationSound, LockInvariant, TypeOK, CallSound, Call, Lease
<1>2. obs' = obs \/ obs' = [obs EXCEPT ![LockerOf[c]] = w]
  BY DEF JudgeContended, Watch
<1>3. obs' \in [Lockers -> Observation] /\ \A l \in Lockers : ObservationSound(obs'[l])
  <2> HIDE DEF w
  <2> QED BY <1>1, <1>2, WatchSound, LockConstants DEF LockInvariant, TypeOK
<1> QED BY <1>3, ReturnKeeps DEF JudgeContended, LockInvariant, TypeOK

\* Finding the Lease free keeps the invariant: a foreign one was watched for
\* its whole duration, and has stood for at least as long (Acquire).
LEMMA JudgeFreeKeeps ==
  ASSUME LockInvariant, NEW c \in Callers, JudgeFree(c)
  PROVE  LockInvariant'
<1> DEFINE r == Running("update", call[c].expected, call[c].seen, call[c].attempts)
<1>1. r \in Call
  BY RunningType DEF LockInvariant, TypeOK, Labels, Call
<1>2. ASSUME call[c].seen.version = lease.version, Foreign(c, lease)
      PROVE  age >= lease.duration
  <2>1. call[c].seen = lease
    BY <1>2 DEF LockInvariant, CallSound, JudgeFree
  <2>2. ~Unexpired(c)
    BY <1>2, <2>1 DEF JudgeFree
  <2>3. obs[LockerOf[c]].age <= age /\ obs[LockerOf[c]].age >= lease.duration
    BY <1>2, <2>1, <2>2, LockConstants DEF Unexpired, LockInvariant, ObservationSound
  <2>4. obs[LockerOf[c]].age \in Int /\ age \in Int /\ lease.duration \in Int
    BY LockConstants DEF LockInvariant, TypeOK, Observation, Lease
  <2> QED BY <2>3, <2>4
<1>3. CallSound(c, call[c])
  BY DEF LockInvariant
<1>4. CallSound(c, r)
  BY <1>2, <1>3
  DEF Running, CallSound, Carries, NoEpoch, LockInvariant, TypeOK, Lease, EpochsAccounted, JudgeFree
<1> QED BY <1>1, <1>4, ForgetSound, QuietStep DEF JudgeFree, LockInvariant, TypeOK

\* A conflicting write keeps the invariant: the call starts over or returns.
LEMMA RetryKeeps ==
  ASSUME LockInvariant, NEW c \in Callers, NEW label \in {"get", "getRelease"},
         Retry(c, label),
         UNCHANGED <<lease, age, nextEpoch, obs, persisted, faults, ended>>
  PROVE  LockInvariant'
<1> DEFINE r == Running(label, call[c].expected, NoLease(0), call[c].attempts + 1)
<1>1. CASE Return(c)
  BY <1>1, ReturnKeeps DEF LockInvariant, TypeOK
<1>2. CASE Move(c, r)
  <2>1. r \in Call
    <3>1. call[c].attempts + 1 \in Nat /\ call[c].expected \in Nat \cup {NoEpoch}
      BY DEF LockInvariant, TypeOK, Call
    <3> QED BY <3>1, RunningType, NoLeaseType DEF Labels
  <2>2. CallSound(c, call[c])
    BY DEF LockInvariant
  <2>3. CallSound(c, r)
    BY <2>2, NoLeaseType
    DEF Running, CallSound, Carries, NoEpoch, LockInvariant, TypeOK, Lease, EpochsAccounted
  <2> QED BY <1>2, <2>1, <2>3, QuietStep DEF LockInvariant, TypeOK
<1> QED BY <1>1, <1>2 DEF Retry

\* Recording the granted epoch in the claim keeps the invariant.
LEMMA AdoptKeeps ==
  ASSUME LockInvariant, NEW c \in Callers, Adopt(c)
  PROVE  LockInvariant'
<1>1. call[c].epoch \in Nat \cup {NoEpoch} /\ Carries(call[c].epoch, HolderOf[c])
  BY DEF LockInvariant, CallSound, TypeOK, Call
<1>2. persisted' \in [Holders -> Nat \cup {NoEpoch}]
  BY <1>1, LockConstants DEF Adopt, LockInvariant, TypeOK
<1>3. \A h \in Holders : Carries(persisted'[h], h)
  <2>1. \A h \in Holders : persisted'[h] = persisted[h]
                           \/ (h = HolderOf[c] /\ persisted'[h] = call[c].epoch)
    BY LockConstants DEF Adopt, LockInvariant, TypeOK
  <2> QED BY <1>1, <2>1 DEF LockInvariant
<1> QED BY <1>2, <1>3, ReturnKeeps DEF Adopt, LockInvariant, TypeOK

\* The read of Release keeps the invariant: it goes on to clear only the
\* acquisition the claim recorded.
LEMMA GetForReleaseKeeps ==
  ASSUME LockInvariant, NEW c \in Callers, GetForRelease(c)
  PROVE  LockInvariant'
<1> DEFINE r == Running("clear", call[c].expected, lease, call[c].attempts)
<1>1. obs' \in [Lockers -> Observation] /\ \A l \in Lockers : ObservationSound(obs'[l])
  BY ForgetSound DEF GetForRelease, LockInvariant, TypeOK
<1>2. CASE Return(c)
  BY <1>1, <1>2, ReturnKeeps DEF GetForRelease, LockInvariant, TypeOK
<1>3. CASE lease.exists /\ Own(c, lease) /\ lease.epoch = call[c].expected /\ Move(c, r)
  <2>1. r \in Call
    BY RunningType DEF LockInvariant, TypeOK, Labels, Call
  <2>2. CallSound(c, call[c])
    BY DEF LockInvariant
  <2>3. CallSound(c, r)
    BY <1>3, <2>2
    DEF Running, CallSound, Carries, NoEpoch, LockInvariant, TypeOK, Lease, EpochsAccounted, Own
  <2> QED BY <1>1, <1>3, <2>1, <2>3, QuietStep DEF GetForRelease, LockInvariant, TypeOK
<1> QED BY <1>2, <1>3 DEF GetForRelease

\* A restart of a manager keeps the invariant: its observation and its calls
\* are gone.
LEMMA RestartKeeps ==
  ASSUME LockInvariant, NEW k \in Lockers, Restart(k)
  PROVE  LockInvariant'
<1>1. NoObs \in Observation /\ ObservationSound(NoObs)
  BY LockConstants DEF NoObs, Observation, ObservationSound, LockInvariant, TypeOK, Lease
<1>2. obs' \in [Lockers -> Observation] /\ \A l \in Lockers : ObservationSound(obs'[l])
  BY <1>1, WatchSound DEF Restart
<1>3. call' \in [Callers -> Call] /\ \A c \in Callers : CallSound(c, call'[c])
  BY IdleSound DEF Restart, LockInvariant, TypeOK
<1>4. TypeOK'
  BY <1>2, <1>3 DEF Restart, Fault, LockInvariant, TypeOK
<1>5. \A l \in Lockers : ObservationSound(obs[l])'
  BY <1>2 DEF Restart, ObservationSound
<1>6. \A c \in Callers : CallSound(c, call[c])'
  BY <1>3 DEF Restart, CallSound, Carries, Tenured, Foreign
<1>7. (\A h \in Holders : Carries(persisted[h], h))' /\ EpochsAccounted'
  BY DEF Restart, LockInvariant, Carries, Tenured, EpochsAccounted
<1> QED BY <1>4, <1>5, <1>6, <1>7 DEF LockInvariant

\* The passing of time keeps the invariant: an observation ages with the
\* record it watches.
LEMMA TickKeeps == LockInvariant /\ Tick => LockInvariant'
<1> SUFFICES ASSUME LockInvariant, Tick PROVE LockInvariant'
  OBVIOUS
<1>1. age' \in 0..Horizon /\ age' >= age
      /\ (lease.exists => age' = Older(age))
  BY LockConstants DEF Tick, Older, LockInvariant, TypeOK
<1>2. obs' \in [Lockers -> Observation]
  BY LockConstants DEF Tick, Older, LockInvariant, TypeOK, Observation
<1>3. ASSUME NEW l \in Lockers PROVE ObservationSound(obs[l])'
  <2>1. /\ obs'[l].set = obs[l].set /\ obs'[l].version = obs[l].version
        /\ obs[l].set => obs'[l].age = Older(obs[l].age)
    BY DEF Tick, LockInvariant, TypeOK, Observation
  <2>2. ObservationSound(obs[l])
    BY DEF LockInvariant
  <2>3. obs[l].age <= age => Older(obs[l].age) <= Older(age)
    BY LockConstants DEF Older, LockInvariant, TypeOK, Observation
  <2> QED BY <1>1, <2>1, <2>2, <2>3 DEF ObservationSound, Tick
<1>4. ASSUME NEW c \in Callers PROVE CallSound(c, call[c])'
  <2>1. CallSound(c, call[c])
    BY DEF LockInvariant
  <2>2. age >= lease.duration => age' >= lease.duration
    BY <1>1, LockConstants DEF LockInvariant, TypeOK, Lease
  <2> QED BY <2>1, <2>2 DEF CallSound, Tick, Carries, Tenured, Foreign
<1>5. TypeOK'
  BY <1>1, <1>2 DEF Tick, LockInvariant, TypeOK
<1>6. (\A h \in Holders : Carries(persisted[h], h))' /\ EpochsAccounted'
  BY DEF Tick, LockInvariant, Carries, Tenured, EpochsAccounted
<1> QED BY <1>3, <1>4, <1>5, <1>6 DEF LockInvariant

\* What a write of the Lease does to everybody else: every record held
\* elsewhere becomes an old version, and no epoch carried elsewhere becomes
\* somebody else's.  The three kinds of write: a fresh acquisition, a renewal,
\* and one that leaves no holder.
Fresh(l) == Tenured(l) /\ l.epoch = nextEpoch /\ nextEpoch' = nextEpoch + 1
Renewed(l) == /\ Tenured(l) /\ Tenured(lease) /\ UNCHANGED nextEpoch
              /\ l.epoch = lease.epoch /\ l.holder = lease.holder
Emptied(l) == ~Tenured(l) /\ l.epoch < nextEpoch /\ UNCHANGED nextEpoch

\* What a write of the Lease does to the Lease itself, to the accounting of
\* epochs and to the epochs carried anywhere.
LEMMA WriteStep ==
  ASSUME LockInvariant, NEW l \in Lease, Write(l),
         Fresh(l) \/ Renewed(l) \/ Emptied(l)
  PROVE  /\ lease' \in Lease /\ age' \in 0..Horizon /\ nextEpoch' \in Nat \ {0}
         /\ ended' \in SUBSET Nat
         /\ lease'.version = lease.version + 1
         /\ EpochsAccounted'
         /\ \A e \in Nat \cup {NoEpoch}, h \in Holders :
              Carries(e, h) => Carries(e, h)'
<1>1. /\ lease' \in Lease /\ lease'.version = lease.version + 1
      /\ lease'.exists = l.exists /\ lease'.holder = l.holder
      /\ lease'.epoch = l.epoch
  BY DEF Write, Lease, LockInvariant, TypeOK
<1>2. Tenured(lease') <=> Tenured(l)
  BY <1>1 DEF Tenured
<1>3. age' \in 0..Horizon /\ nextEpoch' \in Nat \ {0} /\ ended' \in SUBSET Nat
  BY LockConstants DEF Write, LockInvariant, TypeOK, Fresh, Renewed, Emptied, Lease
<1>4. EpochsAccounted'
  <2>1. /\ lease.epoch \in Nat /\ nextEpoch \in Nat \ {0} /\ l.epoch \in Nat
        /\ EpochsAccounted
    BY DEF LockInvariant, TypeOK, Lease
  <2>2. CASE Fresh(l)
    <3>1. ended' = IF Tenured(lease) THEN ended \cup {lease.epoch} ELSE ended
      BY <2>1, <2>2 DEF Write, Fresh, EpochsAccounted
    <3>2. \A e \in ended' : e > 0 /\ e < nextEpoch'
      <4>1. ended \subseteq Nat
        BY DEF LockInvariant, TypeOK
      <4> QED BY <2>1, <2>2, <3>1, <4>1 DEF Fresh, EpochsAccounted
    <3>3. \A e \in 1..(nextEpoch' - 1) :
            e \notin ended' <=> (Tenured(lease') /\ lease'.epoch = e)
      <4> SUFFICES ASSUME NEW e \in 1..(nextEpoch' - 1)
                   PROVE  e \notin ended' <=> (Tenured(lease') /\ lease'.epoch = e)
        OBVIOUS
      <4>1. CASE e = nextEpoch
        BY <1>1, <1>2, <2>1, <2>2, <3>1, <4>1 DEF Fresh, EpochsAccounted
      <4>2. CASE e \in 1..(nextEpoch - 1)
        BY <1>1, <1>2, <2>1, <2>2, <3>1, <4>2 DEF Fresh, EpochsAccounted
      <4> QED BY <2>1, <2>2, <4>1, <4>2 DEF Fresh
    <3> QED BY <1>1, <1>2, <2>1, <2>2, <3>2, <3>3 DEF Fresh, EpochsAccounted
  <2>3. CASE Renewed(l)
    <3>1. ended' = ended
      BY <2>3 DEF Write, Renewed
    <3> QED BY <1>1, <1>2, <2>1, <2>3, <3>1 DEF Renewed, EpochsAccounted
  <2>4. CASE Emptied(l)
    <3>1. ended' = IF Tenured(lease) THEN ended \cup {lease.epoch} ELSE ended
      BY <2>4 DEF Write, Emptied
    <3> QED BY <1>1, <1>2, <2>1, <2>4, <3>1 DEF Emptied, EpochsAccounted
  <2> QED BY <2>2, <2>3, <2>4
<1>5. ASSUME NEW e \in Nat \cup {NoEpoch}, NEW h \in Holders, Carries(e, h)
      PROVE  Carries(e, h)'
  <2>1. e \in Int /\ nextEpoch \in Int
    BY DEF NoEpoch, LockInvariant, TypeOK
  <2> QED BY <1>1, <1>2, <1>5, <2>1 DEF Carries, Fresh, Renewed, Emptied
<1> QED BY <1>1, <1>3, <1>4, <1>5

\* A write of the Lease leaves every other caller, observation and claim
\* sound: each now knows an old version.
LEMMA OthersKeep ==
  ASSUME LockInvariant, lease'.version = lease.version + 1,
         \A e \in Nat \cup {NoEpoch}, h \in Holders : Carries(e, h) => Carries(e, h)'
  PROVE  /\ \A l \in Lockers : obs'[l] = obs[l] => ObservationSound(obs[l])'
         /\ \A c \in Callers : call'[c] = call[c] => CallSound(c, call[c])'
         /\ persisted' = persisted => (\A h \in Holders : Carries(persisted[h], h))'
<1>1. ASSUME NEW l \in Lockers, obs'[l] = obs[l] PROVE ObservationSound(obs[l])'
  <2>1. obs[l].version \in Nat /\ lease.version \in Nat /\ ObservationSound(obs[l])
    BY DEF LockInvariant, TypeOK, Observation, Lease
  <2> QED BY <1>1, <2>1 DEF ObservationSound
<1>2. ASSUME NEW c \in Callers, call'[c] = call[c] PROVE CallSound(c, call[c])'
  <2>1. CallSound(c, call[c])
    BY DEF LockInvariant
  <2>2. /\ call[c].seen.version \in Nat /\ lease.version \in Nat
        /\ call[c].expected \in Nat \cup {NoEpoch}
        /\ call[c].epoch \in Nat \cup {NoEpoch}
    BY DEF LockInvariant, TypeOK, Call, Lease
  <2>3. call[c].seen.version <= lease'.version /\ call[c].seen.version # lease'.version
    BY <2>1, <2>2 DEF CallSound
  <2>4. Carries(call[c].expected, HolderOf[c])' /\ Carries(call[c].epoch, HolderOf[c])'
    BY <1>2, <2>1, <2>2, LockConstants DEF CallSound
  <2> QED BY <1>2, <2>1, <2>3, <2>4 DEF CallSound
<1>3. ASSUME persisted' = persisted, NEW h \in Holders PROVE Carries(persisted[h], h)'
  BY <1>3 DEF LockInvariant, TypeOK
<1> QED BY <1>1, <1>2, <1>3

\* Observations are sound after a write of the Lease by a caller that dropped
\* its own.
LEMMA ForgottenLater ==
  ASSUME LockInvariant, NEW c \in Callers, Forget(c) \/ UNCHANGED obs, lease' \in Lease,
         lease'.version = lease.version + 1
  PROVE  \A l \in Lockers : ObservationSound(obs[l])'
<1> SUFFICES ASSUME NEW l \in Lockers PROVE ObservationSound(obs[l])'
  OBVIOUS
<1>1. /\ obs[l].version \in Nat /\ lease.version \in Nat /\ lease'.version \in Nat
      /\ ObservationSound(obs[l])
  BY DEF LockInvariant, TypeOK, Observation, Lease
<1>2. obs'[l] = NoObs \/ obs'[l] = obs[l]
  BY DEF Forget, LockInvariant, TypeOK
<1> QED BY <1>1, <1>2 DEF ObservationSound, NoObs

\* Callers are sound after a write of the Lease by a caller that returned.
LEMMA ReturnedLater ==
  ASSUME LockInvariant, NEW c \in Callers, Return(c),
         lease' \in Lease, nextEpoch' \in Nat \ {0}, EpochsAccounted',
         lease'.version = lease.version + 1,
         \A e \in Nat \cup {NoEpoch}, h \in Holders : Carries(e, h) => Carries(e, h)'
  PROVE  \A d \in Callers : CallSound(d, call[d])'
<1> SUFFICES ASSUME NEW d \in Callers PROVE CallSound(d, call[d])'
  OBVIOUS
<1>1. CASE d = c
  <2>1. /\ call'[d].at = "idle" /\ call'[d].seen.version = 0
        /\ call'[d].expected = NoEpoch /\ call'[d].epoch = NoEpoch
    BY <1>1, NoLeaseType DEF Return, Move, Idle, Running, LockInvariant, TypeOK
  <2>2. Carries(call[d].expected, HolderOf[d])' /\ Carries(call[d].epoch, HolderOf[d])'
    BY <2>1 DEF Carries, NoEpoch, EpochsAccounted, Lease
  <2>3. lease'.version >= 0
    BY DEF Lease
  <2> QED BY <2>1, <2>2, <2>3 DEF CallSound
<1>2. CASE d # c
  <2>1. call'[d] = call[d]
    BY <1>2 DEF Return, Move, LockInvariant, TypeOK
  <2> QED BY <2>1, OthersKeep
<1> QED BY <1>1, <1>2

\* The Lease written by an Acquire: its own renewed, or a fresh acquisition.
LEMMA AcquiredLease ==
  ASSUME LockInvariant, NEW c \in Callers, WriteAcquired(c)
  PROVE  \E l \in Lease :
           /\ Write(l) /\ (Fresh(l) \/ Renewed(l))
           /\ l.exists /\ l.holder = HolderOf[c] /\ l.epoch = GrantedEpoch(c)
           /\ l.duration = DurationOf[c]
<1> DEFINE l == [exists |-> TRUE, holder |-> HolderOf[c], epoch |-> GrantedEpoch(c),
                 duration |-> DurationOf[c], version |-> 0]
<1>1. GrantedEpoch(c) \in Nat
  BY DEF GrantedEpoch, LockInvariant, TypeOK, Call, Lease
<1>2. l \in Lease
  BY <1>1, LockConstants DEF Lease
<1>3. Tenured(l)
  BY LockConstants DEF Tenured
<1>4. CASE Keeps(c)
  <2>1. call[c].seen = lease /\ lease.exists
    BY <1>4 DEF Keeps, WriteAcquired, Wins, Current, LockInvariant, CallSound
  <2>2. Renewed(l)
    BY <1>3, <1>4, <2>1, LockConstants
    DEF Keeps, Own, Renewed, Tenured, GrantedEpoch, WriteAcquired
  <2> QED BY <1>2, <2>2 DEF WriteAcquired
<1>5. CASE ~Keeps(c)
  <2>1. Fresh(l)
    BY <1>3, <1>5 DEF Fresh, GrantedEpoch, WriteAcquired
  <2> QED BY <1>2, <2>1 DEF WriteAcquired
<1> QED BY <1>4, <1>5

\* The write of Acquire keeps the invariant (Create, Update).
LEMMA WriteLandsKeeps ==
  ASSUME LockInvariant, NEW c \in Callers, WriteLands(c)
  PROVE  LockInvariant'
<1>1. PICK l \in Lease :
         /\ Write(l) /\ (Fresh(l) \/ Renewed(l))
         /\ l.exists /\ l.holder = HolderOf[c] /\ l.epoch = GrantedEpoch(c)
  BY AcquiredLease DEF WriteLands
<1>2. /\ lease' \in Lease /\ age' \in 0..Horizon /\ nextEpoch' \in Nat \ {0}
      /\ ended' \in SUBSET Nat
      /\ lease'.version = lease.version + 1
      /\ EpochsAccounted'
      /\ \A e \in Nat \cup {NoEpoch}, h \in Holders : Carries(e, h) => Carries(e, h)'
  BY <1>1, WriteStep
<1> DEFINE r == Granted(call[c].expected, GrantedEpoch(c), ContinuityLost(c))
<1>3. GrantedEpoch(c) \in Nat
  BY DEF GrantedEpoch, LockInvariant, TypeOK, Call, Lease
<1>4. r \in Call
  BY <1>3, NoLeaseType DEF Granted, Call, Labels, ContinuityLost, LockInvariant, TypeOK
<1>5. /\ call' \in [Callers -> Call] /\ call'[c] = r
      /\ \A d \in Callers : d # c => call'[d] = call[d]
  BY <1>4 DEF WriteLands, Move, LockInvariant, TypeOK
<1>6. lease'.epoch = GrantedEpoch(c) /\ lease'.holder = HolderOf[c]
  BY <1>1 DEF Write, Lease
<1>7. CallSound(c, call[c])'
  <2>1. /\ call'[c].at = "adopt" /\ call'[c].expected = call[c].expected
        /\ call'[c].epoch = GrantedEpoch(c) /\ call'[c].seen.version = 0
    BY <1>5, NoLeaseType DEF Granted
  <2>2. call[c].expected \in Nat \cup {NoEpoch} /\ Carries(call[c].expected, HolderOf[c])
    BY DEF LockInvariant, CallSound, TypeOK, Call
  <2>3. Carries(call[c].expected, HolderOf[c])'
    BY <1>2, <2>1, <2>2, LockConstants
  <2>4. Carries(call[c].epoch, HolderOf[c])'
    BY <1>2, <1>6, <2>1 DEF Carries, EpochsAccounted
  <2>5. lease'.version >= 0
    BY <1>2 DEF Lease
  <2> QED BY <2>1, <2>3, <2>4, <2>5 DEF CallSound
<1>8. \A d \in Callers : CallSound(d, call[d])'
  BY <1>2, <1>5, <1>7, OthersKeep
<1>9. (\A h \in Holders : Carries(persisted[h], h))'
  BY <1>2, OthersKeep DEF WriteLands
<1>10. obs' \in [Lockers -> Observation]
  BY ForgetSound DEF WriteLands, LockInvariant, TypeOK
<1>11. \A l2 \in Lockers : ObservationSound(obs[l2])'
  BY <1>2, ForgottenLater DEF WriteLands
<1>12. TypeOK'
  BY <1>2, <1>5, <1>10 DEF WriteLands, LockInvariant, TypeOK
<1> QED BY <1>2, <1>8, <1>9, <1>11, <1>12 DEF LockInvariant

\* The Lease written by a Release: the stored record, with no holder.
LEMMA ReleasedLease ==
  ASSUME LockInvariant, NEW c \in Callers, WriteReleased(c)
  PROVE  \E l \in Lease : Write(l) /\ Emptied(l) /\ l.holder = NoHolder
<1> DEFINE l == [call[c].seen EXCEPT !.holder = NoHolder]
<1>1. l \in Lease /\ l.holder = NoHolder /\ l.epoch = call[c].seen.epoch
  BY DEF LockInvariant, TypeOK, Call, Lease
<1>2. call[c].seen = lease
  BY DEF WriteReleased, Current, LockInvariant, CallSound
<1>3. Emptied(l)
  BY <1>1, <1>2 DEF Emptied, Tenured, WriteReleased, LockInvariant, EpochsAccounted
<1>4. Write(l)
  BY DEF WriteReleased
<1> HIDE DEF l
<1> QED BY <1>1, <1>3, <1>4

\* A write whose answer is lost keeps the invariant: the Lease is written and
\* the caller knows nothing of it.
LEMMA AnswerLostKeeps ==
  ASSUME LockInvariant, NEW c \in Callers, AnswerLost(c)
  PROVE  LockInvariant'
<1>1. PICK l \in Lease : Write(l) /\ (Fresh(l) \/ Renewed(l) \/ Emptied(l))
  BY AcquiredLease, ReleasedLease DEF AnswerLost
<1>2. /\ lease' \in Lease /\ age' \in 0..Horizon /\ nextEpoch' \in Nat \ {0}
      /\ ended' \in SUBSET Nat
      /\ lease'.version = lease.version + 1
      /\ EpochsAccounted'
      /\ \A e \in Nat \cup {NoEpoch}, h \in Holders : Carries(e, h) => Carries(e, h)'
  BY <1>1, WriteStep
<1>3. \A d \in Callers : CallSound(d, call[d])'
  BY <1>2, ReturnedLater DEF AnswerLost
<1>4. (\A h \in Holders : Carries(persisted[h], h))'
  BY <1>2, OthersKeep DEF AnswerLost
<1>5. \A k \in Lockers : ObservationSound(obs[k])'
  BY <1>2, OthersKeep DEF AnswerLost
<1>6. TypeOK'
  BY <1>2, IdleSound DEF AnswerLost, Return, Move, Fault, LockInvariant, TypeOK
<1> QED BY <1>2, <1>3, <1>4, <1>5, <1>6 DEF LockInvariant

\* The write of Release keeps the invariant.
LEMMA ClearLandsKeeps ==
  ASSUME LockInvariant, NEW c \in Callers, ClearLands(c)
  PROVE  LockInvariant'
<1>1. PICK l \in Lease : Write(l) /\ Emptied(l)
  BY ReleasedLease DEF ClearLands
<1>2. /\ lease' \in Lease /\ age' \in 0..Horizon /\ nextEpoch' \in Nat \ {0}
      /\ ended' \in SUBSET Nat
      /\ lease'.version = lease.version + 1
      /\ EpochsAccounted'
      /\ \A e \in Nat \cup {NoEpoch}, h \in Holders : Carries(e, h) => Carries(e, h)'
  BY <1>1, WriteStep
<1>3. \A d \in Callers : CallSound(d, call[d])'
  BY <1>2, ReturnedLater DEF ClearLands
<1>4. (\A h \in Holders : Carries(persisted[h], h))'
  BY <1>2, OthersKeep DEF ClearLands
<1>5. obs' \in [Lockers -> Observation] /\ \A k \in Lockers : ObservationSound(obs[k])'
  BY <1>2, ForgetSound, ForgottenLater DEF ClearLands
<1>6. TypeOK'
  BY <1>2, <1>5, IdleSound DEF ClearLands, Return, Move, LockInvariant, TypeOK
<1> QED BY <1>2, <1>3, <1>4, <1>5, <1>6 DEF LockInvariant

\* An outside deletion of the Lease keeps the invariant: it ends the
\* acquisition in force.
LEMMA DeleteLeaseKeeps ==
  ASSUME LockInvariant, DeleteLease
  PROVE  LockInvariant'
<1>1. NoLease(0) \in Lease
  BY NoLeaseType
<1>2. Emptied(NoLease(0))
  BY DEF Emptied, NoLease, Tenured, DeleteLease, LockInvariant, TypeOK
<1>3. /\ lease' \in Lease /\ age' \in 0..Horizon /\ nextEpoch' \in Nat \ {0}
      /\ ended' \in SUBSET Nat
      /\ lease'.version = lease.version + 1
      /\ EpochsAccounted'
      /\ \A e \in Nat \cup {NoEpoch}, h \in Holders : Carries(e, h) => Carries(e, h)'
  BY <1>1, <1>2, WriteStep DEF DeleteLease
<1>4. TypeOK'
  BY <1>3 DEF DeleteLease, Fault, LockInvariant, TypeOK
<1>5. /\ \A d \in Callers : CallSound(d, call[d])'
      /\ (\A h \in Holders : Carries(persisted[h], h))'
      /\ \A k \in Lockers : ObservationSound(obs[k])'
  BY <1>3, OthersKeep DEF DeleteLease
<1> QED BY <1>3, <1>4, <1>5 DEF LockInvariant

-----------------------------------------------------------------------------
\* Every step keeps the inductive invariant, one step below per action.
LEMMA NextKeeps == LockInvariant /\ [Next]_vars => LockInvariant'
<1> SUFFICES ASSUME LockInvariant, [Next]_vars PROVE LockInvariant'
  OBVIOUS
<1>1. ASSUME NEW c \in Callers, BeginAcquire(c) PROVE LockInvariant'
  BY <1>1, BeginKeeps DEF BeginAcquire
<1>2. ASSUME NEW c \in Callers, BeginRelease(c) PROVE LockInvariant'
  BY <1>2, BeginKeeps DEF BeginRelease
<1>3. ASSUME NEW c \in Callers, Get(c) PROVE LockInvariant'
  BY <1>3, GetKeeps
<1>4. ASSUME NEW c \in Callers, JudgeContended(c) PROVE LockInvariant'
  BY <1>4, JudgeContendedKeeps
<1>5. ASSUME NEW c \in Callers, JudgeFree(c) PROVE LockInvariant'
  BY <1>5, JudgeFreeKeeps
<1>6. ASSUME NEW c \in Callers, WriteLands(c) PROVE LockInvariant'
  BY <1>6, WriteLandsKeeps
<1>7. ASSUME NEW c \in Callers, WriteConflicts(c) PROVE LockInvariant'
  BY <1>7, RetryKeeps DEF WriteConflicts
<1>8. ASSUME NEW c \in Callers, Adopt(c) PROVE LockInvariant'
  BY <1>8, AdoptKeeps
<1>9. ASSUME NEW c \in Callers, GetForRelease(c) PROVE LockInvariant'
  BY <1>9, GetForReleaseKeeps
<1>10. ASSUME NEW c \in Callers, ClearLands(c) PROVE LockInvariant'
  BY <1>10, ClearLandsKeeps
<1>11. ASSUME NEW c \in Callers, ClearConflicts(c) PROVE LockInvariant'
  BY <1>11, RetryKeeps DEF ClearConflicts
<1>12. ASSUME NEW c \in Callers, CallFails(c) PROVE LockInvariant'
  BY <1>12, ReturnKeeps DEF CallFails, Fault, LockInvariant, TypeOK
<1>13. ASSUME NEW c \in Callers, AnswerLost(c) PROVE LockInvariant'
  BY <1>13, AnswerLostKeeps
<1>14. ASSUME NEW l \in Lockers, Restart(l) PROVE LockInvariant'
  BY <1>14, RestartKeeps
<1>15. CASE DeleteLease
  BY <1>15, DeleteLeaseKeeps
<1>16. CASE Tick
  BY <1>16, TickKeeps
<1>17. CASE UNCHANGED vars
  BY <1>17 DEF vars, LockInvariant, TypeOK, ObservationSound, CallSound, Carries,
     EpochsAccounted, Tenured, Foreign
<1> QED
  BY <1>1, <1>2, <1>3, <1>4, <1>5, <1>6, <1>7, <1>8, <1>9, <1>10, <1>11, <1>12,
     <1>13, <1>14, <1>15, <1>16, <1>17 DEF Next, Proceeds

\* The inductive invariant holds in every behaviour of the Lease protocol, for
\* any number of holders, Lockers, callers, attempts and faults (Acquire,
\* Release).
THEOREM LockInvariantHolds == Spec => []LockInvariant
<1>1. Init => LockInvariant
  BY InitInvariant
<1>2. LockInvariant /\ [Next]_vars => LockInvariant'
  BY NextKeeps
<1> QED BY <1>1, <1>2, PTL DEF Spec

\* Every variable keeps its type, for every value of the constants.
THEOREM TypeCorrect == Spec => []TypeOK
<1>1. LockInvariant => TypeOK
  BY DEF LockInvariant
<1> QED BY <1>1, LockInvariantHolds, PTL

\* An epoch names one acquisition for ever: the Lease never carries one whose
\* acquisition is over (newEpoch, updateLease).
THEOREM EpochsNeverReturn == Spec => []EndedEpochsStayEnded
<1>1. LockInvariant => EndedEpochsStayEnded
  <2> SUFFICES ASSUME LockInvariant, Tenured(lease) PROVE lease.epoch \notin ended
    BY DEF EndedEpochsStayEnded
  <2>1. lease.epoch \in 1..(nextEpoch - 1)
    BY DEF LockInvariant, TypeOK, Lease, EpochsAccounted
  <2> QED BY <2>1 DEF LockInvariant, EpochsAccounted
<1> QED BY <1>1, LockInvariantHolds, PTL

-----------------------------------------------------------------------------
\* The steps that write the Lease; every other step leaves it alone, and only
\* Tick ages it.
LEMMA LeaseWriters ==
  ASSUME [Next]_vars
  PROVE  \/ UNCHANGED <<lease, age, nextEpoch>>
         \/ Tick
         \/ \E c \in Callers : WriteAcquired(c) \/ (WriteReleased(c) /\ Return(c))
         \/ DeleteLease
<1>1. ASSUME NEW c \in Callers, WriteLands(c) \/ AnswerLost(c) \/ ClearLands(c)
      PROVE  WriteAcquired(c) \/ (WriteReleased(c) /\ Return(c))
  BY <1>1 DEF WriteLands, AnswerLost, ClearLands
<1> QED BY <1>1 DEF Next, vars, Proceeds, BeginAcquire, BeginRelease, Begin, Get,
     JudgeContended, JudgeFree, WriteConflicts, Adopt, GetForRelease,
     ClearConflicts, CallFails, Restart

\* No holder loses the Lease to another one before its whole duration has
\* passed since it last wrote it, whatever the interleaving of reads,
\* observations, writes, restarts and lost answers (Acquire).
THEOREM TakeoverWaits == Spec => NoEarlyTakeover
<1> DEFINE Waits == \A h \in Holders :
             (Tenured(lease) /\ lease.holder = h /\ lease'.exists
                /\ lease'.holder \notin {h, NoHolder})
             => age >= lease.duration
<1>1. LockInvariant /\ [Next]_vars => [Waits]_vars
  <2> SUFFICES ASSUME LockInvariant, [Next]_vars, NEW h \in Holders,
                      Tenured(lease), lease.holder = h, lease'.exists,
                      lease'.holder \notin {h, NoHolder}
               PROVE  age >= lease.duration
    OBVIOUS
  <2>1. CASE UNCHANGED <<lease, age, nextEpoch>> \/ Tick
    BY <2>1 DEF Tick
  <2>2. CASE DeleteLease
    BY <2>2 DEF DeleteLease, Write, NoLease
  <2>3. ASSUME NEW c \in Callers, WriteReleased(c) PROVE age >= lease.duration
    <3>1. lease'.holder = NoHolder
      BY <2>3 DEF WriteReleased, Write, LockInvariant, TypeOK, Call, Lease
    <3> QED BY <3>1
  <2>4. ASSUME NEW c \in Callers, WriteAcquired(c) PROVE age >= lease.duration
    <3>1. lease'.holder = HolderOf[c]
      BY <2>4, AcquiredLease DEF Write, Lease
    <3>2. call[c].at = "update" /\ lease.version = call[c].seen.version
      BY <2>4 DEF WriteAcquired, Wins, Current, Tenured
    <3>3. Foreign(c, lease)
      BY <3>1 DEF Foreign, Tenured
    <3> QED BY <3>2, <3>3 DEF LockInvariant, CallSound
  <2> QED BY <2>1, <2>2, <2>3, <2>4, LeaseWriters
<1> QED BY <1>1, LockInvariantHolds, PTL DEF Spec, NoEarlyTakeover

\* Only a write that lands and is answered grants a caller the Lease.
LEMMA GrantedBy ==
  ASSUME LockInvariant, [Next]_vars, NEW c \in Callers,
         call[c].at # "adopt", call'[c].at = "adopt"
  PROVE  WriteLands(c)
<1>1. call \in [Callers -> Call]
  BY DEF LockInvariant, TypeOK
<1>2. ASSUME NEW d \in Callers, NEW r, Move(d, r), r.at # "adopt" PROVE FALSE
  BY <1>1, <1>2 DEF Move
<1>3. ASSUME NEW d \in Callers, Return(d) PROVE FALSE
  BY <1>2, <1>3 DEF Return, Idle, Running
<1>4. ASSUME NEW d \in Callers, NEW label \in {"get", "getRelease"}, Retry(d, label)
      PROVE  FALSE
  BY <1>2, <1>3, <1>4 DEF Retry, Running
<1>5. ASSUME NEW d \in Callers, BeginAcquire(d) \/ BeginRelease(d) PROVE FALSE
  BY <1>2, <1>5 DEF BeginAcquire, BeginRelease, Begin, Running
<1>6. ASSUME NEW d \in Callers, Get(d) \/ JudgeFree(d) PROVE FALSE
  BY <1>2, <1>6 DEF Get, JudgeFree, Running
<1>7. ASSUME NEW d \in Callers, GetForRelease(d) PROVE FALSE
  BY <1>2, <1>3, <1>7 DEF GetForRelease, Running
<1>8. ASSUME NEW d \in Callers, WriteLands(d) PROVE d = c
  BY <1>1, <1>8 DEF WriteLands, Move
<1>9. ASSUME NEW l \in Lockers, Restart(l) PROVE FALSE
  BY <1>1, <1>9 DEF Restart, Idle, Running
<1> QED
  BY <1>3, <1>4, <1>5, <1>6, <1>7, <1>8, <1>9
  DEF Next, vars, Proceeds, JudgeContended, WriteConflicts, Adopt, ClearLands,
      ClearConflicts, CallFails, AnswerLost, DeleteLease, Tick

\* Acquire reports a lost continuity exactly when the acquisition the claim
\* recorded is over, or the claim never recorded one (AcquireResult).
THEOREM ContinuityIsExact == Spec => ContinuityExact
<1> DEFINE Exact == \A c \in Callers :
             (call[c].at \in {"create", "update"} /\ call'[c].at = "adopt"
                /\ call[c].expected # NoEpoch)
             => (call'[c].lost <=> call[c].expected \in ended \cup {Placeholder})
<1>1. LockInvariant /\ [Next]_vars => [Exact]_vars
  <2> SUFFICES ASSUME LockInvariant, [Next]_vars, NEW c \in Callers,
                      call[c].at \in {"create", "update"}, call'[c].at = "adopt",
                      call[c].expected # NoEpoch
               PROVE  call'[c].lost <=> call[c].expected \in ended \cup {Placeholder}
    OBVIOUS
  <2> DEFINE e == call[c].expected
  <2>1. WriteLands(c)
    BY GrantedBy
  <2>2. call'[c].lost = ContinuityLost(c)
    BY <2>1 DEF WriteLands, Move, Granted, LockInvariant, TypeOK
  <2>3. /\ e \in Nat /\ lease.epoch \in Nat /\ nextEpoch \in Nat
        /\ Carries(e, HolderOf[c]) /\ EpochsAccounted
    BY DEF LockInvariant, TypeOK, Call, Lease, CallSound
  <2>4. call[c].at = "update" => call[c].seen = lease /\ lease.exists
    BY <2>1 DEF WriteLands, WriteAcquired, Wins, Current, LockInvariant, CallSound
  <2>5. ASSUME Keeps(c), call[c].seen.epoch = e
        PROVE  e \notin ended \cup {Placeholder}
    <3>1. Tenured(lease) /\ lease.epoch = e
      BY <2>4, <2>5, LockConstants DEF Keeps, Own, Tenured
    <3>2. e > 0 /\ e \in 1..(nextEpoch - 1)
      BY <2>3, <3>1 DEF EpochsAccounted
    <3> QED BY <2>3, <3>1, <3>2 DEF EpochsAccounted, Placeholder
  <2>6. ASSUME e \notin ended \cup {Placeholder}
        PROVE  Keeps(c) /\ call[c].seen.epoch = e
    <3>1. e \in 1..(nextEpoch - 1)
      BY <2>3, <2>6 DEF Carries, Placeholder
    <3>2. Tenured(lease) /\ lease.epoch = e
      BY <2>3, <2>6, <3>1 DEF EpochsAccounted
    <3>3. lease.holder = HolderOf[c]
      BY <2>3, <3>2 DEF Carries
    <3>4. call[c].at = "update"
      BY <2>1, <3>2 DEF WriteLands, WriteAcquired, Wins, Tenured
    <3> QED BY <2>4, <3>2, <3>3, <3>4 DEF Keeps, Own
  <2>7. ContinuityLost(c) <=> ~(Keeps(c) /\ call[c].seen.epoch = e)
    BY DEF ContinuityLost
  <2>8. ContinuityLost(c) <=> e \in ended \cup {Placeholder}
    <3> HIDE DEF e
    <3> QED BY <2>5, <2>6, <2>7
  <2> QED BY <2>2, <2>8
<1> QED BY <1>1, LockInvariantHolds, PTL DEF Spec, ContinuityExact

\* Release empties the Lease only for the acquisition its claim recorded, so a
\* late or repeated release ends no later acquisition (Release).
THEOREM ReleaseIsNamed == Spec => ReleaseOnlyNamedAcquisition
<1>1. LockInvariant /\ [Next]_vars => [EmptiesNamed]_vars
  <2> SUFFICES ASSUME LockInvariant, [Next]_vars, Tenured(lease),
                      lease'.exists, lease'.holder = NoHolder
               PROVE  \E c \in Callers : /\ call[c].at = "clear" /\ call'[c].at = "idle"
                                         /\ HolderOf[c] = lease.holder
                                         /\ call[c].expected = lease.epoch
    BY DEF EmptiesNamed
  <2>1. lease' # lease
    BY DEF Tenured
  <2>2. ~DeleteLease
    BY DEF DeleteLease, Write, NoLease
  <2>3. \A c \in Callers : ~WriteAcquired(c)
    BY AcquiredLease, LockConstants DEF Write, Lease
  <2>4. PICK c \in Callers : WriteReleased(c) /\ Return(c)
    BY <2>1, <2>2, <2>3, LeaseWriters DEF Tick
  <2>5. call[c].seen = lease
    BY <2>4 DEF WriteReleased, Current, LockInvariant, CallSound
  <2>6. call[c].at = "clear" /\ call[c].seen.holder = HolderOf[c]
        /\ call[c].seen.epoch = call[c].expected
    BY <2>4 DEF WriteReleased, LockInvariant, CallSound
  <2>7. call'[c].at = "idle"
    BY <2>4 DEF Return, Move, Idle, Running, LockInvariant, TypeOK
  <2> QED BY <2>5, <2>6, <2>7
<1> QED BY <1>1, LockInvariantHolds, PTL DEF Spec, ReleaseOnlyNamedAcquisition

-----------------------------------------------------------------------------
\* Every step of the Lease protocol is a step of RealmLock or invisible to it.
LEMMA RealmSteps ==
  ASSUME LockInvariant, [Next]_vars
  PROVE  [Realm!RealmNext]_(Realm!realmVars)
<1> DEFINE owner == IF lease.exists THEN lease.holder ELSE NoHolder
           term == IF Tenured(lease) THEN lease.epoch ELSE 0
           rest == IF Tenured(lease) /\ lease.duration > age
                   THEN lease.duration - age ELSE 0
           issued == nextEpoch - 1
<1>0. /\ lease \in Lease /\ age \in 0..Horizon /\ nextEpoch \in Nat \ {0}
      /\ age \in Int /\ lease.duration \in Int /\ Horizon \in Nat
  BY LockConstants DEF LockInvariant, TypeOK, Lease
<1>1. CASE UNCHANGED <<lease, age, nextEpoch>>
  BY <1>1 DEF Realm!realmVars, Tenured
<1>2. CASE Tick
  <2>1. UNCHANGED <<owner, term, issued>>
    BY <1>2 DEF Tick, Tenured
  <2>2. rest' = IF rest > 0 THEN rest - 1 ELSE 0
    BY <1>0, <1>2 DEF Tick, Tenured, Older, Lease
  <2> QED BY <2>1, <2>2 DEF Realm!RealmNext, Realm!RealmTick
<1>3. CASE DeleteLease
  <2>1. owner' = NoHolder /\ term' = 0 /\ rest' = 0 /\ UNCHANGED issued
    BY <1>3 DEF DeleteLease, Write, NoLease, Tenured
  <2>2. CASE owner = NoHolder
    BY <2>1, <2>2 DEF Realm!realmVars, Tenured
  <2> QED BY <2>1, <2>2 DEF Realm!RealmNext, Realm!Free
<1>4. ASSUME NEW c \in Callers, WriteReleased(c)
      PROVE  [Realm!RealmNext]_(Realm!realmVars)
  <2>1. lease'.holder = NoHolder /\ UNCHANGED nextEpoch
    BY <1>4 DEF WriteReleased, Write, LockInvariant, TypeOK, Call, Lease
  <2>2. owner' = NoHolder /\ term' = 0 /\ rest' = 0 /\ UNCHANGED issued
    BY <2>1 DEF Tenured
  <2>3. owner # NoHolder
    BY <1>4, LockConstants DEF WriteReleased, Current, LockInvariant, CallSound
  <2> QED BY <2>2, <2>3 DEF Realm!RealmNext, Realm!Free
<1>5. ASSUME NEW c \in Callers, WriteAcquired(c)
      PROVE  [Realm!RealmNext]_(Realm!realmVars)
  <2>1. /\ lease'.exists /\ lease'.holder = HolderOf[c] /\ lease'.duration = DurationOf[c]
        /\ lease'.epoch = GrantedEpoch(c) /\ age' = 0
    BY <1>5 DEF WriteAcquired, Write
  <2>2. HolderOf[c] \in Holders /\ HolderOf[c] # NoHolder /\ DurationOf[c] \in 1..Horizon
    BY LockConstants
  <2>3. owner' = HolderOf[c] /\ term' = GrantedEpoch(c) /\ rest' = DurationOf[c]
    BY <2>1, <2>2 DEF Tenured
  <2>4. CASE Keeps(c)
    <3>1. call[c].seen = lease /\ lease.exists /\ lease.holder = HolderOf[c]
      BY <1>5, <2>4 DEF Keeps, Own, WriteAcquired, Wins, Current, LockInvariant, CallSound
    <3>2. owner = HolderOf[c] /\ UNCHANGED <<owner, term, issued>>
      BY <1>5, <2>2, <2>3, <2>4, <3>1 DEF WriteAcquired, GrantedEpoch, Tenured
    <3>3. Realm!Renew(HolderOf[c], DurationOf[c])
      BY <2>3, <3>2 DEF Realm!Renew
    <3> QED BY <2>2, <3>3 DEF Realm!RealmNext
  <2>5. CASE ~Keeps(c)
    <3>1. term' = nextEpoch /\ issued' = issued + 1
      BY <1>0, <1>5, <2>3, <2>5 DEF WriteAcquired, GrantedEpoch
    <3>2. owner = NoHolder \/ rest = 0
      <4>1. CASE lease.exists /\ lease.holder # NoHolder
        <5>1. call[c].at = "update" /\ call[c].seen = lease
          BY <1>5, <4>1 DEF WriteAcquired, Wins, Current, LockInvariant, CallSound
        <5>2. Foreign(c, lease)
          BY <2>5, <4>1, <5>1 DEF Keeps, Own, Foreign
        <5>3. age >= lease.duration
          BY <5>1, <5>2 DEF LockInvariant, CallSound
        <5> QED BY <1>0, <5>3
      <4> QED BY <4>1
    <3>3. term' = issued'
      BY <1>0, <3>1
    <3>4. Realm!Grant(HolderOf[c], DurationOf[c])
      BY <2>3, <3>1, <3>2, <3>3 DEF Realm!Grant
    <3> QED BY <2>2, <3>4 DEF Realm!RealmNext
  <2> QED BY <2>4, <2>5
<1> QED BY <1>1, <1>2, <1>3, <1>4, <1>5, LeaseWriters

\* The Lease protocol implements the lock the operations rely on, for every
\* number of managers, claims, attempts and faults (Acquire, Release).
THEOREM LeaseImplementsRealmLock == Spec => ImplementsRealmLock
<1>1. Init => Realm!RealmInit
  BY DEF Init, NoLease, Tenured, Realm!RealmInit
<1>2. LockInvariant /\ [Next]_vars => [Realm!RealmNext]_(Realm!realmVars)
  BY RealmSteps
<1> QED
  BY <1>1, <1>2, LockInvariantHolds, PTL DEF Spec, ImplementsRealmLock, Realm!RealmSpec
=============================================================================
