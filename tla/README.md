# Ptah operator: TLA+ verification

Ptah operator is a Kubernetes operator that changes database schemas. A person
declares a `PtahSchema` or a `PtahMigration`; a leader-elected manager resolves
and verifies its source, reads the database, publishes a plan, waits for an
approval where the policy asks for one, and runs an *Apply*: a Job whose
executor changes the database. This directory models the part where a mistake
costs a database: who may write, when, how often, and what is remembered when
nobody can tell what a run did.

## The system and its parts

| Part | Source | Here |
| --- | --- | --- |
| Target lock: one Lease per database | `internal/targetlock` | `TargetLock`, `RealmLock`; checked and proved |
| Decisions both families share | `internal/mutationlifecycle` | `MutationLifecycle` |
| Migration Apply, from claim to released Lease | `internal/controller/migration_*.go` | `MigrationApply`; checked |
| Schema reconciliation: claims, proof of an Apply, bindings | `internal/controller/schema_*.go` | `SchemaLifecycle`; checked |
| Admission of Jobs and Pods, approvals, acknowledgments | `internal/controllerwrite`, `podintent`, `jobclaim`, `admission` | guards of `MigrationApply` and `SchemaLifecycle` |
| Runner deadlines and report | `internal/runner` | `StartExecutor`, `Stop` of `MigrationApply`; `StartExecutor`, `Execute`, `Tick` of `SchemaLifecycle` |
| Realm census, plan store, refresh cadence | `internal/controller/realm.go`, `internal/planstore`, `cadence.go` | planned |
| Result store, delivery, credentials, retention, cleanup | `internal/result*` | planned |
| Certificate rotation | `internal/certrotation` | planned |
| CRD and runtime upgrade | `internal/crdupgrade` | planned |
| Job building, protocol data, views, telemetry, API types | `internal/workload`, `dataplane`, `*view`, ... | not modelled: data, I/O or presentation |

A claim (`status.activeOperation`) is written before the Job it stands for. An
Apply claim takes the database's Lease, marks itself dispatched, creates one
Job, and is retired with what the run did: its own report, or a record that
nobody knows (`status.unresolvedRun`), which blocks every later Apply until a
history reading or a person settles it. A schema's Apply is never believed on
its word: it leaves a proof to be made (`status.pendingObservation`), an Observe
and a Plan read under the Apply's own Lease, and only that proof ends it. The
retiring write stages the release of the Lease; a later call performs it.
`PROJECT.json` maps every definition to its lines and lists the hazards, the
ones no property covers yet included.

## Modules

**`RealmLock`** is what users of the lock rely on: an owner, a term per
ownership, a rest of time, and steps `Grant`, `Renew`, `Free`, `RealmTick`.

**`TargetLock`** is the Lease protocol: each read and each compare-and-swap
write of `Acquire` and `Release` is a step; a Locker's in-memory observation of
a foreign Lease is a variable, shared by its callers; restarts, failed calls,
lost answers, conflicts and outside deletions are actions. It implements
`RealmLock`.

**`MutationLifecycle`** holds pure operators with the names of the Go
functions: operation tables, `VerdictFor`, `DispatchFailure`, `RealmHeldBy`,
`Releases`.

**`MigrationApply`** composes `RealmLock` and `MutationLifecycle`. `st[g]` is
the stored object; `pass[m]` is a manager's pass: where it is, the object it
read, the write it is about to make and whether its resourceVersion is current.
`Begin` reads the object and picks the duty in the order of `reconcile`'s early
returns; each action after that is the code up to the next API call, so a stop
(`PassStops`) can fall between any two calls. A write with an outdated version
changes nothing and ends the pass; the model ends it as soon as that is
certain. Jobs, Pods and executors have a life of their own (`AnswerCreate` to
`EndJob`), under the admission guards. Times are countdowns: `left[i]` until the
executor of claim `i` is gone, `rest` until the Lease expires. `db[g]` is what
a migration's files did: *pending*, *partial* (committed and invisible in the
history), *dirty* (a dirty revision row) or *applied*.

**`SchemaLifecycle`** composes the same two modules for one `PtahSchema`: `st` is
the stored object and `pass` the manager's pass, cut at API calls as above. The
operators under *What status writes make of the object* are the code's
transitions of status, one per Go function; the actions decide which of them is
written and in which pass. `read` is the Job of the current read-only claim;
`job`, `pod`, `exec`, `report` and `left` belong to Apply claims. A plan is what
it wants, the database state it was made from, its binding epoch and its
approval; `db` is the database and `by` its last writer. A claim's input
fingerprint is the record of its inputs (`Inputs`). `Edit`, `MoveTag`,
`Reconfigure` and the rival, another resource on the same database, are the
surroundings.

`MCTargetLock`, `MCMigrationApply` and `MCSchemaLifecycle` instantiate these for
TLC; `TargetLockProofs` holds the proofs. Operators commented *Mutant* are wrong
on purpose: each stands for a plausible bug and makes a property fail.

## Runs

| Run | Shows |
| --- | --- |
| `TargetLock_safety` | no takeover before the full duration, continuity reported exactly, a release ends only its own acquisition, epochs never return, `RealmLock` is implemented |
| `TargetLock_liveness` | an abandoned Lease is taken over in the end |
| `MigrationApply_realm` | two migrations on one database: an executor writes only under its own Lease, and the Lease is given back only when nothing of the run can write |
| `MigrationApply_managers` | a deposed manager finishes its pass beside the new leader: nothing is replayed, forgotten or dispatched unmarked |
| `MigrationApply_recovery` | any two faults in the life of one migration that needs approval, restore without status included: nothing is replayed or forgotten, an approval is spent before its run and authorizes one run, every record has its copy, the finalizer outlives every obligation |
| `MigrationApply_liveness` | claims end, owed releases are paid, deletions complete |
| `SchemaLifecycle_safety` | two faults of any kind, second Pods and a rival included: an executor writes only under its Apply's Lease, the Lease is given back and the object called in sync only when nothing of the Apply can still write, an Apply is credited only with what it was the last to write, a plan in status is of the current binding, a retired Job has an owner, the finalizer outlives every obligation |
| `SchemaLifecycle_approval` | an approval is spent before its Job exists and authorizes one |
| `SchemaLifecycle_liveness` | proofs are settled, replaced bindings worked off, owed releases paid, deletions completed |

Three runs expect a violation: the code does something that a comment or a
document of the repository says it does not.

| Run | What the code does | What is said |
| --- | --- | --- |
| `MigrationApply_late_create` | A create that got no answer is looked for, not found, and stored afterwards; given its Pod before the retiring write lands, its executor starts after the Lease was handed back | `mutation-lifecycle.md:436`: the release happens only when nothing of the claim can still write |
| `MigrationApply_copy_restored` | Copy written, status write lost, run then accounted for, removal of the copy lost: the next pass restores the accounted run as unresolved | `migration_unresolved_run.go:35`: every gap between the two writes is safe to stop in |
| `SchemaLifecycle_retried` | A failed Plan is retried with its epoch cleared; its next acquisition takes the empty epoch for lost continuity and the claim is discarded for a new Observe | `schema_controller.go:2432`: the claim goes on, and the next attempt takes the realm again under an epoch of its own |

The second errs on the side of blocking; the third costs a read of the database
and reports a loss that did not happen. Two texts are out of date where the code
is deliberate: `mutationlifecycle/dispatch.go:6` says the dispatch mark is never
cleared, and a refused create clears it (`CreateAnswered`);
`mutation-lifecycle.md:357` says a run has a claim or a record, never both, and a
run that may still write keeps its claim beside its record (`Retire`).

### Bounds

Claims, reads, Lease grants and faults are counted and bounded. Two claims are
enough for a second run to meet what the first one left; two reads plan twice;
one fault reaches every single stop, failed call, election, moved input,
deletion or restore, and two reach a second one during recovery from the first.
`Window = 1` and `StopGrace = 1` give an executor that is in time, one that is
late, and an instant between its deadline and its end; the Lease lasts exactly
that long, the tightest case. A pass that needs a further grant beyond
`MaxGrants` waits; the liveness run has one grant more than claims. In
`SchemaLifecycle` only Plan and Apply claims that take the Lease for themselves
are counted (`MaxClaims`); reads are not. Two claims are one whole cycle, four
are two Apply claims with the Plans before them; two contents let a moved source
meet a proof of the old one. Its `Window` is 1 in the safety run and 2
elsewhere, and its Lease outlives the executor by nothing (`LeaseGrace =
StopGrace`), the tightest case the assumption admits. Symmetry over migrations,
managers and approvals is used in safety runs only. Deadlock is not checked for
`MigrationApply` and `SchemaLifecycle`: with its counters used up, or its object
gone, each may stop.

### Premises

- `LateCreates = FALSE` in `MigrationApply_realm`: a create is not stored after
  its caller stopped waiting. `MigrationApply_late_create` shows that it is
  needed. For the same reason that run has one manager: a new leader may look
  for the Job of a create its predecessor is still sending.
- The person who acknowledges a run waits until its claim is retired and its
  Pod has stopped, and puts the database right. Admission asks for less; this is
  listed as a hazard.
- A restore replaces an object while nothing of it runs.
- That a Job fails the comparison with the Job its claim builds is a fault, met
  when a create is confirmed (`Confirm`), before a Job is adopted and on every
  pass that supervises one (`HoldJobToItsClaim`), whether it runs or is over.
- The ten seconds a pass gives a terminal Job's Pod, and the wait for a read-only
  Job that is not found, have no length here: either may be over at once.
- `SchemaLifecycle` needs no premise about late creates: a proof of an Apply
  whose Job nobody found waits until the claim's window has closed. That the Lease
  may go back before a Pod past that window has stopped rests on the runner, which
  starts nothing after its deadline (`CanStillWrite`).
- In `SchemaLifecycle` a resting object may be refreshed at any time (refresh
  times, read requests and moved ConfigMaps are one choice). A refresh in the
  middle of a cycle, a moved policy, a refused plan, a
  target that answers with another identity, an unreadable plan or log, and a
  foreign Job under a claim's name are faults that count against `MaxFaults`.
  Left out: engine support, the check of the stored state's version, the Git
  source that skips Verify, plan publication, conditions and events. A read-only
  Job goes with its claim: its name holds the attempt, so no later claim reads it.
  One manager runs at a time.
- Clocks advance at one rate; the runner stops its child at its deadline.
- The API server, Job controller, kubelet and Ptah itself are external and
  modelled from how the operator uses them.

### Fairness

A stored object keeps coming back to the leader's work queue (strong fairness of
`Begin`), a pass that began goes on (weak fairness of `Step`), the cluster runs
what it was given (weak fairness of `Cluster`), read-only and history Jobs
report, time passes. Faults, elections and everything people do are not fair: a
Job that is collected (`CollectJob`) is a disjunct of `Next` outside `Cluster`,
so no liveness property rests on its going. In `TargetLock` a call that
began makes progress and time passes; that a refused claim polls again is the
premise of the property, so that the holder itself may stay away for good.

## Proofs

`TargetLockProofs` proves, for any number of operations, Lockers, callers,
attempts, faults and any durations that satisfy the named assumptions of
`TargetLock`: the inductive invariant (`LockInvariantHolds`), type correctness,
`EpochsNeverReturn`, `TakeoverWaits`, `ContinuityIsExact`, `ReleaseIsNamed` and
the refinement `LeaseImplementsRealmLock`.

The safety properties are not inductive: they speak of the stored Lease, and a
step depends on what callers and Lockers remember of it. `LockInvariant` ties
these to it: what a caller read is a version that was stored, an observation of
the current record is no older than that record, and an epoch belongs to one
acquisition. The proofs go through one lemma per kind of step (a write of the
Lease, a move of a caller, a change of an observation) and one step per action.

Liveness is beyond the prover and stays with TLC, and so far everything about
`MigrationApply` and `SchemaLifecycle` does.

## Plan

1. An abstract single-writer specification that `MigrationApply` and
   `SchemaLifecycle` both implement; engine support and the Git source in
   `SchemaLifecycle`.
2. Proofs for `MigrationApply`: type correctness, then `RecordHasCopy`,
   `MarkCoversJob` and `ObligationsHoldObject` (this one for `SchemaLifecycle`
   too, with `PlanIsOfCurrentBinding` and `RetirementHasItsClaim`), whose
   invariants relate a pass's copy of the object to the stored one; last
   `WriterHoldsRealm`.
3. `ResultStore`: publication by competing receivers, readers, retirement and
   collection; an abstract write-once register it implements, with a proof.
4. `CertRotation`: the CA transition with its delay, probes, crashes and Lease;
   every endpoint stays trusted by every API server.
5. `RuntimeUpgrade`, `PlanStore` and the realm census.
6. Pure functions: refresh slots and deadlines, the lease budget with its real
   limits, OCI reference matching.
