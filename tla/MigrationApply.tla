--------------------------- MODULE MigrationApply ---------------------------
(***************************************************************************)
(* The life of a migration's Apply, from the claim in status to the Lease  *)
(* given back, as the migration controller runs it: passes that read the   *)
(* object once and then make one API call at a time, any of which may be   *)
(* the last one before the manager stops; status writes under optimistic   *)
(* locking; the Job and the Pod an admission webhook holds to the claim;   *)
(* the executor writing the database; the annotation that keeps a run      *)
(* nobody accounted for; approvals, acknowledgments, deletion, restore.    *)
(*                                                                         *)
(* All migrations address one database realm, whose Lease is RealmLock.    *)
(***************************************************************************)
EXTENDS RealmLock, MutationLifecycle, FiniteSets

CONSTANTS
    Migrations,     \* PtahMigration objects of the realm
    NoMigration,
    Managers,       \* manager processes
    Approvals,      \* PtahMigrationApproval objects people may create
    NoApproval,
    NeedsApproval,  \* spec.policy.apply is OnApproval rather than Always
    MaxClaims,      \* bound: Apply claims ever made
    MaxReads,       \* bound: read claims ever made
    MaxGrants,      \* bound: ownerships of the Lease ever granted
    MaxFaults,      \* bound: crashes, elections, failed calls, moved inputs, ...
    Window,         \* from a claim to its executionNotAfter
    StopGrace,      \* how long a stopped executor may still take
    LeaseGrace,     \* what the Lease lasts beyond that
    LateCreates     \* a create may be stored after its caller stopped waiting

Ids == 1..MaxClaims
None == 0
Ids0 == Ids \cup {None}

\* Mutant: the grace of a stopped executor is left out.
LeaseDurationWithoutGrace == Window

\* A claim's lock outlives the last instant its executor may write.
LeaseDuration == Window + StopGrace + LeaseGrace

ASSUME MigrationConstants ==
    /\ MaxClaims \in Nat \ {0} /\ MaxReads \in Nat /\ MaxGrants \in Nat
    /\ MaxFaults \in Nat
    /\ Window \in Nat \ {0} /\ StopGrace \in Nat /\ LeaseGrace \in Nat
    /\ NoApproval \notin Approvals /\ NoMigration \notin Migrations
    /\ NeedsApproval \in BOOLEAN /\ LateCreates \in BOOLEAN
    /\ Owners = Ids /\ NoOwner = None /\ Longest >= LeaseDuration

VARIABLES
    st,         \* the stored PtahMigration: metadata and status
    pass,       \* each manager's pass in progress
    leader,     \* the manager elected to begin passes
    job,        \* each claim's create request, then its Job
    pod,        \* the Job's one Pod, as the API server shows it
    exec,       \* the executor process in that Pod
    report,     \* what the run says of itself when its log is read
    left,       \* time until the claim's executor is gone for certain
    of,         \* the migration each claim belongs to
    under,      \* the approval each claim was made under
    db,         \* what each migration's files have done to the database
    view,       \* what the last history Job of the migration reported
    acks,       \* runs a person acknowledged
    appr,       \* approvals
    claims,     \* Apply claims made so far
    reads,      \* read claims made so far
    faults

world == <<leader, job, pod, exec, report, left, of, under, db, view, acks, appr, claims, reads, faults>>
vars == <<st, pass, world, realmVars>>

-----------------------------------------------------------------------------
(* The stored object.                                                      *)

NewClaim(i, a) ==
    [id |-> i, epoch |-> 0, lost |-> FALSE, snapshot |-> FALSE,
     started |-> FALSE, uid |-> FALSE, approval |-> a]
NoClaim == NewClaim(None, NoApproval)

NoRelease == [id |-> None, epoch |-> 0]

NewMigration ==
    [exists |-> TRUE, deleting |-> FALSE, finalizer |-> FALSE,
     claim |-> NoClaim,         \* activeOperation, when it is an Apply
     reading |-> FALSE,         \* activeOperation, when it is a read
     planned |-> FALSE,         \* a published plan, in a phase that decides it
     unresolved |-> None,       \* unresolvedRun
     copy |-> None,             \* its copy, in an annotation
     resolved |-> None,         \* resolvedRun
     last |-> None,             \* lastRun, when its outcome is established
     release |-> NoRelease]     \* pendingLockRelease

Gone == [NewMigration EXCEPT !.exists = FALSE]

SetClaim(s, c) == [s EXCEPT !.claim = c]
SetReading(s, b) == [s EXCEPT !.reading = b]
SetPlanned(s, b) == [s EXCEPT !.planned = b]
SetUnresolved(s, i) == [s EXCEPT !.unresolved = i]
SetResolved(s, i) == [s EXCEPT !.resolved = i]
SetCopy(s, i) == [s EXCEPT !.copy = i]
SetLast(s, i) == [s EXCEPT !.last = i]
SetRelease(s, r) == [s EXCEPT !.release = r]
SetFinalizer(s, b) == [s EXCEPT !.finalizer = b]

Dispatched(s) == MayHaveDispatched(s.claim.started, s.claim.uid)

\* Mutant: a run that may still write gives its lock back like any other.
RetireRegardless(s, disposition, mayStillWrite) ==
    SetClaim(SetRelease(s, [id |-> s.claim.id, epoch |-> s.claim.epoch]), NoClaim)

\* stageMigrationLockRelease and the fate of the claim, in one status write:
\* a run that may still write keeps its claim and its lock.
Retire(s, disposition, mayStillWrite) ==
    LET c == s.claim
        gives == Releases(migrationOperations.Apply, TRUE, FALSE, disposition,
                          FALSE, mayStillWrite, FALSE) = "claim"
        owed == IF gives THEN SetRelease(s, [id |-> c.id, epoch |-> c.epoch]) ELSE s
    IN  IF disposition = Unaccounted /\ mayStillWrite
        THEN owed ELSE SetClaim(owed, NoClaim)

\* A claim that dispatched nothing: the phase goes back to the beginning.
DiscardClaim(s) == Retire(SetPlanned(s, FALSE), Discard, FALSE)

\* Mutant: the claim is retired and no record takes its place.
RetireUncertainUnrecorded(s, mayStillWrite) ==
    Retire(SetLast(SetPlanned(s, FALSE), None), Unaccounted, mayStillWrite)

\* A run whose outcome nobody established.
RetireUncertain(s, mayStillWrite) ==
    Retire(SetLast(SetUnresolved(SetPlanned(s, FALSE), s.claim.id), None),
           Unaccounted, mayStillWrite)

\* A run that gave its own account; a partial one still needs a person.
RecordRun(s, account) ==
    LET s1 == SetPlanned(s, FALSE)
        s2 == IF account = "partial"
              THEN SetLast(SetUnresolved(s1, s.claim.id), None)
              ELSE SetLast(s1, s.claim.id)
    IN  Retire(s2, Accounted, FALSE)

\* Mutant: any reading settles an unresolved run.
RecordHistorySettling(s, seen) ==
    LET s1 == SetPlanned(SetReading(s, FALSE), FALSE)
    IN  IF s.unresolved # None
        THEN SetUnresolved(SetResolved(s1, s.unresolved), None)
        ELSE s1

\* What a reading of the history settles: nothing pending ends an unresolved
\* run, and only a pending history with no such run goes on to be planned.
RecordHistory(s, seen) ==
    LET s1 == SetPlanned(SetReading(s, FALSE), FALSE)
    IN  IF seen = "applied" /\ s.unresolved # None
        THEN SetUnresolved(SetResolved(s1, s.unresolved), None)
        ELSE s1

-----------------------------------------------------------------------------
(* A pass: what it read, what it is about to write, and where it goes.     *)

Pass(at, g, fresh, seen, todo, then, given) ==
    [at |-> at, g |-> g, fresh |-> fresh, seen |-> seen, todo |-> todo,
     then |-> then, given |-> given]

IdlePass == Pass("idle", NoMigration, FALSE, Gone, Gone, "idle", "none")

At(m, label) == pass[m].at = label
Id(m) == pass[m].seen.claim.id
Seen(m) == pass[m].seen

\* The pass moves on without touching anything stored.
Becomes(m, p) == pass' = [pass EXCEPT ![m] = p] /\ UNCHANGED st

Goes(m, at, then, given) ==
    Becomes(m, Pass(at, pass[m].g, pass[m].fresh, Seen(m), Seen(m), then, given))

PassReturns(m) == Becomes(m, IdlePass)

\* Mutant: status is written first.
PatchFromStatusFirst(p, s, then) == Pass("patch", p.g, TRUE, p.seen, s, then, p.given)

\* patchMigrationStatus: the copy of an unresolved run goes first.
PatchFrom(p, s, then) ==
    Pass(IF s.unresolved # None /\ s.copy # s.unresolved THEN "copy" ELSE "patch",
         p.g, TRUE, p.seen, s, then, p.given)

(***************************************************************************)
(* Every write to the object is made under optimistic locking: one that    *)
(* carries an outdated resourceVersion changes nothing and ends the pass.  *)
(* That pass is ended where its version becomes outdated, or where it      *)
(* decides to write with one.                                              *)
(***************************************************************************)
Patches(m, s, then) ==
    IF pass[m].fresh THEN Becomes(m, PatchFrom(pass[m], s, then)) ELSE PassReturns(m)

Writing == {"copy", "patch", "drop", "finalize", "unfinalize"}

\* The other passes on g hold a resourceVersion that is no longer current.
Outdate(g, m, p) ==
    pass' = [n \in Managers |->
                IF n = m THEN p
                ELSE IF pass[n].g # g THEN pass[n]
                ELSE IF pass[n].at \in Writing THEN IdlePass
                ELSE Pass(pass[n].at, g, FALSE, pass[n].seen, pass[n].todo,
                          pass[n].then, pass[n].given)]

\* A write of a pass whose version is current.
Writes(m, s, p) ==
    /\ pass[m].fresh
    /\ st' = [st EXCEPT ![pass[m].g] = s]
    /\ Outdate(pass[m].g, m, p)

Fault == faults < MaxFaults /\ faults' = faults + 1

Found(i) == job[i] \in {"live", "done"}
JobGiven(i) == IF Found(i) THEN job[i] ELSE "none"

\* Mutant: a copy status knows nothing of is left alone.
DutyIgnoringCopy(s) ==
    CASE s.release # NoRelease -> "release"
      [] s.release = NoRelease /\ s.claim.id # None ->
            IF s.unresolved = s.claim.id THEN "recheck"
            ELSE IF s.deleting THEN "delete" ELSE "active"
      [] s.release = NoRelease /\ s.claim.id = None ->
            IF s.deleting THEN "delete" ELSE IF s.reading THEN "reading"
            ELSE IF s.finalizer THEN "unfinalize" ELSE "decide"

(***************************************************************************)
(* What reconcile attends to first, in the order of its early returns.     *)
(***************************************************************************)
Duty(s) ==
    LET orphan == s.copy # None /\ s.unresolved = None
    IN  IF s.release # NoRelease THEN "release"
        ELSE IF s.claim.id # None /\ s.unresolved = s.claim.id THEN "recheck"
        ELSE IF s.deleting THEN "delete"
        ELSE IF orphan /\ s.resolved = s.copy THEN "drop"
        ELSE IF orphan /\ s.claim.id # s.copy THEN "restore"
        ELSE IF s.claim.id # None THEN "active"
        ELSE IF s.reading THEN "reading"
        ELSE IF s.finalizer THEN "unfinalize"
        ELSE "decide"

Begin(m, g) ==
    /\ At(m, "idle") /\ m = leader /\ st[g].exists
    /\ pass' = [pass EXCEPT ![m] =
                   Pass(Duty(st[g]), g, TRUE, st[g], st[g], "idle", "none")]
    /\ UNCHANGED <<st, world, realmVars>>

\* Another manager is elected; what the old one has begun still goes on.
Elect(m) ==
    /\ leader # m /\ Fault
    /\ leader' = m
    /\ UNCHANGED <<st, pass, job, pod, exec, report, left, of, under, db, view, acks, appr, claims,
                   reads, realmVars>>

\* The manager stops, or a call fails and the pass returns its error.  A create
\* still on its way is lost with its caller unless LateCreates.
PassStops(m) ==
    /\ ~At(m, "idle")
    /\ At(m, "creating") /\ ~LateCreates => job[Id(m)] \notin {"sent", "admitted"}
    /\ Fault
    /\ PassReturns(m)
    /\ UNCHANGED <<job, pod, exec, report, left, of, under, db, view, acks, appr, claims, reads, leader, realmVars>>

-----------------------------------------------------------------------------
(* Status writes.                                                          *)

\* copyUnresolvedRunBeforeStatus
CopyRun(m) ==
    LET p == pass[m]
        i == p.todo.unresolved
    IN  /\ p.at = "copy"
        /\ Writes(m, SetCopy(st[p.g], i),
                  Pass("patch", p.g, TRUE, SetCopy(p.seen, i), SetCopy(p.todo, i),
                       p.then, p.given))
        /\ UNCHANGED <<world, realmVars>>

\* Mutant: a retired claim's copy is dropped, unresolved record or not.
DropsCopyOfRecord(before, after) ==
    /\ after.copy # None
    /\ \/ after.resolved = after.copy
       \/ before.claim.id = after.copy /\ after.claim.id = None

\* dropSettledUnresolvedRunCopy: the run was settled, or the claim the copy
\* names was retired without an unresolved record.
DropsCopy(before, after) ==
    /\ after.copy # None /\ after.unresolved = None
    /\ \/ after.resolved = after.copy
       \/ before.claim.id = after.copy /\ after.claim.id = None

\* After a retirement the release it owes is tried at once.
Then(p, s) ==
    IF s.release # NoRelease THEN Pass("release", p.g, TRUE, s, s, p.then, p.given)
    ELSE IF p.then = "idle" THEN IdlePass
    ELSE Pass(p.then, p.g, TRUE, s, s, "idle", p.given)

\* A new read claim gets a history Job of its own.  Nobody reads the report of
\* a retired claim, unless another pass is still at it.
PatchStatus(m) ==
    LET p == pass[m]
        alone == \A n \in Managers \ {m} : pass[n].g # p.g
        retired == p.todo.claim.id = None /\ alone
    IN  /\ p.at = "patch"
        /\ Writes(m, p.todo,
                  IF DropsCopy(p.seen, p.todo)
                  THEN Pass("drop", p.g, TRUE, p.todo, p.todo, p.then, p.given)
                  ELSE Then(p, p.todo))
        /\ view' = IF p.todo.reading # p.seen.reading /\ (p.todo.reading \/ alone)
                   THEN [view EXCEPT ![p.g] = "none"] ELSE view
        /\ report' = [i \in Ids |-> IF i = p.seen.claim.id /\ retired THEN "none" ELSE report[i]]
        /\ UNCHANGED <<job, pod, exec, left, of, under, db, acks, appr, claims, reads, faults, leader, realmVars>>

\* The copy's removal, after a settling write or on its own.
DropCopy(m) ==
    LET p == pass[m]
        s == SetCopy(p.seen, None)
    IN  /\ p.at = "drop"
        /\ Writes(m, s, Then(p, s))
        /\ UNCHANGED <<world, realmVars>>

\* reconcileUnresolvedRunCopy finds a copy status knows nothing of.
RestoreRun(m) ==
    /\ At(m, "restore")
    /\ Patches(m, SetUnresolved(SetPlanned(Seen(m), FALSE), Seen(m).copy), "idle")
    /\ UNCHANGED <<world, realmVars>>

\* Mutant: a Lease found in other hands is an error, and the record stays.
ReleaseLockStrictly(m) ==
    LET r == Seen(m).release
    IN  /\ At(m, "release")
        /\ IF owner = r.id /\ term = r.epoch
           THEN Free /\ Patches(m, SetRelease(Seen(m), NoRelease), pass[m].then)
           ELSE UNCHANGED realmVars /\ PassReturns(m)
        /\ UNCHANGED world

\* CompleteRelease: the Lease first, the record only once that succeeded.
ReleaseLock(m) ==
    LET r == Seen(m).release
    IN  /\ At(m, "release")
        /\ IF owner = r.id /\ term = r.epoch THEN Free ELSE UNCHANGED realmVars
        /\ Patches(m, SetRelease(Seen(m), NoRelease), pass[m].then)
        /\ UNCHANGED world

-----------------------------------------------------------------------------
(* Between operations: reading the history, planning, claiming an Apply.   *)

Open(a, g) == appr[a].of = g /\ appr[a].is = "open"

\* markMigrationApprovalsStaleWhere
MarkStale(as) ==
    appr' = [a \in Approvals |-> IF a \in as THEN [appr[a] EXCEPT !.is = "stale"] ELSE appr[a]]

\* Mutant: the claim is written with no finalizer to protect it.
ClaimsUnprotected(m, s) ==
    IF pass[m].fresh
    THEN Becomes(m, Pass("patch", pass[m].g, TRUE, Seen(m), s, "idle", "none"))
    ELSE PassReturns(m)

\* A claim is written after the finalizer that protects it.
Claims(m, s) ==
    IF pass[m].fresh
    THEN Becomes(m, Pass(IF s.finalizer THEN "patch" ELSE "finalize",
                         pass[m].g, TRUE, Seen(m), s, "idle", "none"))
    ELSE PassReturns(m)

\* settleUnresolvedRunByAcknowledgment, the next operation's claim, or a wait
\* for an approval, an acknowledgment or the time of the next read.
Decide(m) ==
    LET s == Seen(m)
        acknowledged == s.unresolved # None /\ s.unresolved \in acks
        free == ~acknowledged /\ s.claim = NoClaim /\ ~s.reading
        may == IF NeedsApproval THEN {a \in Approvals : Open(a, pass[m].g)} ELSE {NoApproval}
    IN  /\ At(m, "decide")
        /\ UNCHANGED <<job, pod, exec, report, db, view, acks, appr, faults, leader, realmVars>>
        /\ \/ /\ ~acknowledged
              /\ PassReturns(m)
              /\ UNCHANGED <<left, of, under, claims, reads>>
           \/ /\ acknowledged
              /\ Patches(m, SetUnresolved(SetResolved(s, s.unresolved), None), "idle")
              /\ UNCHANGED <<left, of, under, claims, reads>>
           \/ /\ free /\ reads < MaxReads
              /\ reads' = reads + 1
              /\ Claims(m, SetPlanned(SetReading(s, TRUE), FALSE))
              /\ UNCHANGED <<left, of, under, claims>>
           \/ /\ free /\ s.planned /\ s.unresolved = None
              /\ claims < MaxClaims
              /\ \E a \in may :
                    /\ Claims(m, SetClaim(s, NewClaim(claims + 1, a)))
                    /\ under' = [under EXCEPT ![claims + 1] = a]
              /\ claims' = claims + 1 /\ UNCHANGED reads
              /\ of' = [of EXCEPT ![claims'] = pass[m].g]
              /\ left' = [left EXCEPT ![claims'] = Window + StopGrace]

\* ensureMigrationFinalizer, before the claim it protects.
Finalize(m) ==
    LET p == pass[m]
    IN  /\ p.at = "finalize"
        /\ Writes(m, SetFinalizer(st[p.g], TRUE),
                  Pass("patch", p.g, TRUE, SetFinalizer(p.seen, TRUE),
                       SetFinalizer(p.todo, TRUE), p.then, p.given))
        /\ UNCHANGED <<world, realmVars>>

\* The read claim's Job reports, or the claim is dropped for moved inputs.  A
\* reading with nothing to plan withdraws the approvals of what was planned.
Harvest(m) ==
    LET g == pass[m].g
        seen == view[g]
        s == RecordHistory(Seen(m), seen)
    IN  /\ At(m, "reading")
        /\ UNCHANGED <<job, pod, exec, report, left, of, under, db, view, acks, claims, reads, leader, realmVars>>
        /\ \/ /\ seen = "none"
              /\ PassReturns(m)
              /\ UNCHANGED <<appr, faults>>
           \/ /\ Fault
              /\ Patches(m, SetPlanned(SetReading(Seen(m), FALSE), FALSE), "idle")
              /\ UNCHANGED appr
           \/ /\ seen # "none"
              /\ Patches(m, s, IF seen = "pending" /\ s.unresolved = None
                               THEN "publish" ELSE "idle")
              /\ IF seen = "pending" /\ s.unresolved = None
                 THEN UNCHANGED appr ELSE MarkStale({a \in Approvals : Open(a, g)})
              /\ UNCHANGED faults

\* The plan is the one that was approved before, or another one when the inputs
\* moved; that one starts without approvals.
Publish(m) ==
    /\ At(m, "publish")
    /\ Patches(m, SetPlanned(Seen(m), TRUE), "idle")
    /\ \/ UNCHANGED <<appr, faults>>
       \/ Fault /\ MarkStale({a \in Approvals : Open(a, pass[m].g)})
    /\ UNCHANGED <<job, pod, exec, report, left, of, under, db, view, acks, claims, reads, leader, realmVars>>

\* removeMigrationFinalizer; a deleted object is gone with its finalizer, and
\* any other is read again before the pass goes on.
Unfinalize(m) ==
    LET p == pass[m]
        s == st[p.g]
    IN  /\ p.at = "unfinalize"
        /\ p.seen.claim = NoClaim /\ ~p.seen.reading /\ p.seen.release = NoRelease
        /\ Writes(m, IF s.deleting THEN Gone ELSE SetFinalizer(s, FALSE),
                  IF s.deleting THEN IdlePass
                  ELSE Pass("reload", p.g, TRUE, Gone, Gone, "idle", "none"))
        /\ UNCHANGED <<world, realmVars>>

\* What reconcile attends to first is not asked again.
Reload(m) ==
    LET g == pass[m].g
    IN  /\ At(m, "reload")
        /\ IF st[g].exists THEN Becomes(m, Pass("decide", g, TRUE, st[g], st[g], "idle", "none"))
           ELSE PassReturns(m)
        /\ UNCHANGED <<world, realmVars>>

-----------------------------------------------------------------------------
(* An active Apply claim.                                                  *)

\* reconcileActiveMigration reads the Job under the claim's name.  The inputs
\* are read too, and a claim whose inputs moved before dispatch is dropped.
ReadJob(m) ==
    LET c == Seen(m).claim
        verdict == VerdictFor(TRUE, c.started, c.uid, Found(c.id), TRUE, TRUE)
    IN  /\ At(m, "active")
        /\ UNCHANGED <<job, pod, exec, report, left, of, under, db, view, acks, appr, claims, reads, leader, realmVars>>
        /\ \/ /\ c.lost
              /\ Goes(m, "check", "uncertain", "none")
              /\ UNCHANGED faults
           \/ /\ ~c.lost /\ verdict = "dispatch"
              /\ \/ Goes(m, "lock", "snapshot", "none") /\ UNCHANGED faults
                 \/ Fault /\ Patches(m, DiscardClaim(Seen(m)), "idle")
           \/ /\ ~c.lost /\ verdict # "dispatch"
              /\ Goes(m, "lock", verdict, JobGiven(c.id))
              /\ UNCHANGED faults

\* reconcileMigrationExecutionBinding: an execution component changed.
Rebind(m) ==
    LET c == Seen(m).claim
    IN  /\ At(m, "active")
        /\ Fault
        /\ IF Dispatched(Seen(m))
           THEN Goes(m, "check", "uncertain", IF c.uid THEN JobGiven(c.id) ELSE "none")
           ELSE Patches(m, DiscardClaim(Seen(m)), "idle")
        /\ UNCHANGED <<job, pod, exec, report, left, of, under, db, view, acks, appr, claims, reads, leader, realmVars>>

\* Where a pass that holds its lock goes on.
Locked(m) ==
    LET p == pass[m]
        c == p.seen.claim
    IN  CASE p.then = "adopt" ->
                Patches(m, SetClaim(p.seen, [[c EXCEPT !.uid = TRUE] EXCEPT !.started = TRUE]),
                        "supervise")
          [] p.then = Unaccounted -> Goes(m, "check", "uncertain", p.given)
          [] p.then = "idle" -> PassReturns(m)
          [] OTHER -> Goes(m, p.then, "idle", p.given)

\* tryMigrationApplyLock.  A new ownership is written into the claim and ends
\* the pass; under a dispatched claim it means the old one was lost.
AcquireLock(m) ==
    LET s == Seen(m)
        c == s.claim
    IN  /\ At(m, "lock")
        /\ UNCHANGED world
        /\ \/ /\ owner \notin {NoOwner, c.id} /\ rest > 0
              /\ PassReturns(m)
              /\ UNCHANGED realmVars
           \/ /\ owner = c.id
              /\ Renew(c.id, LeaseDuration)
              /\ IF term = c.epoch THEN Locked(m)
                 ELSE Patches(m, SetClaim(s, [[c EXCEPT !.epoch = term]
                                                 EXCEPT !.lost = Dispatched(s)]), "idle")
           \/ /\ owner # c.id /\ issued < MaxGrants
              /\ Grant(c.id, LeaseDuration)
              /\ Patches(m, SetClaim(s, [[c EXCEPT !.epoch = term']
                                            EXCEPT !.lost = Dispatched(s)]), "idle")

\* holdMigrationJobToItsClaim: under its lock, before it adopts a Job and on
\* every pass that supervises one, the claim cannot confirm the Job as the one
\* it builds, running or over.
HoldJobToItsClaim(m) ==
    LET c == Seen(m).claim
    IN  /\ At(m, "lock") /\ pass[m].then \in {"adopt", "supervise"}
        /\ owner = c.id /\ term = c.epoch
        /\ Fault
        /\ Renew(c.id, LeaseDuration)
        /\ Goes(m, "check", "uncertain", pass[m].given)
        /\ UNCHANGED <<job, pod, exec, report, left, of, under, db, view, acks, appr, claims, reads, leader>>

-----------------------------------------------------------------------------
(* Dispatch: snapshot, consume, mark, create, confirm, record.             *)

\* Mutant: the create goes out before the mark is stored.
MarkSkipped(m) == Goes(m, "create", "idle", "none")

Mark(m) ==
    LET c == Seen(m).claim
    IN  Patches(m, SetClaim(Seen(m), [c EXCEPT !.started = TRUE]), "create")

\* The Pod admission snapshot is saved by one pass and used by a later one.  A
\* Job that cannot be built ends the claim.
Snapshot(m) ==
    LET c == Seen(m).claim
    IN  /\ At(m, "snapshot")
        /\ UNCHANGED <<job, pod, exec, report, left, of, under, db, view, acks, appr, claims, reads, leader, realmVars>>
        /\ \/ Fault /\ Patches(m, DiscardClaim(Seen(m)), "idle")
           \/ /\ UNCHANGED faults
              /\ CASE ~c.snapshot ->
                        Patches(m, SetClaim(Seen(m), [c EXCEPT !.snapshot = TRUE]), "idle")
                   [] c.snapshot /\ c.approval # NoApproval -> Goes(m, "consume", "idle", "none")
                   [] c.snapshot /\ c.approval = NoApproval -> Mark(m)

\* Mutant: the approval is checked and not spent.
ConsumeNothing(m) ==
    LET a == Seen(m).claim.approval
    IN  /\ At(m, "consume")
        /\ UNCHANGED <<world, realmVars>>
        /\ IF appr[a].is = "deleted"
           THEN Patches(m, DiscardClaim(Seen(m)), "idle")
           ELSE Goes(m, "supersede", "idle", "none")

\* consumeMigrationApproval: spent before the mark; a withdrawn one ends the claim.
Consume(m) ==
    LET a == Seen(m).claim.approval
    IN  /\ At(m, "consume")
        /\ UNCHANGED <<job, pod, exec, report, left, of, under, db, view, acks, claims, reads, faults, leader, realmVars>>
        /\ IF appr[a].is = "deleted"
           THEN Patches(m, DiscardClaim(Seen(m)), "idle") /\ UNCHANGED appr
           ELSE /\ appr' = [appr EXCEPT ![a] = [appr[a] EXCEPT !.is = "consumed"]]
                /\ Goes(m, "supersede", "idle", "none")

\* The other approvals of the plan end with the one that was spent.
Supersede(m) ==
    /\ At(m, "supersede")
    /\ MarkStale({a \in Approvals : Open(a, pass[m].g)})
    /\ Mark(m)
    /\ UNCHANGED <<job, pod, exec, report, left, of, under, db, view, acks, claims, reads, faults, leader, realmVars>>

Create(m) ==
    LET i == Id(m)
    IN  /\ At(m, "create")
        /\ job[i] = "none"
        /\ job' = [job EXCEPT ![i] = "sent"]
        /\ Goes(m, "creating", "idle", "none")
        /\ UNCHANGED <<pod, exec, report, left, of, under, db, view, acks, appr, claims, reads, faults, leader, realmVars>>

\* The API server's answer, a refusal withdrawing the mark.
CreateAnswered(m) ==
    LET i == Id(m)
        c == Seen(m).claim
    IN  /\ At(m, "creating")
        /\ \/ /\ job[i] \in {"live", "done", "gone"}
              /\ Goes(m, "confirm", "idle", "none")
              /\ UNCHANGED job
           \/ /\ job[i] = "refused"
              /\ DispatchFailure("create", TRUE, "refused") = Withdraw
              /\ job' = [job EXCEPT ![i] = "none"]
              /\ Patches(m, SetClaim(Seen(m), [c EXCEPT !.started = FALSE]), "idle")
        /\ UNCHANGED <<pod, exec, report, left, of, under, db, view, acks, appr, claims, reads, faults, leader, realmVars>>

\* The answer does not come: what the create did is nobody's to tell.
CreateUnknown(m) ==
    /\ At(m, "creating")
    /\ ~LateCreates => job[Id(m)] \notin {"sent", "admitted"}
    /\ DispatchFailure("create", TRUE, "unknown") = Unaccounted
    /\ Fault
    /\ Goes(m, "check", "uncertain", "none")
    /\ UNCHANGED <<job, pod, exec, report, left, of, under, db, view, acks, appr, claims, reads, leader, realmVars>>

\* The Job is read back, held to the intent and its UID recorded.  A Job that
\* is not the intended one may write all the same.
Confirm(m) ==
    LET c == Seen(m).claim
    IN  /\ At(m, "confirm")
        /\ UNCHANGED <<job, pod, exec, report, left, of, under, db, view, acks, appr, claims, reads, leader, realmVars>>
        /\ \/ /\ ~Found(c.id)
              /\ DispatchFailure("confirm", TRUE, "unknown") = Requeue
              /\ PassReturns(m) /\ UNCHANGED faults
           \/ /\ Found(c.id)
              /\ DispatchFailure("intent", TRUE, "unknown") = Unaccounted
              /\ Fault
              /\ Goes(m, "check", "uncertain", JobGiven(c.id))
           \/ /\ Found(c.id)
              /\ Patches(m, SetClaim(Seen(m), [c EXCEPT !.uid = TRUE]), "idle")
              /\ UNCHANGED faults

-----------------------------------------------------------------------------
(* Settling a dispatched claim.                                            *)

\* A terminal Job's evidence.  A Pod that is not terminal is waited for; moved
\* inputs and an unreadable result leave the outcome unestablished.
Supervise(m) ==
    LET i == Id(m)
        uncertain == Goes(m, "check", "uncertain", pass[m].given)
    IN  /\ At(m, "supervise")
        /\ UNCHANGED <<job, pod, exec, report, left, of, under, db, view, acks, appr, claims, reads, leader, realmVars>>
        /\ \/ /\ pass[m].given = "live"
              /\ PassReturns(m) /\ UNCHANGED faults
           \/ /\ pass[m].given = "done" /\ Fault /\ uncertain
           \/ /\ pass[m].given = "done" /\ UNCHANGED faults
              /\ CASE pod[i] = "running" -> PassReturns(m)
                   [] pod[i] # "running" /\ report[i] = "none" -> uncertain
                   [] pod[i] # "running" /\ report[i] # "none" ->
                         Patches(m, RecordRun(Seen(m), report[i]), "idle")

\* What a claim does once it is known whether its run may still write.
MayStillWrite(m, may) ==
    LET s == Seen(m)
    IN  CASE pass[m].then = "uncertain" -> Patches(m, RetireUncertain(s, may), "idle")
          [] pass[m].then # "uncertain" /\ may -> Goes(m, "lock", "idle", "none")
          [] pass[m].then = "recheck" /\ ~may -> Patches(m, Retire(s, Unaccounted, FALSE), "idle")
          [] pass[m].then = "delete" /\ ~may ->
                IF Dispatched(s) \/ pass[m].given # "none"
                THEN Patches(m, RetireUncertain(s, FALSE), "idle")
                ELSE Patches(m, Retire(s, Discard, FALSE), "unfinalize")

\* dispatchedApplyMayStillWrite asks for the Job, unless the pass was given it.
CheckJob(m) ==
    LET i == Id(m)
        j == IF pass[m].given # "none" THEN pass[m].given ELSE JobGiven(i)
    IN  /\ At(m, "check")
        /\ UNCHANGED <<job, pod, exec, report, left, of, under, db, view, acks, appr, claims, reads, leader, realmVars>>
        /\ \/ Fault /\ MayStillWrite(m, TRUE)
           \/ /\ UNCHANGED faults
              /\ CASE j = "none" /\ ~Seen(m).claim.uid -> MayStillWrite(m, FALSE)
                   [] j = "live" -> MayStillWrite(m, TRUE)
                   [] j = "done" \/ (j = "none" /\ Seen(m).claim.uid) ->
                         Goes(m, "pods", pass[m].then, pass[m].given)

\* ... and then for its Pods.
CheckPods(m) ==
    /\ At(m, "pods")
    /\ MayStillWrite(m, pod[Id(m)] = "running")
    /\ UNCHANGED <<world, realmVars>>

\* Mutant: a claim kept because its run may still write is never asked again.
RecheckNever(m) == At(m, "recheck") /\ PassReturns(m) /\ UNCHANGED <<world, realmVars>>

\* reconcileUnaccountedMigrationApply
Recheck(m) ==
    /\ At(m, "recheck")
    /\ Goes(m, "check", "recheck", "none")
    /\ UNCHANGED <<world, realmVars>>

\* Mutant: a deleted object waits for its read claim, which no pass harvests.
DeleteAwaitingRead(m) ==
    LET s == Seen(m)
    IN  /\ At(m, "delete")
        /\ CASE s.claim.id # None -> Goes(m, "check", "delete", JobGiven(s.claim.id))
             [] s.reading -> PassReturns(m)
             [] OTHER -> IF pass[m].fresh THEN Goes(m, "unfinalize", "idle", "none")
                         ELSE PassReturns(m)
        /\ UNCHANGED <<world, realmVars>>

\* reconcileMigrationDeletion
Delete(m) ==
    LET s == Seen(m)
    IN  /\ At(m, "delete")
        /\ CASE s.claim.id # None -> Goes(m, "check", "delete", JobGiven(s.claim.id))
             [] s.reading -> Patches(m, SetReading(s, FALSE), "unfinalize")
             [] OTHER -> IF pass[m].fresh THEN Goes(m, "unfinalize", "idle", "none")
                         ELSE PassReturns(m)
        /\ UNCHANGED <<world, realmVars>>

-----------------------------------------------------------------------------
(* The cluster: the API server and its webhooks, the Job and the executor. *)

\* validateMigrationJobCreate: the object is not being deleted, its claim is
\* live, names the Job and has no Job yet.
JobAdmitted(i) ==
    LET s == st[of[i]] IN s.exists /\ ~s.deleting /\ s.claim.id = i /\ ~s.claim.uid

\* The Pod webhook: the claim is live and records this Job or none.
PodAdmitted(i) ==
    LET s == st[of[i]] IN s.exists /\ s.claim.id = i

AnswerCreate(i) ==
    /\ job[i] = "sent"
    /\ \/ JobAdmitted(i) /\ job' = [job EXCEPT ![i] = "admitted"] /\ UNCHANGED faults
       \/ ~JobAdmitted(i) /\ job' = [job EXCEPT ![i] = "refused"] /\ UNCHANGED faults
       \/ JobAdmitted(i) /\ Fault /\ job' = [job EXCEPT ![i] = "refused"]
    /\ UNCHANGED <<st, pass, pod, exec, report, left, of, under, db, view, acks, appr, claims, reads, leader, realmVars>>

StoreJob(i) ==
    /\ job[i] = "admitted"
    /\ job' = [job EXCEPT ![i] = "live"]
    /\ UNCHANGED <<st, pass, pod, exec, report, left, of, under, db, view, acks, appr, claims, reads, faults, leader, realmVars>>

StartPod(i) ==
    /\ job[i] = "live" /\ pod[i] = "none" /\ PodAdmitted(i)
    /\ pod' = [pod EXCEPT ![i] = "running"]
    /\ UNCHANGED <<st, pass, job, exec, report, left, of, under, db, view, acks, appr, claims, reads, faults, leader, realmVars>>

Stop(i, account) ==
    /\ exec' = [exec EXCEPT ![i] = "over"]
    /\ report' = [report EXCEPT ![i] = account]
    /\ left' = [left EXCEPT ![i] = 0]

\* The runner refuses a claim past its time; Ptah refuses under its own lock a
\* history other than the planned one, and cannot see a part that committed.
StartExecutor(i) ==
    /\ pod[i] = "running" /\ exec[i] = "idle"
    /\ CASE left[i] <= StopGrace -> Stop(i, "none")
         [] left[i] > StopGrace /\ db[of[i]] \in {"applied", "dirty"} -> Stop(i, "nothing ran")
         [] left[i] > StopGrace /\ db[of[i]] \in {"pending", "partial"} ->
               exec' = [exec EXCEPT ![i] = "writing"] /\ UNCHANGED <<report, left>>
    /\ UNCHANGED <<st, pass, job, pod, of, under, db, view, acks, appr, claims, reads, faults, leader, realmVars>>

\* Statements commit; the run ends whole, or part way with or without an
\* account, its revision row left dirty or not written at all.
Execute(i) ==
    LET g == of[i]
        Db(v) == db' = [db EXCEPT ![g] = v]
    IN  /\ exec[i] = "writing"
        /\ \/ Db("partial") /\ db[g] # "partial" /\ UNCHANGED <<exec, report, left>>
           \/ Db("applied") /\ Stop(i, "applied")
           \/ /\ db[g] = "partial"
              /\ \E v \in {"partial", "dirty"}, a \in {"partial", "none"} : Db(v) /\ Stop(i, a)
           \/ /\ db[g] = "pending" /\ UNCHANGED db
              /\ \E a \in {"nothing ran", "none"} : Stop(i, a)
        /\ UNCHANGED <<st, pass, job, pod, of, under, view, acks, appr, claims, reads, faults, leader, realmVars>>

StopPod(i) ==
    /\ pod[i] = "running" /\ exec[i] = "over"
    /\ pod' = [pod EXCEPT ![i] = "stopped"]
    /\ UNCHANGED <<st, pass, job, exec, report, left, of, under, db, view, acks, appr, claims, reads, faults, leader, realmVars>>

\* The Job is over with its Pod, or at its deadline with no Pod to show for it.
EndJob(i) ==
    /\ job[i] = "live"
    /\ pod[i] = "stopped" \/ left[i] = 0
    /\ job' = [job EXCEPT ![i] = "done"]
    /\ UNCHANGED <<st, pass, pod, exec, report, left, of, under, db, view, acks, appr, claims, reads, faults, leader, realmVars>>

CollectJob(i) ==
    /\ job[i] = "done"
    /\ Fault
    /\ job' = [job EXCEPT ![i] = "gone"]
    /\ UNCHANGED <<st, pass, pod, exec, report, left, of, under, db, view, acks, appr, claims, reads, leader, realmVars>>

\* The history Job of a read claim: a part that committed shows as pending.
ReadHistory(g) ==
    /\ st[g].reading /\ view[g] = "none"
    /\ view' = [view EXCEPT ![g] = IF db[g] = "partial" THEN "pending" ELSE db[g]]
    /\ UNCHANGED <<st, pass, job, pod, exec, report, left, of, under, db, acks, appr, claims, reads, faults, leader, realmVars>>

\* Mutant: the countdown runs below zero.
TickBelowZero ==
    /\ \A i \in Ids : exec[i] = "writing" => left[i] > 1
    /\ RealmTick
    /\ left' = [i \in Ids |-> left[i] - 1]
    /\ UNCHANGED <<st, pass, job, pod, exec, report, of, under, db, view, acks, appr, claims, reads, faults, leader>>

\* An executor is stopped before its claim's time has run out.
Tick ==
    /\ \A i \in Ids : exec[i] = "writing" => left[i] > 1
    /\ RealmTick
    /\ left' = [i \in Ids |-> IF left[i] > 0 THEN left[i] - 1 ELSE 0]
    /\ UNCHANGED <<st, pass, job, pod, exec, report, of, under, db, view, acks, appr, claims, reads, faults, leader>>

-----------------------------------------------------------------------------
(* People, and what happens to the object from outside.                    *)

Approve(a, g) ==
    /\ NeedsApproval /\ appr[a].is = "none"
    /\ st[g].exists /\ ~st[g].deleting /\ st[g].planned
    /\ st[g].claim.id = None /\ ~st[g].reading
    /\ appr' = [appr EXCEPT ![a] = [of |-> g, is |-> "open"]]
    /\ UNCHANGED <<st, pass, job, pod, exec, report, left, of, under, db, view, acks, claims, reads, faults, leader, realmVars>>

WithdrawApproval(a) ==
    /\ appr[a].is \in {"open", "stale"}
    /\ Fault
    /\ appr' = [appr EXCEPT ![a] = [appr[a] EXCEPT !.is = "deleted"]]
    /\ UNCHANGED <<st, pass, job, pod, exec, report, left, of, under, db, view, acks, claims, reads, leader, realmVars>>

\* A person accounts for a run that has stopped, having put the database right.
Acknowledge(g) ==
    LET i == st[g].unresolved
    IN  /\ i # None /\ i \notin acks /\ ~st[g].deleting
        /\ st[g].claim.id # i /\ pod[i] # "running"
        /\ acks' = acks \cup {i}
        /\ \E v \in (IF db[g] \in {"partial", "dirty"} THEN {"pending", "applied"} ELSE {db[g]}) :
              db' = [db EXCEPT ![g] = v]
        /\ UNCHANGED <<st, pass, job, pod, exec, report, left, of, under, view, appr, claims, reads, faults, leader, realmVars>>

\* The object is deleted: marked while a finalizer holds it, else gone.
DeleteObject(g) ==
    /\ st[g].exists /\ ~st[g].deleting
    /\ Fault
    /\ st' = [st EXCEPT ![g] = IF st[g].finalizer THEN [st[g] EXCEPT !.deleting = TRUE] ELSE Gone]
    /\ Outdate(g, NoMigration, IdlePass)
    /\ UNCHANGED <<job, pod, exec, report, left, of, under, db, view, acks, appr, claims, reads, leader, realmVars>>

\* The object is restored from a backup while nothing of it runs: metadata
\* comes back, status does not, and the new object answers to no old approval
\* or acknowledgment.
RestoreObject(g) ==
    /\ st[g].exists /\ ~st[g].deleting /\ st[g].claim = NoClaim /\ ~st[g].reading
    /\ \A i \in Ids : of[i] = g => job[i] \notin {"sent", "admitted", "live"} /\ pod[i] # "running"
    /\ Fault
    /\ st' = [st EXCEPT ![g] = SetCopy(NewMigration, st[g].copy)]
    /\ Outdate(g, NoMigration, IdlePass)
    /\ acks' = {i \in acks : of[i] # g}
    /\ appr' = [a \in Approvals |-> IF appr[a].of = g THEN [appr[a] EXCEPT !.is = "deleted"] ELSE appr[a]]
    /\ UNCHANGED <<job, pod, exec, report, left, of, under, db, view, claims, reads, leader, realmVars>>

-----------------------------------------------------------------------------
Init ==
    /\ st = [g \in Migrations |-> NewMigration]
    /\ pass = [m \in Managers |-> IdlePass]
    /\ leader \in Managers
    /\ job = [i \in Ids |-> "none"]
    /\ pod = [i \in Ids |-> "none"]
    /\ exec = [i \in Ids |-> "idle"]
    /\ report = [i \in Ids |-> "none"]
    /\ left = [i \in Ids |-> 0]
    /\ of = [i \in Ids |-> NoMigration]
    /\ under = [i \in Ids |-> NoApproval]
    /\ db = [g \in Migrations |-> "pending"]
    /\ view = [g \in Migrations |-> "none"]
    /\ acks = {}
    /\ appr = [a \in Approvals |-> [of |-> NoMigration, is |-> "none"]]
    /\ claims = 0
    /\ reads = 0
    /\ faults = 0
    /\ RealmInit

Step(m) ==
    \/ CopyRun(m) \/ PatchStatus(m) \/ DropCopy(m) \/ RestoreRun(m) \/ ReleaseLock(m)
    \/ Decide(m) \/ Finalize(m) \/ Harvest(m) \/ Publish(m)
    \/ Unfinalize(m) \/ Reload(m)
    \/ ReadJob(m) \/ AcquireLock(m)
    \/ Snapshot(m) \/ Consume(m) \/ Supersede(m)
    \/ Create(m) \/ CreateAnswered(m) \/ Confirm(m)
    \/ Supervise(m) \/ CheckJob(m) \/ CheckPods(m) \/ Recheck(m) \/ Delete(m)

Cluster(i) ==
    \/ AnswerCreate(i) \/ StoreJob(i) \/ StartPod(i) \/ StartExecutor(i) \/ Execute(i)
    \/ StopPod(i) \/ EndJob(i)

Next ==
    \/ \E m \in Managers, g \in Migrations : Begin(m, g)
    \/ \E m \in Managers :
          \/ Step(m) \/ Elect(m) \/ PassStops(m)
          \/ CreateUnknown(m) \/ Rebind(m) \/ HoldJobToItsClaim(m)
    \/ \E i \in Ids : Cluster(i) \/ CollectJob(i)
    \/ \E g \in Migrations :
          ReadHistory(g) \/ Acknowledge(g) \/ DeleteObject(g) \/ RestoreObject(g)
    \/ \E a \in Approvals : WithdrawApproval(a) \/ \E g \in Migrations : Approve(a, g)
    \/ Tick

Spec == Init /\ [][Next]_vars

(***************************************************************************)
(* The work queue keeps a stored object coming back, a pass goes on while  *)
(* its manager lives, the cluster runs what it was given, and time passes. *)
(* Nothing people do is fair, and no fault is.                             *)
(***************************************************************************)
Fairness ==
    /\ \A m \in Managers, g \in Migrations : SF_vars(Begin(m, g))
    /\ \A m \in Managers : WF_vars(Step(m))
    /\ \A i \in Ids : WF_vars(Cluster(i))
    /\ \A g \in Migrations : WF_vars(ReadHistory(g))
    /\ WF_vars(Tick)

FairSpec == Spec /\ Fairness

-----------------------------------------------------------------------------
(* Properties.                                                             *)

Claim == [id : Ids0, epoch : Nat, lost : BOOLEAN, snapshot : BOOLEAN,
          started : BOOLEAN, uid : BOOLEAN, approval : Approvals \cup {NoApproval}]

Status == [exists : BOOLEAN, deleting : BOOLEAN, finalizer : BOOLEAN, claim : Claim,
           reading : BOOLEAN, planned : BOOLEAN, unresolved : Ids0, copy : Ids0,
           resolved : Ids0, last : Ids0, release : [id : Ids0, epoch : Nat]]

Labels == {"idle", "release", "recheck", "delete", "drop", "restore", "active", "reading",
           "unfinalize", "reload", "decide", "copy", "patch", "finalize", "publish", "lock",
           "snapshot", "consume", "supersede", "create", "creating", "confirm", "supervise", "check", "pods",
           "adopt", "uncertain", Unaccounted}

\* Every variable stays in its range, the stored object and what a pass holds
\* of it included.
TypeOK ==
    /\ st \in [Migrations -> Status]
    /\ pass \in [Managers -> [at : Labels, g : Migrations \cup {NoMigration}, fresh : BOOLEAN,
                              seen : Status, todo : Status, then : Labels,
                              given : {"none", "live", "done"}]]
    /\ leader \in Managers
    /\ job \in [Ids -> {"none", "sent", "admitted", "refused", "live", "done", "gone"}]
    /\ pod \in [Ids -> {"none", "running", "stopped"}]
    /\ exec \in [Ids -> {"idle", "writing", "over"}]
    /\ report \in [Ids -> {"none", "applied", "partial", "nothing ran"}]
    /\ left \in [Ids -> Nat] /\ of \in [Ids -> Migrations \cup {NoMigration}]
    /\ under \in [Ids -> Approvals \cup {NoApproval}]
    /\ db \in [Migrations -> {"pending", "partial", "dirty", "applied"}]
    /\ view \in [Migrations -> {"none", "pending", "dirty", "applied"}]
    /\ acks \subseteq Ids
    /\ appr \in [Approvals -> [of : Migrations \cup {NoMigration},
                               is : {"none", "open", "consumed", "stale", "deleted"}]]
    /\ claims \in 0..MaxClaims /\ reads \in 0..MaxReads /\ faults \in 0..MaxFaults
    /\ owner \in Ids0 /\ term \in Nat /\ rest \in 0..Longest /\ issued \in Nat

\* An executor writes only while its own claim owns the realm's Lease, so two
\* never write at once, whatever passes stopped where: the Lease outlasts the
\* executor's deadline and no retirement gives it back under a live executor.
WriterHoldsRealm == \A i \in Ids : exec[i] = "writing" => owner = i /\ rest > 0

\* No executor starts over a part of a run that committed and that the history
\* does not show: an outcome nobody established is never replayed.
NoReplay ==
    [][\A i \in Ids : exec[i] = "idle" /\ exec'[i] = "writing" => db[of[i]] = "pending"]_vars

\* While a part of a run may have committed, the object names the run: as its
\* claim, as its unresolved run, or in the copy a restore brings back.
PartialIsRemembered ==
    \A g \in Migrations :
        st[g].exists /\ db[g] \in {"partial", "dirty"} =>
            st[g].claim.id # None \/ st[g].unresolved # None \/ st[g].copy # None

\* A live claim whose create may have been sent is marked as such, through
\* withdrawals, adoptions and passes of two managers.
MarkCoversJob ==
    \A g \in Migrations :
        LET c == st[g].claim
        IN  c.id # None /\ job[c.id] \notin {"none", "refused"} => c.started

\* An unresolved run is never without its copy: a restore at any instant keeps it.
RecordHasCopy == \A g \in Migrations : st[g].unresolved \in {None, st[g].copy}

\* The object cannot leave the cluster while it owes a claim its end or the
\* realm its release: the finalizer is written first and taken last.
ObligationsHoldObject ==
    \A g \in Migrations :
        st[g].claim # NoClaim \/ st[g].reading \/ st[g].release # NoRelease => st[g].finalizer

\* Something of the run writes or could still begin to: its executor, its
\* Pod, its Job, or the create of one.
CanStillWrite(i) ==
    \/ exec[i] = "writing"
    \/ /\ exec[i] = "idle" /\ left[i] > StopGrace
       /\ pod[i] = "running" \/ job[i] \in {"sent", "admitted", "live"}

\* Giving the Lease back means the run is over for good: nothing of it is
\* writing, and nothing of it is left that could begin to.
ReleasedOnlyWhenOver ==
    [][owner # NoOwner /\ owner' = NoOwner => ~CanStillWrite(owner)]_vars

\* An approval is spent before the run it authorizes, and authorizes one run.
ApprovalAuthorizesOneRun ==
    /\ \A i \in Ids : under[i] # NoApproval /\ job[i] \notin {"none", "refused"} =>
            appr[under[i]].is \in {"consumed", "deleted"}
    /\ \A i, k \in Ids :
            /\ under[i] = under[k] /\ under[i] # NoApproval
            /\ job[i] \notin {"none", "refused"} /\ job[k] \notin {"none", "refused"}
            => i = k

\* A run whose outcome was established is not recorded as unresolved again:
\* resolvedRun tells a left-over copy from one a restore brought back.
AccountedStaysAccounted ==
    \A g \in Migrations : st[g].last # None => st[g].unresolved # st[g].last

\* Every Apply claim ends, however its pass was cut short: settled by its
\* report, by the time its executor may take, or by finding it had none.
ClaimEnds ==
    \A g \in Migrations : st[g].claim.id # None ~> st[g].claim.id = None

\* A release that a status write staged is performed and its record removed,
\* when the manager stopped between the two included.
OwedReleaseIsPaid ==
    \A g \in Migrations : st[g].release # NoRelease ~> st[g].release = NoRelease

\* A deleted migration leaves the cluster whatever it was in the middle of.
DeletionCompletes ==
    \A g \in Migrations : st[g].deleting ~> ~st[g].exists
=============================================================================
