--------------------------- MODULE SchemaLifecycle ---------------------------
(***************************************************************************)
(* A PtahSchema from its source to a database in sync, as the schema       *)
(* controller runs it: Resolve, Verify, Observe, Plan and Apply claims,    *)
(* each carried by a Job; the proof an Apply owes, a fresh Observe and     *)
(* Plan taken under the Apply's own Lease before the Apply is credited;    *)
(* plans that belong to one execution binding and are retired with it;     *)
(* approvals, suspension, edits, deletion.                                 *)
(*                                                                         *)
(* One object, one manager whose passes make one API call at a time and    *)
(* may stop after any of them, and a rival that uses the same database     *)
(* through the same Lease (RealmLock).                                     *)
(***************************************************************************)
EXTENDS RealmLock, MutationLifecycle, FiniteSets

CONSTANTS
    Contents,       \* what the schema's source may hold, positive integers
    Approvals,      \* PtahSchemaApproval objects people may create
    NoApproval,
    Policy,         \* spec.policy.apply: "Always", "OnApproval" or "Never"
    MaxClaims,      \* bound: Plan and Apply claims that take the Lease themselves
    MaxGrants,      \* bound: ownerships of the Lease ever granted
    MaxFaults,      \* bound: crashes, failures, edits, moved inputs, ...
    MaxPods,        \* Pods a Job may come to have: 1, or 2
    Window,         \* from an Apply claim to its executionNotAfter
    StopGrace,      \* how long a stopped executor may still take
    LeaseGrace      \* what the Lease lasts beyond the window

Ids == 1..MaxClaims
Rival == MaxClaims + 1
None == 0
Ids0 == Ids \cup {None}
Slots == Ids \X (1..MaxPods)

Empty == 0          \* the database before anything was applied
Partial == -1       \* an Apply stopped part way
Failed == -2        \* a Job that reports no result
States == Contents \cup {Empty, Partial}

Blank == -1         \* a leaseEpoch of ""
Token == 0          \* a leaseEpoch of the claim's own making, never granted

\* Mutant: the Lease lasts as long as the window, and no longer.
LeaseWithoutGrace == Window

\* leaseDuration: the Apply window and a fixed minute.
LeaseDuration == Window + LeaseGrace

ASSUME SchemaConstants ==
    /\ Contents \subseteq Nat \ {0}
    /\ NoApproval \notin Approvals /\ Policy \in {"Always", "OnApproval", "Never"}
    /\ MaxClaims \in Nat \ {0} /\ MaxGrants \in Nat /\ MaxFaults \in Nat
    /\ MaxPods \in {1, 2}
    /\ Window \in Nat \ {0} /\ StopGrace \in Nat
    /\ LeaseGrace \in Nat /\ LeaseGrace >= StopGrace
    /\ Owners = Ids \cup {Rival} /\ NoOwner = None /\ Longest >= LeaseDuration

VARIABLES
    st,         \* the stored PtahSchema: metadata and status
    pass,       \* the manager's pass in progress
    conf,       \* the execution components the manager is configured with
    tag,        \* what the source's reference names now
    db,         \* what the database holds
    by,         \* who wrote that
    read,       \* the Job of the current read-only claim
    job,        \* each Apply claim's create request, then its Job
    pod,        \* that Job's Pods
    exec,       \* the executor process in each
    report,     \* what the run says of itself when its log is read
    left,       \* time until the claim's executors are gone for certain
    what,       \* the plan each Apply claim is of
    appr,       \* approvals
    claims,     \* Plan and Apply claims made so far
    faults

runs == <<job, pod, exec, report, left, what>>
world == <<conf, tag, db, by, read, runs, appr, claims, faults>>
vars == <<st, pass, world, realmVars>>

-----------------------------------------------------------------------------
(* The stored object.                                                      *)

NoPlan == [want |-> None, from |-> Empty, bind |-> 0, approval |-> NoApproval]
NoSource == [want |-> None, verified |-> FALSE]

\* status.pendingObservation: the proof an Apply owes.
NoProof ==
    [id |-> None, outcome |-> "Unknown", uid |-> FALSE, pods |-> 0, planRequired |-> FALSE,
     epoch |-> Blank, gen |-> 0, wait |-> FALSE, plan |-> NoPlan]

NoInputs == [gen |-> 0, bind |-> 0, src |-> NoSource, plan |-> NoPlan, proof |-> NoProof]

\* status.activeOperation; asked is what its input fingerprint was taken of.
NewOp(type, id, epoch, asked) ==
    [type |-> type, id |-> id, epoch |-> epoch, asked |-> asked, lost |-> FALSE,
     snapshot |-> FALSE, started |-> FALSE, uid |-> FALSE]
NoOp == NewOp("none", None, Blank, NoInputs)

NoRelease == [id |-> None, epoch |-> Blank]

\* status.pendingBindingRetirement: the plan and the Job of an earlier binding.
NoRetirement == [plan |-> NoPlan, job |-> "none", bind |-> 0]

NewSchema ==
    [exists |-> TRUE, deleting |-> FALSE, finalizer |-> FALSE, gen |-> 1, suspend |-> FALSE,
     observed |-> 0,            \* observedGeneration
     phase |-> "New",
     bind |-> 0,                \* executionBinding.epoch
     parts |-> 0,               \* ... and the components it stands for
     src |-> NoSource, plan |-> NoPlan, op |-> NoOp, proof |-> NoProof,
     retire |-> NoRetirement, release |-> NoRelease,
     applied |-> None]          \* the Apply credited with the database's state

Gone == [NewSchema EXCEPT !.exists = FALSE]

Active(s) == s.op # NoOp
Owes(s) == s.proof # NoProof
Kind(s) == schemaOperations[s.op.type]
Is(s, type) == s.op.type = type
ServesProof(s) == Active(s) /\ Owes(s) /\ Kind(s).servesProof
Holds(s) == HoldsLock(Kind(s), Owes(s))
Dispatched(s) == MayHaveDispatched(s.op.started, s.op.uid)

\* Who the Lease is asked for: a proof and its reads stand for the Apply.
Holder(s) == IF Active(s) /\ ~ServesProof(s) THEN s.op.id ELSE s.proof.id

\* A plan as its name, UID and fingerprint tell it from another.
Identity(plan) == [plan EXCEPT !.approval = NoApproval]

\* operationInputs: what a claim of this type depends on.
Inputs(s, type) ==
    LET proving == Owes(s) /\ schemaOperations[type].servesProof
    IN  [gen |-> IF proving THEN s.proof.gen ELSE s.gen,
         bind |-> s.bind,
         src |-> IF proving \/ type = "Resolve" THEN NoSource ELSE s.src,
         plan |-> IF type = "Apply" THEN s.plan ELSE NoPlan,
         proof |-> IF proving THEN s.proof ELSE NoProof]

InputsChanged(s) == s.op.asked # Inputs(s, s.op.type)

\* The content a claim's Plan compares the database with.
Wanted(op) == IF op.asked.proof # NoProof THEN op.asked.proof.plan.want ELSE op.asked.src.want

-----------------------------------------------------------------------------
(* What status writes make of the object.                                  *)

\* retireClaim with stageRetirementRelease: the claim goes, and with it the
\* Lease, unless a proof takes it over.
Retire(before, after, disposition) ==
    LET gives == Releases(Kind(before), before.op.epoch # Blank, Owes(before), disposition,
                          TRUE, FALSE, Owes(before) /\ ~Owes(after))
        owed == CASE gives = "claim" -> [id |-> before.op.id, epoch |-> before.op.epoch]
                  [] gives = "proof" -> [id |-> before.proof.id, epoch |-> before.proof.epoch]
                  [] gives = "none" -> after.release
    IN  [after EXCEPT !.op = NoOp, !.release = owed]

\* retryOperationReporting: the claim goes on as a new attempt, and what the
\* attempt held itself goes back.
Retried(s, phase) ==
    LET given == Retire(s, s, Discard).release
    IN  [s EXCEPT !.op = [s.op EXCEPT !.uid = FALSE, !.started = FALSE, !.snapshot = FALSE,
                                      !.epoch = IF given = s.release THEN @ ELSE Blank,
                                      !.lost = @ /\ given = s.release],
                  !.release = given, !.phase = phase]

\* pendingObservationFor
ProofOf(s, outcome, waits, found, count) ==
    [id |-> s.op.id, outcome |-> outcome, uid |-> s.op.uid \/ found, pods |-> count,
     planRequired |-> FALSE, epoch |-> s.op.epoch, gen |-> s.observed, wait |-> waits,
     plan |-> s.plan]

Pods(i) == {k \in 1..MaxPods : pod[<<i, k>>] # "none"}

\* finishUncertainApply: the database is read before anything is concluded.
UncertainWith(s, waits, found, count) ==
    Retire(s, [s EXCEPT !.proof = ProofOf(s, "Unknown", waits, found, count),
                        !.phase = "Converging"], Unaccounted)

\* Pods are looked up by the UID of their Job, recorded or at hand.
Uncertain(s, found) ==
    UncertainWith(s, TRUE, found, IF s.op.uid \/ found THEN Cardinality(Pods(s.op.id)) ELSE 0)

\* Mutant: the plan stays in status when its binding is replaced.
RotateKeepsPlan(s, j) == [s EXCEPT !.bind = @ + 1, !.parts = conf, !.phase = "Pending"]

\* rotateExecutionBinding: a new epoch, and what the old one leaves behind.
Rotate(s, j) ==
    [s EXCEPT !.bind = @ + 1, !.parts = conf, !.phase = "Pending", !.plan = NoPlan,
              !.retire = IF s.plan = NoPlan /\ j = "none" THEN NoRetirement
                         ELSE [plan |-> Identity(s.plan), job |-> j, bind |-> s.bind]]

\* finishUncertainApplyForExecutionBindingChange and executionBindingChanged:
\* a dispatched Apply owes a proof, a read keeps its claim until its Job is
\* over, an Apply never dispatched is dropped.
BindingChanged(s) ==
    LET again == [s EXCEPT !.proof.planRequired = FALSE]
    IN  CASE Is(s, "Apply") /\ Dispatched(s) -> Rotate(Uncertain(s, FALSE), "Apply")
          [] Is(s, "Apply") /\ ~Dispatched(s) -> Retire(s, Rotate(s, "none"), Discard)
          [] Active(s) /\ ~Is(s, "Apply") -> Rotate(again, "read")
          [] ~Active(s) ->
                Rotate(again, IF Owes(s) /\ s.proof.outcome = "Unknown"
                                 /\ s.proof.plan.bind = s.bind THEN "Apply" ELSE "none")

\* applyBecameStale
ApplyStale(s) ==
    LET after == [s EXCEPT !.plan = NoPlan, !.phase = "Observing"]
    IN  IF Active(s) THEN Retire(s, after, Discard) ELSE after

\* approvalBecameInvalid
ApprovalInvalid(s) ==
    LET after == [s EXCEPT !.plan.approval = NoApproval, !.phase = "Ready"]
    IN  IF Active(s) THEN Retire(s, after, Discard) ELSE after

\* discardStaleOperation
DiscardStale(s) ==
    Retire(s, IF ServesProof(s) THEN [s EXCEPT !.phase = "Converging"]
              ELSE [s EXCEPT !.plan = NoPlan, !.src.verified = FALSE, !.phase = "Pending"],
           Discard)

\* verificationPolicyChanged
PolicyChanged(s) ==
    LET after == [s EXCEPT !.plan = NoPlan, !.src.verified = FALSE, !.phase = "Verifying"]
    IN  IF Active(s) THEN Retire(s, after, Discard) ELSE after

\* suspendActiveOperation
SuspendOp(s) == Retire(s, [s EXCEPT !.phase = "Suspended", !.observed = s.gen], Discard)

\* reobserveAfterStalePlan, and what recoverLeaseContinuity makes of a claim
\* that was not an Apply: the cycle, or the proof, starts over from a read.
Reobserve(s) ==
    Retire(s, [s EXCEPT !.plan = NoPlan, !.proof.planRequired = FALSE,
                        !.phase = IF Owes(s) THEN "Converging" ELSE "Observing"], Discard)
Recovered(s) == Reobserve([s EXCEPT !.proof.outcome = "Unknown"])

\* operationFailure: the claim, if there is one, stays for the next pass.
OperationFailed(s) == [s EXCEPT !.phase = "Failed"]

\* schemaRealmBlocked
RealmBlocked(s) == [s EXCEPT !.phase = "Blocked", !.observed = s.gen]

\* giveWayToResolve
GivesWay(s) == Retire(s, [s EXCEPT !.phase = "Pending"], Discard)

\* blockVerification
BlockVerification(s) ==
    Retire(s, [s EXCEPT !.src.verified = FALSE, !.plan = NoPlan, !.phase = "Blocked",
                        !.observed = s.gen], Accounted)

\* refuseProtectedTable
RefuseProtectedTable(s) == Retire(s, [s EXCEPT !.plan = NoPlan, !.phase = "Blocked"], Accounted)

\* settleProofOnMovedTarget: on a person's word, what the Apply did is dropped.
SettleMoved(s) ==
    Retire(s, [s EXCEPT !.proof = NoProof, !.plan = NoPlan, !.phase = "Pending"], Discard)

\* Mutant: the Job is cleaned up and its record kept.
SettleJobKeeps(s) == s

\* settleRetirement
SettleJob(s) ==
    [s EXCEPT !.retire = IF @.plan = NoPlan THEN NoRetirement ELSE [@ EXCEPT !.job = "none"]]

\* Mutant: the plan is retired and its record kept.
SettlePlanKeeps(s) == s

SettlePlan(s) ==
    [s EXCEPT !.retire = IF @.job = "none" THEN NoRetirement ELSE [@ EXCEPT !.plan = NoPlan]]

\* A plan's phase under the apply policy (setPlanPolicyStatus).
PlanPhase == IF Policy = "Never" THEN "Blocked" ELSE "Ready"

\* ensureCurrentStatusExecutionBinding, of the plan whose Apply is proved.
Rebound(s) == s.proof.plan.bind # s.bind \/ s.parts # conf

(***************************************************************************)
(* A Plan that ends a proof.  The Apply is credited only when it reported  *)
(* success and nobody else has had the database since; the object is in    *)
(* sync only if what was proved is what it asks for now.                   *)
(***************************************************************************)
Proved(s, saw, unverified) ==
    LET p == s.proof
        rebound == Rebound(s)
        current == p.gen = s.gen /\ s.src = [want |-> p.plan.want, verified |-> TRUE]
        clean == saw = p.plan.want
        plan == [want |-> p.plan.want, from |-> saw, bind |-> s.bind, approval |-> NoApproval]
        after == [s EXCEPT !.proof = NoProof, !.observed = p.gen, !.plan = NoPlan,
                           !.applied = IF clean /\ p.outcome = "Succeeded" THEN p.id ELSE @]
    IN  Retire(s, CASE rebound -> [after EXCEPT !.phase = "Pending"]
                    [] ~rebound /\ unverified ->
                         [after EXCEPT !.src.verified = FALSE,
                                       !.phase = IF p.gen = s.gen THEN "Verifying" ELSE "Pending"]
                    [] ~rebound /\ ~unverified /\ clean ->
                         [after EXCEPT !.phase = IF p.gen = s.gen THEN "InSync" ELSE "Pending"]
                    [] ~rebound /\ ~unverified /\ ~clean ->
                         IF current THEN [after EXCEPT !.plan = plan, !.phase = PlanPhase]
                         ELSE [after EXCEPT !.phase = "Pending"],
               Accounted)

\* consumeResultWithTransport, for the result of a read-only Job that shows saw.
Consumed(s, saw) ==
    LET s1 == [s EXCEPT !.observed = s.gen]
    IN  CASE Is(s, "Resolve") ->
                LET s2 == [s1 EXCEPT !.src = [want |-> saw, verified |-> FALSE], !.phase = "Verifying"]
                IN  Retire(s, IF saw = s.src.want THEN s2
                              ELSE [s2 EXCEPT !.plan = NoPlan, !.applied = None], Accounted)
          [] Is(s, "Verify") ->
                Retire(s, [s1 EXCEPT !.src.verified = TRUE, !.phase = "Observing"], Accounted)
          [] Is(s, "Observe") /\ Owes(s) ->
                Retire(s, [s EXCEPT !.observed = s.proof.gen, !.plan = NoPlan,
                                    !.proof.planRequired = TRUE, !.phase = "Converging"], Accounted)
          [] Is(s, "Observe") /\ ~Owes(s) ->
                Retire(s, [s1 EXCEPT !.plan = NoPlan, !.phase = "Planning"], Accounted)
          [] Is(s, "Plan") /\ Owes(s) -> Proved(s, saw, FALSE)
          [] Is(s, "Plan") /\ ~Owes(s) ->
                Retire(s, IF saw = Wanted(s.op)
                          THEN [s1 EXCEPT !.plan = NoPlan, !.phase = "InSync"]
                          ELSE [s1 EXCEPT !.plan = [want |-> Wanted(s.op), from |-> saw,
                                                    bind |-> s.bind, approval |-> NoApproval],
                                          !.phase = PlanPhase], Accounted)

-----------------------------------------------------------------------------
(* A pass: what it read, what it is about to write, and where it goes.     *)

Pass(at, fresh, seen, todo, then, given) ==
    [at |-> at, fresh |-> fresh, seen |-> seen, todo |-> todo, then |-> then, given |-> given]

IdlePass == Pass("idle", FALSE, Gone, Gone, "idle", "none")

At(label) == pass.at = label
S == pass.seen

Becomes(p) == pass' = p /\ UNCHANGED st
Goes(at, then, given) == Becomes(Pass(at, pass.fresh, S, S, then, given))
PassReturns == Becomes(IdlePass)

\* Every write is made under optimistic locking: one made from an outdated
\* version changes nothing and ends the pass, which here ends before it.
PatchesGiven(s, then, given) ==
    IF pass.fresh THEN Becomes(Pass("patch", TRUE, S, s, then, given)) ELSE PassReturns
Patches(s, then) == PatchesGiven(s, then, "none")

Writing == {"patch", "finalize"}

\* Somebody else wrote the object: the pass holds an outdated version of it.
Outdated == IF At("idle") \/ pass.at \in Writing THEN IdlePass
            ELSE Pass(pass.at, FALSE, S, pass.todo, pass.then, pass.given)

\* Handlers end by taking the finalizer off an object that owes nothing more.
Ending(s) == IF Owes(s) THEN "idle" ELSE "unfinalize"
Ends(s) == Patches(s, Ending(s))

Fault == faults < MaxFaults /\ faults' = faults + 1

Found(i) == job[i] \in {"live", "done"}
ReadFound == read.is \in {"live", "done"}

\* The Job under the current claim's name, as a direct read shows it.
JobOf(s) ==
    IF Is(s, "Apply") THEN IF Found(s.op.id) THEN job[s.op.id] ELSE "none"
    ELSE IF ReadFound THEN read.is ELSE "none"

PodsRunning(i) == \E k \in 1..MaxPods : pod[<<i, k>>] = "running"
NoRead == [is |-> "none", saw |-> Failed, by |-> None]

MarkStale(as) ==
    appr' = [a \in Approvals |->
                IF a \notin as THEN appr[a]
                ELSE CASE appr[a].is = "open" -> [appr[a] EXCEPT !.is = "stale"]
                       [] appr[a].is = "consumed" -> [appr[a] EXCEPT !.is = "spent"]
                       [] OTHER -> appr[a]]

Recorded(s) == {s.plan.approval} \ {NoApproval}
OfPlan(plan) == {a \in Approvals : appr[a].of = Identity(plan)}

\* What reconcileExecutionBinding finds to do; "none" lets the pass go on.  A
\* record whose Job is nobody's ("settle") is never met: RetirementHasItsClaim.
BindingDuty(s) ==
    LET r == s.retire
    IN  CASE r # NoRetirement ->
                IF r.plan # NoPlan THEN "retireplan"
                ELSE IF r.job = "read" /\ Active(s) THEN "retireread"
                ELSE IF r.job = "Apply" /\ Owes(s) /\ ~Active(s) THEN "none" ELSE "settle"
          [] r = NoRetirement ->
                IF s.bind # 0 /\ s.parts = conf /\ (Active(s) => s.op.asked.bind = s.bind)
                THEN "none" ELSE IF s.phase = "New" THEN "install" ELSE "rebind"

\* What reconcile attends to first, in the order of its early returns.
Duty(s) ==
    IF s.release # NoRelease THEN "release"
    ELSE IF s.deleting THEN "delete"
    ELSE IF BindingDuty(s) # "none" THEN BindingDuty(s)
    ELSE IF Active(s) THEN IF s.op.lost \/ ServesProof(s) THEN "lock" ELSE "job"
    ELSE IF Owes(s) THEN "lock"
    ELSE IF s.finalizer THEN "unfinalize"
    ELSE "decide"

\* Where a pass goes once it holds the Lease that Duty sent it for.
AfterLock(s) == IF Active(s) /\ s.op.lost THEN "recover" ELSE "pods"

Begin ==
    /\ At("idle") /\ st.exists
    /\ pass' = Pass(Duty(st), TRUE, st, st, IF Duty(st) = "lock" THEN AfterLock(st) ELSE "idle", "none")
    /\ UNCHANGED <<st, world, realmVars>>

\* The manager stops, or a call fails and the pass returns its error.
PassStops ==
    /\ ~At("idle")
    /\ Fault
    /\ PassReturns
    /\ UNCHANGED <<conf, tag, db, by, read, runs, appr, claims, realmVars>>

\* After a write that owes a release, the release is tried at once.
Then(p, s) ==
    IF s.release # NoRelease THEN Pass("release", TRUE, s, s, p.then, p.given)
    ELSE IF p.then = "idle" THEN IdlePass
    ELSE Pass(p.then, TRUE, s, s,
              IF p.given \in {"live", "done"} THEN "supervise" ELSE AfterLock(s), p.given)

\* A claim retired or begun anew has no Job yet.
PatchStatus ==
    /\ At("patch") /\ pass.fresh
    /\ st' = pass.todo
    /\ pass' = Then(pass, pass.todo)
    /\ read' = IF pass.todo.op.snapshot THEN read ELSE NoRead
    /\ report' = IF Active(pass.todo) THEN report ELSE [i \in Ids |-> "none"]
    /\ UNCHANGED <<conf, tag, db, by, job, pod, exec, left, what, appr, claims, faults, realmVars>>

\* Mutant: a Lease that somebody else has by now is waited for.
ReleaseOwnOnly ==
    /\ At("release")
    /\ IF owner = S.release.id /\ term = S.release.epoch
       THEN Free /\ Patches([S EXCEPT !.release = NoRelease], pass.then)
       ELSE PassReturns /\ UNCHANGED realmVars
    /\ UNCHANGED world

\* completePendingLockRelease: the Lease first, the record only after it.
ReleaseLock ==
    /\ At("release")
    /\ IF owner = S.release.id /\ term = S.release.epoch THEN Free ELSE UNCHANGED realmVars
    /\ Patches([S EXCEPT !.release = NoRelease], pass.then)
    /\ UNCHANGED world

\* removeActiveFinalizer reads the object again and refuses one that still
\* owes something; a deleted object is gone with its finalizer.
Unfinalize ==
    /\ At("unfinalize")
    /\ pass' = IdlePass
    /\ st' = IF Active(st) \/ Owes(st) \/ st.release # NoRelease THEN st
             ELSE IF st.deleting THEN Gone ELSE [st EXCEPT !.finalizer = FALSE]
    /\ UNCHANGED <<world, realmVars>>

Finalize ==
    LET Hold(s) == [s EXCEPT !.finalizer = TRUE]
    IN  /\ At("finalize") /\ pass.fresh
        /\ st' = Hold(st)
        /\ pass' = Pass("patch", TRUE, Hold(S), Hold(pass.todo), "idle", "none")
        /\ UNCHANGED <<world, realmVars>>

-----------------------------------------------------------------------------
(* The execution binding, and what an earlier one left behind.             *)

Install ==
    /\ At("install")
    /\ Patches([S EXCEPT !.bind = @ + 1, !.parts = conf], "idle")
    /\ UNCHANGED <<world, realmVars>>

Rebind ==
    /\ At("rebind")
    /\ Patches(BindingChanged(S), "idle")
    /\ UNCHANGED <<world, realmVars>>

\* retireBindingPlan
RetirePlan ==
    LET s == SettlePlan(S)
    IN  /\ At("retireplan")
        /\ MarkStale(OfPlan(S.retire.plan))
        /\ Patches(s, IF Active(s) THEN "idle" ELSE Ending(s))
        /\ UNCHANGED <<conf, tag, db, by, read, runs, claims, faults, realmVars>>

\* cleanupRetiredReadOnlyJob: the claim goes once its Job is over, unread.
RetireRead ==
    /\ At("retireread")
    /\ CASE ReadFound /\ ~S.op.uid -> Patches([S EXCEPT !.op.uid = TRUE], "idle")
         [] read.is = "live" /\ S.op.uid -> PassReturns
         [] OTHER -> Patches(Retire(S, SettleJob(S), Discard), "idle")
    /\ UNCHANGED <<world, realmVars>>

-----------------------------------------------------------------------------
(* The Lease.                                                              *)

\* Mutant: a proof whose Lease changed hands still speaks for its Apply.
ReepochForgiving(s, e) ==
    IF Active(s) THEN [s EXCEPT !.op.epoch = e, !.proof.epoch = IF ServesProof(s) THEN e ELSE @]
    ELSE [s EXCEPT !.proof.epoch = e]

(***************************************************************************)
(* acquireActiveLock and acquirePendingLock: another ownership than the    *)
(* one recorded voids what a dispatched claim found, and what a proof can  *)
(* say of its Apply.  The claim's first ownership is expected.             *)
(***************************************************************************)
Reepoch(s, e) ==
    LET Doubt(p) == [p EXCEPT !.epoch = e, !.outcome = "Unknown", !.planRequired = FALSE]
        proofLost == ServesProof(s) /\ s.proof.epoch # e
    IN  IF Active(s)
        THEN [s EXCEPT !.op.epoch = e,
                       !.op.lost = s.op.epoch = Blank \/ Dispatched(s) \/ proofLost,
                       !.proof = IF proofLost THEN Doubt(@) ELSE @]
        ELSE [s EXCEPT !.proof = Doubt(@)]

RecordedEpoch(s) == IF Active(s) THEN s.op.epoch ELSE s.proof.epoch

AcquireLock ==
    LET h == Holder(S)
        Has(e) == IF RecordedEpoch(S) # e THEN Patches(Reepoch(S, e), "idle")
                  ELSE IF pass.then = "idle" THEN PassReturns
                  ELSE Goes(pass.then, "idle", pass.given)
    IN  /\ At("lock")
        /\ \/ owner \notin {NoOwner, h} /\ rest > 0 /\ PassReturns /\ UNCHANGED realmVars
           \/ owner = h /\ Renew(h, LeaseDuration) /\ Has(term)
           \/ owner # h /\ issued < MaxGrants /\ Grant(h, LeaseDuration) /\ Has(term')
        /\ UNCHANGED world

\* recoverLeaseContinuity
Recover ==
    LET j == JobOf(S)
    IN  /\ At("recover")
        /\ IF Is(S, "Apply")
           THEN Patches(Uncertain(S, j # "none" /\ ~S.deleting), "idle")
                /\ UNCHANGED appr
           ELSE IF j = "live" THEN PassReturns /\ UNCHANGED appr
           ELSE Ends(Recovered(S)) /\ MarkStale(Recorded(S))
        /\ UNCHANGED <<conf, tag, db, by, read, runs, claims, faults, realmVars>>

-----------------------------------------------------------------------------
(* The proof an Apply owes.                                                *)

\* Mutants: the proof does not wait for the Apply's time to pass; it waits on.
WaitingNever(s) == FALSE
WaitingOn(s) == s.proof.wait

Waiting(s) == s.proof.wait /\ left[s.proof.id] > 0

(***************************************************************************)
(* possibleApplyPodActive: no proof is read while a Pod of the Apply may   *)
(* run.  More than one Pod leaves the outcome unknown.  An Apply retired   *)
(* with its binding has its Job found, and seen to its end, first.         *)
(***************************************************************************)
CheckPods ==
    LET p == S.proof
        i == p.id
        retired == S.retire.job = "Apply" /\ ~Active(S)
        count == IF Cardinality(Pods(i)) > p.pods THEN Cardinality(Pods(i)) ELSE p.pods
        merged == [S EXCEPT !.proof.pods = count,
                            !.proof.outcome = IF count > 1 THEN "Unknown" ELSE @]
        next == IF Active(S) THEN "job" ELSE IF S.deleting THEN "ended" ELSE "proof"
        Held(s) == IF Active(S) THEN Patches(s, "idle") ELSE PatchesGiven(s, next, "active")
    IN  /\ At("pods")
        /\ CASE ~p.uid /\ ~retired -> Goes(next, "idle", "none")
             [] ~p.uid /\ retired ->
                   Held(IF Found(i) THEN [S EXCEPT !.proof.uid = TRUE]
                        ELSE IF Waiting(S) THEN S ELSE SettleJob(S))
             [] p.uid /\ PodsRunning(i) -> Held(merged)
             [] p.uid /\ ~PodsRunning(i) /\ retired ->
                   Held(IF job[i] = "live" THEN merged ELSE SettleJob(merged))
             [] p.uid /\ ~PodsRunning(i) /\ ~retired ->
                   IF merged = S THEN Goes(next, "idle", "none")
                   ELSE PatchesGiven(merged, next, "none")
        /\ UNCHANGED <<world, realmVars>>

\* Mutant: the claim is written and no finalizer protects it.
ClaimGateOpen == "patch"

\* A claim is written after the finalizer that protects it.
ClaimGate == IF S.finalizer THEN "patch" ELSE "finalize"

\* claimAt
Claims(type) ==
    LET proving == Owes(S)
        locks == HoldsLock(schemaOperations[type], proving) /\ ~proving
        id == IF locks THEN claims + 1 ELSE None
        epoch == IF proving THEN S.proof.epoch ELSE IF locks THEN Token ELSE Blank
        s == [S EXCEPT !.op = NewOp(type, id, epoch, Inputs(S, type)),
                       !.observed = IF proving THEN S.proof.gen ELSE S.gen,
                       !.phase = IF proving THEN "Converging" ELSE "Busy"]
    IN  /\ locks => claims < MaxClaims
        /\ claims' = IF locks THEN claims + 1 ELSE claims
        /\ left' = [i \in Ids |-> IF i = id /\ type = "Apply" THEN Window + StopGrace ELSE left[i]]
        /\ what' = [i \in Ids |-> IF i = id /\ type = "Apply" THEN S.plan ELSE what[i]]
        /\ IF pass.fresh
           THEN Becomes(Pass(ClaimGate, TRUE, S, s, "idle", "none"))
           ELSE PassReturns

NoClaim == UNCHANGED <<claims, left, what>>

\* reconcilePendingObservation, past the Lease and the Pods.
Prove ==
    /\ At("proof")
    /\ CASE S.suspend -> /\ IF S.phase = "Suspended" THEN PassReturns
                            ELSE Patches([S EXCEPT !.phase = "Suspended"], "idle")
                         /\ NoClaim
         [] ~S.suspend /\ (pass.given = "active" \/ Waiting(S)) -> PassReturns /\ NoClaim
         [] ~S.suspend /\ pass.given # "active" /\ ~Waiting(S) ->
               Claims(IF S.proof.planRequired THEN "Plan" ELSE "Observe")
    /\ UNCHANGED <<conf, tag, db, by, read, job, pod, exec, report, appr, faults, realmVars>>

\* reconcileDeletion, past the Lease and the Pods: the proof is given up.
EndProof ==
    /\ At("ended")
    /\ IF pass.given = "active" \/ Waiting(S) THEN PassReturns
       ELSE Patches([S EXCEPT !.proof = NoProof,
                              !.release = [id |-> S.proof.id, epoch |-> S.proof.epoch]], "unfinalize")
    /\ UNCHANGED <<world, realmVars>>

-----------------------------------------------------------------------------
(* Between operations.                                                     *)

Current(a, plan) == appr[a].of = Identity(plan) /\ appr[a].is \in {"open", "consumed"}
Open(a, plan) == appr[a].of = Identity(plan) /\ appr[a].is = "open"

\* findApproval: duplicates are retired one at a time before the only one left
\* is reserved; with none to reserve, one that names another plan is retired.
FindApproval ==
    LET valid == {a \in Approvals : Open(a, S.plan)}
        old == {a \in Approvals : appr[a].is \in {"open", "consumed"} /\ ~Current(a, S.plan)}
    IN  CASE Cardinality(valid) > 1 -> \E a \in valid : MarkStale({a}) /\ PassReturns
          [] Cardinality(valid) = 1 ->
                /\ \E a \in valid : Patches([S EXCEPT !.plan.approval = a], "idle")
                /\ UNCHANGED appr
          [] valid = {} /\ old # {} -> \E a \in old : MarkStale({a}) /\ PassReturns
          [] valid = {} /\ old = {} -> PassReturns /\ UNCHANGED appr

\* reconcileApproval
DecidePlan ==
    LET needed == Policy = "OnApproval"
        a == S.plan.approval
    IN  CASE needed /\ a = NoApproval -> FindApproval /\ NoClaim
          [] needed /\ a # NoApproval /\ ~Current(a, S.plan) ->
                Ends(ApprovalInvalid(S)) /\ UNCHANGED appr /\ NoClaim
          [] ~needed \/ (a # NoApproval /\ Current(a, S.plan)) ->
                Claims("Apply") /\ UNCHANGED appr

\* The phases that wait for the time of the next refresh.
Resting == {"Blocked", "InSync", "Failed"}

NextRead == [Verifying |-> "Verify", Observing |-> "Observe", Converging |-> "Observe",
             Planning |-> "Plan"]

(***************************************************************************)
(* reconcile, past everything that is owed: a refresh when the object was  *)
(* edited, its source moved or its time has come, and otherwise the next   *)
(* operation of the cycle.                                                 *)
(***************************************************************************)
Decide ==
    LET current == S.observed = S.gen
        goes == ~S.suspend /\ current
    IN  /\ At("decide")
        /\ \/ /\ S.suspend
              /\ Patches([S EXCEPT !.phase = "Suspended", !.observed = S.gen], "idle")
              /\ UNCHANGED <<appr, faults>> /\ NoClaim
           \/ /\ ~S.suspend
              /\ ~current \/ S.phase \in Resting \/ S.phase \notin DOMAIN NextRead \cup {"Ready"}
              /\ Claims("Resolve") /\ UNCHANGED <<appr, faults>>
           \/ goes /\ S.phase \notin Resting /\ Fault /\ Claims("Resolve") /\ UNCHANGED appr
           \/ /\ goes /\ S.phase \in DOMAIN NextRead
              /\ Claims(NextRead[S.phase]) /\ UNCHANGED <<appr, faults>>
           \/ goes /\ S.phase = "Ready" /\ DecidePlan /\ UNCHANGED faults
           \/ /\ goes /\ S.phase = "Ready" /\ Fault    \* the plan cannot be read
              /\ Ends(ApplyStale(S)) /\ MarkStale(Recorded(S)) /\ NoClaim
           \/ goes /\ S.phase \in Resting /\ PassReturns /\ UNCHANGED <<appr, faults>> /\ NoClaim
           \/ /\ S.src.verified /\ Fault           \* the policy it was verified against moved
              /\ Ends(PolicyChanged(S)) /\ MarkStale(Recorded(S)) /\ NoClaim
           \/ /\ Fault
              /\ \/ Patches(OperationFailed(S), "idle")
                 \/ ~S.suspend /\ Patches(RealmBlocked(S), "idle")
              /\ UNCHANGED appr /\ NoClaim
        /\ UNCHANGED <<conf, tag, db, by, read, job, pod, exec, report, realmVars>>

-----------------------------------------------------------------------------
(* An active claim.                                                        *)

\* A read that failed before it had a Job may give way to a refresh.
MayGiveWay(s) ==
    ~s.suspend /\ ~Is(s, "Apply") /\ ~Owes(s) /\ ~s.op.uid /\ s.phase = "Failed" /\ JobOf(s) = "none"

\* reconcileActive reads the Job under the claim's name, and asks for the Lease
\* again before it acts on what the Job shows.
ReadJob ==
    LET c == S.op
        j == JobOf(S)
        Verdict(found, exact) == VerdictFor(Kind(S).mutating, c.started, c.uid, found, exact, exact)
        ours == Verdict(j # "none", TRUE)
        adopted == [S EXCEPT !.op.uid = TRUE, !.op.started = @ \/ Is(S, "Apply")]
        next == IF Holds(S) THEN "lock" ELSE "supervise"
        paused == S.suspend /\ ~Owes(S) /\ ~Is(S, "Apply")
    IN  /\ At("job")
        /\ \/ /\ MayGiveWay(S)
              /\ Patches(GivesWay(S), "idle")
              /\ UNCHANGED faults
           \/ /\ UNCHANGED faults
              /\ CASE ours = "dispatch" -> Goes("authorize", "idle", "none")
                   [] ours = Unaccounted -> Goes("lock", "uncertain", "none")
                   [] ours \in {"adopt", "supervise"} ->
                         IF paused THEN Ends(SuspendOp(S))
                         ELSE IF adopted # S THEN PatchesGiven(adopted, next, j)
                         ELSE Goes(next, "supervise", j)
           \/ /\ ~paused /\ Fault                  \* the Job under the name is another
              /\ CASE Verdict(TRUE, FALSE) = Unaccounted -> Goes("lock", "uncertain", "none")
                   [] Verdict(TRUE, FALSE) = Retry -> Patches(Retried(S, "Failed"), "idle")
        /\ UNCHANGED <<conf, tag, db, by, read, runs, appr, claims, realmVars>>

\* finishUncertainApply, with the Job in hand or without it.
FinishUncertain ==
    /\ At("uncertain")
    /\ Patches(Uncertain(S, pass.given # "none"), "idle")
    /\ UNCHANGED <<world, realmVars>>

\* Authorize: the last look at what the claim depends on before it dispatches.
Authorize ==
    LET apply == Is(S, "Apply")
        a == S.plan.approval
        invalid == apply /\ Policy = "OnApproval" /\ (a = NoApproval \/ ~Current(a, S.plan))
    IN  /\ At("authorize")
        /\ \/ /\ S.suspend
              /\ Ends(SuspendOp(S)) /\ UNCHANGED <<appr, faults>>
           \/ /\ ~S.suspend /\ InputsChanged(S)
              /\ Ends(IF apply THEN ApplyStale(S) ELSE DiscardStale(S))
              /\ MarkStale(IF ServesProof(S) THEN {} ELSE Recorded(S)) /\ UNCHANGED faults
           \/ /\ ~S.suspend /\ ~InputsChanged(S) /\ apply /\ Fault  \* the plan cannot be read
              /\ Ends(ApplyStale(S)) /\ MarkStale(Recorded(S))
           \/ /\ ~S.suspend /\ ~InputsChanged(S) /\ S.op.type \in {"Verify", "Apply"} /\ Fault
              /\ Ends(PolicyChanged(S)) /\ MarkStale(Recorded(S))
           \/ /\ ~S.suspend /\ ~InputsChanged(S) /\ invalid
              /\ Ends(ApprovalInvalid(S)) /\ UNCHANGED <<appr, faults>>
           \/ /\ ~S.suspend /\ ~InputsChanged(S) /\ ~invalid
              /\ IF Holds(S) THEN Goes("lock", "snapshot", "none")
                 ELSE Goes("snapshot", "idle", "none")
              /\ UNCHANGED <<appr, faults>>
        /\ UNCHANGED <<conf, tag, db, by, read, runs, claims, realmVars>>

\* Every locked Job is marked before its create is sent.
Mark ==
    IF Holds(S) THEN Patches([S EXCEPT !.op.started = TRUE], "create")
    ELSE Goes("create", "idle", "none")

\* Build and SaveSnapshot.  A read whose recorded Job is missing is tried again.
Snapshot ==
    /\ At("snapshot")
    /\ \/ /\ UNCHANGED faults
          /\ CASE S.op.uid -> Patches(Retried(S, "Failed"), "idle") /\ UNCHANGED appr
               [] ~S.op.uid /\ ~S.op.snapshot ->
                     Patches([S EXCEPT !.op.snapshot = TRUE], "idle") /\ UNCHANGED appr
               [] ~S.op.uid /\ S.op.snapshot ->
                     /\ IF Is(S, "Apply") /\ S.plan.approval # NoApproval
                        THEN Goes("consume", "idle", "none") ELSE Mark
                     /\ UNCHANGED appr
       \/ /\ ~S.op.uid /\ Fault                    \* no Job can be built, or admitted as built
          /\ \/ Patches(OperationFailed(S), "idle") /\ UNCHANGED appr
             \/ /\ Ends(IF Is(S, "Apply") THEN ApplyStale(S) ELSE DiscardStale(S))
                /\ MarkStale(IF ServesProof(S) THEN {} ELSE Recorded(S))
    /\ UNCHANGED <<conf, tag, db, by, read, runs, claims, realmVars>>

\* Mutant: the approval is checked and not spent.
ConsumeNothing ==
    /\ At("consume")
    /\ IF Current(S.plan.approval, S.plan) THEN Mark ELSE Ends(ApprovalInvalid(S))
    /\ UNCHANGED <<world, realmVars>>

\* ensureCurrentApproval spends the approval before the mark.
Consume ==
    LET a == S.plan.approval
    IN  /\ At("consume")
        /\ IF Current(a, S.plan)
           THEN Mark /\ appr' = [appr EXCEPT ![a].is = "consumed"]
           ELSE Ends(ApprovalInvalid(S)) /\ UNCHANGED appr
        /\ UNCHANGED <<conf, tag, db, by, read, runs, claims, faults, realmVars>>

Create ==
    /\ At("create")
    /\ IF Is(S, "Apply")
       THEN /\ job' = [job EXCEPT ![S.op.id] = "sent"] /\ UNCHANGED read
            /\ Goes("creating", "idle", "none")
       ELSE /\ read' = IF st.exists /\ Active(st) THEN [NoRead EXCEPT !.is = "live"] ELSE read
            /\ UNCHANGED job
            /\ Goes("confirm", "idle", "none")
    /\ UNCHANGED <<conf, tag, db, by, pod, exec, report, left, what, appr, claims, faults, realmVars>>

\* The API server's answer; a refusal withdraws the mark.
CreateAnswered ==
    LET i == S.op.id
    IN  /\ At("creating")
        /\ \/ /\ job[i] \in {"live", "done", "gone"}
              /\ Goes("confirm", "idle", "none") /\ UNCHANGED job
           \/ /\ job[i] = "refused" /\ DispatchFailure("create", TRUE, "refused") = Withdraw
              /\ job' = [job EXCEPT ![i] = "none"]
              /\ Patches([S EXCEPT !.op.started = FALSE], "idle")
        /\ UNCHANGED <<conf, tag, db, by, read, pod, exec, report, left, what, appr, claims, faults, realmVars>>

\* The answer does not come: what the create did is nobody's to tell.
CreateUnknown ==
    /\ At("creating")
    /\ DispatchFailure("create", TRUE, "unknown") = Unaccounted
    /\ Fault
    /\ Goes("uncertain", "idle", "none")
    /\ UNCHANGED <<conf, tag, db, by, read, runs, appr, claims, realmVars>>

\* The Job is read back and its UID recorded, unless it is not the one sent.
Confirm ==
    /\ At("confirm")
    /\ \/ /\ IF JobOf(S) = "none" THEN PassReturns ELSE Patches([S EXCEPT !.op.uid = TRUE], "idle")
          /\ UNCHANGED faults
       \/ /\ Fault
          /\ CASE DispatchFailure("intent", Is(S, "Apply"), "taken") = Unaccounted ->
                     Goes("uncertain", "idle", "none")
               [] DispatchFailure("intent", Is(S, "Apply"), "taken") = Retry ->
                     Patches(Retried(S, "Failed"), "idle")
    /\ UNCHANGED <<conf, tag, db, by, read, runs, appr, claims, realmVars>>

-----------------------------------------------------------------------------
(* Settling a claim whose Job is over.                                     *)

\* collectTerminalPodEvidence: one Pod, and its executor has ended.
Trusted(i) == \E k \in 1..MaxPods : Pods(i) = {k} /\ exec[<<i, k>>] = "over"

\* A terminal Apply Job settles by the run's own report, if that can be trusted
\* and read.
SuperviseApply ==
    LET i == S.op.id
        s == [S EXCEPT !.observed = S.gen]
    IN  \/ /\ InputsChanged(S) \/ ~Trusted(i)
           /\ Patches(Uncertain(S, TRUE), "idle") /\ UNCHANGED faults
        \/ /\ ~InputsChanged(S) /\ Trusted(i)
           /\ IF report[i] = "none" THEN UNCHANGED faults ELSE Fault
           /\ Patches(UncertainWith(S, FALSE, TRUE, 1), "idle")
        \/ /\ ~InputsChanged(S) /\ Trusted(i) /\ report[i] = "applied"
           /\ Patches(Retire(S, [s EXCEPT !.proof = ProofOf(s, "Succeeded", FALSE, TRUE, 1),
                                          !.phase = "Converging"], Accounted), "idle")
           /\ UNCHANGED faults

\* The approvals that end with the result a read-only claim brought.
Overtaken(s) ==
    CASE Is(s, "Resolve") /\ read.saw # s.src.want -> Recorded(s)
      [] Is(s, "Observe") -> Recorded(s)
      [] Is(s, "Plan") /\ Owes(s) /\ Rebound(s) -> OfPlan(s.proof.plan)
      [] OTHER -> {}

\* terminalLogs: what the read-only Job reported, if its log can still be read.
Result == IF read.is = "done" THEN read.saw ELSE Failed

SuperviseRead ==
    \/ /\ InputsChanged(S)
       /\ Ends(DiscardStale(S)) /\ MarkStale(IF ServesProof(S) THEN {} ELSE Recorded(S))
       /\ UNCHANGED faults
    \/ /\ ~InputsChanged(S) /\ Result = Failed
       /\ Patches(Retried(S, "Failed"), "idle") /\ UNCHANGED <<appr, faults>>
    \/ /\ ~InputsChanged(S) /\ Result # Failed
       /\ Ends(Consumed(S, Result)) /\ MarkStale(Overtaken(S)) /\ UNCHANGED faults
    \/ /\ ~InputsChanged(S) /\ Result # Failed /\ Fault
       /\ \/ /\ Is(S, "Verify")
             /\ Ends(BlockVerification(S)) /\ MarkStale(Recorded(S))
          \/ /\ S.op.type \in {"Verify", "Plan"} /\ ~Owes(S)
             /\ Ends(PolicyChanged(S)) /\ MarkStale(Recorded(S))
          \/ /\ Is(S, "Plan")
             /\ Ends(RefuseProtectedTable(S)) /\ MarkStale(Recorded(S))
          \/ /\ Is(S, "Plan")
             /\ Ends(Reobserve(S)) /\ MarkStale(Recorded(S))
          \/ /\ Is(S, "Plan") /\ Owes(S)           \* the verification policy moved meanwhile
             /\ Ends(Proved(S, Result, TRUE)) /\ MarkStale(Overtaken(S))
          \/ /\ ServesProof(S)                     \* blockProofOnMovedTarget
             /\ Patches(Retried(S, "Blocked"), "idle") /\ UNCHANGED appr
          \/ /\ ServesProof(S) /\ S.phase = "Blocked"
             /\ Patches(SettleMoved(S), "idle") /\ MarkStale(Recorded(S))

Supervise ==
    /\ At("supervise")
    /\ CASE pass.given = "live" -> PassReturns /\ UNCHANGED <<appr, faults>>
         [] pass.given = "done" /\ Is(S, "Apply") -> SuperviseApply /\ UNCHANGED appr
         [] pass.given = "done" /\ ~Is(S, "Apply") -> SuperviseRead
    /\ UNCHANGED <<conf, tag, db, by, read, runs, claims, realmVars>>

\* Mutant: a Job is waited for until it is gone, over or not.
DeleteWaits ==
    /\ At("delete")
    /\ CASE ~S.finalizer \/ (Active(S) /\ JobOf(S) # "none") -> PassReturns
         [] S.finalizer /\ Active(S) /\ JobOf(S) = "none" ->
               Patches(Retire(S, S, Discard), IF Owes(S) THEN "lock" ELSE "unfinalize")
         [] S.finalizer /\ ~Active(S) ->
               IF Owes(S) THEN Goes("lock", "pods", "none") ELSE Goes("unfinalize", "idle", "none")
    /\ UNCHANGED <<world, realmVars>>

\* reconcileDeletion, up to the proof: a running Job of a claim that holds the
\* Lease is waited for, an Apply nobody can account for owes its proof.
Delete ==
    LET j == JobOf(S)
        n == Cardinality(Pods(S.op.id))
        apply == Is(S, "Apply")
    IN  /\ At("delete")
        /\ CASE ~S.finalizer -> PassReturns
             [] S.finalizer /\ Active(S) ->
                   IF S.op.lost THEN Goes("lock", "recover", "none")
                   ELSE IF j = "live" /\ Holds(S) THEN Goes("lock", "idle", "none")
                   ELSE IF apply /\ Dispatched(S) /\ j = "none" THEN Goes("lock", "uncertain", "none")
                   ELSE IF apply /\ j = "done" /\ ~Trusted(S.op.id)
                   THEN Patches(UncertainWith(S, TRUE, FALSE, n), "idle")
                   ELSE Patches(Retire(S, S, Discard), IF Owes(S) THEN "lock" ELSE "unfinalize")
             [] S.finalizer /\ ~Active(S) ->
                   IF Owes(S) THEN Goes("lock", "pods", "none") ELSE Goes("unfinalize", "idle", "none")
        /\ UNCHANGED <<world, realmVars>>

\* The Job under the name turns out not to be the one the Apply recorded.
DeleteStray ==
    /\ At("delete") /\ S.finalizer /\ Is(S, "Apply") /\ Dispatched(S) /\ ~S.op.lost
    /\ Fault
    /\ Goes("lock", "uncertain", "none")
    /\ UNCHANGED <<conf, tag, db, by, read, runs, appr, claims, realmVars>>

-----------------------------------------------------------------------------
(* The cluster: the API server and its webhooks, Jobs and executors.       *)

\* The Job of the current read-only claim runs and reports what it saw.
RunRead ==
    LET saw == CASE Is(st, "Resolve") -> tag
                 [] Is(st, "Plan") -> db
                 [] OTHER -> Empty
        Reports(v) == read' = [is |-> "done", saw |-> v, by |-> IF Is(st, "Plan") THEN by ELSE None]
    IN  /\ read.is = "live" /\ st.exists /\ Active(st)
        /\ \/ Reports(saw) /\ UNCHANGED faults
           \/ Reports(Failed) /\ Fault
        /\ UNCHANGED <<st, pass, conf, tag, db, by, runs, appr, claims, realmVars>>

LoseRead ==
    /\ ReadFound /\ Fault
    /\ read' = [read EXCEPT !.is = "gone"]
    /\ UNCHANGED <<st, pass, conf, tag, db, by, runs, appr, claims, realmVars>>

\* The controller-write webhook: the object is not being deleted, its claim is
\* live and has no Job yet.
JobAdmitted(i) ==
    st.exists /\ ~st.deleting /\ st.op.id = i /\ Is(st, "Apply") /\ ~st.op.uid

\* The Pod webhook: the claim is live.
PodAdmitted(i) == st.exists /\ st.op.id = i /\ Is(st, "Apply")

AnswerCreate(i) ==
    /\ job[i] = "sent"
    /\ \/ JobAdmitted(i) /\ job' = [job EXCEPT ![i] = "admitted"] /\ UNCHANGED faults
       \/ /\ \/ ~JobAdmitted(i) /\ UNCHANGED faults
             \/ JobAdmitted(i) /\ Fault
          /\ job' = [job EXCEPT ![i] = "refused"]
    /\ UNCHANGED <<st, pass, conf, tag, db, by, read, pod, exec, report, left, what, appr, claims, realmVars>>

StoreJob(i) ==
    /\ job[i] = "admitted"
    /\ job' = [job EXCEPT ![i] = "live"]
    /\ UNCHANGED <<st, pass, conf, tag, db, by, read, pod, exec, report, left, what, appr, claims, faults, realmVars>>

\* A Job has one Pod; that it comes to have a second one is a fault.
StartPod(i, k) ==
    /\ job[i] = "live" /\ pod[<<i, k>>] = "none" /\ PodAdmitted(i)
    /\ \/ k = 1 /\ UNCHANGED faults
       \/ k = 2 /\ pod[<<i, 1>>] # "none" /\ Fault
    /\ pod' = [pod EXCEPT ![<<i, k>>] = "running"]
    /\ UNCHANGED <<st, pass, conf, tag, db, by, read, job, exec, report, left, what, appr, claims, realmVars>>

\* The runner refuses a claim past its time, Ptah a database that is not in the
\* state the plan was made from.
StartExecutor(i, k) ==
    /\ pod[<<i, k>>] = "running" /\ exec[<<i, k>>] = "idle"
    /\ exec' = [exec EXCEPT ![<<i, k>>] =
                   IF left[i] > StopGrace /\ db = what[i].from THEN "writing" ELSE "over"]
    /\ UNCHANGED <<st, pass, conf, tag, db, by, read, job, pod, report, left, what, appr, claims, faults, realmVars>>

\* Statements commit; the run ends whole and says so, or ends without.
Execute(i, k) ==
    LET Stops == exec' = [exec EXCEPT ![<<i, k>>] = "over"]
    IN  /\ exec[<<i, k>>] = "writing"
        /\ \/ db # Partial /\ db' = Partial /\ by' = i /\ UNCHANGED <<exec, report>>
           \/ db' = what[i].want /\ by' = i /\ Stops /\ report' = [report EXCEPT ![i] = "applied"]
           \/ Stops /\ UNCHANGED <<db, by, report>>
        /\ UNCHANGED <<st, pass, conf, tag, read, job, pod, left, what, appr, claims, faults, realmVars>>

StopPod(i, k) ==
    /\ pod[<<i, k>>] = "running" /\ exec[<<i, k>>] = "over"
    /\ pod' = [pod EXCEPT ![<<i, k>>] = "stopped"]
    /\ UNCHANGED <<st, pass, conf, tag, db, by, read, job, exec, report, left, what, appr, claims, faults, realmVars>>

\* The Job is over with a Pod of its, or at its deadline.
EndJob(i) ==
    /\ job[i] = "live"
    /\ left[i] = 0 \/ \E k \in 1..MaxPods : pod[<<i, k>>] = "stopped"
    /\ job' = [job EXCEPT ![i] = "done"]
    /\ UNCHANGED <<st, pass, conf, tag, db, by, read, pod, exec, report, left, what, appr, claims, faults, realmVars>>

CollectJob(i) ==
    /\ job[i] = "done" /\ Fault
    /\ job' = [job EXCEPT ![i] = "gone"]
    /\ UNCHANGED <<st, pass, conf, tag, db, by, read, pod, exec, report, left, what, appr, claims, realmVars>>

\* Mutant: the countdown goes on below zero.
TickPast ==
    /\ RealmTick
    /\ left' = [i \in Ids |-> left[i] - 1]
    /\ UNCHANGED <<st, pass, conf, tag, db, by, read, job, pod, exec, report, what, appr, claims, faults>>

\* An executor is stopped before its claim's time has run out.
Tick ==
    /\ \A i \in Ids, k \in 1..MaxPods : exec[<<i, k>>] = "writing" => left[i] > 1
    /\ RealmTick
    /\ left' = [i \in Ids |-> IF left[i] > 0 THEN left[i] - 1 ELSE 0]
    /\ UNCHANGED <<st, pass, conf, tag, db, by, read, job, pod, exec, report, what, appr, claims, faults>>

-----------------------------------------------------------------------------
(* People, the manager's configuration, and the rival.                     *)

Approve(a) ==
    /\ Policy = "OnApproval" /\ appr[a].is = "none"
    /\ st.exists /\ ~st.deleting /\ st.phase = "Ready" /\ ~Active(st)
    /\ st.plan # NoPlan /\ st.plan.approval = NoApproval
    /\ appr' = [appr EXCEPT ![a] = [of |-> Identity(st.plan), is |-> "open"]]
    /\ UNCHANGED <<st, pass, conf, tag, db, by, read, runs, claims, faults, realmVars>>

WithdrawApproval(a) ==
    /\ appr[a].is \in {"open", "stale"} /\ Fault
    /\ appr' = [appr EXCEPT ![a].is = "deleted"]
    /\ UNCHANGED <<st, pass, conf, tag, db, by, read, runs, claims, realmVars>>

\* The spec is edited: another generation, suspended or not.
Edit ==
    /\ st.exists /\ Fault
    /\ \E b \in BOOLEAN : st' = [st EXCEPT !.gen = @ + 1, !.suspend = b]
    /\ pass' = Outdated
    /\ UNCHANGED <<conf, tag, db, by, read, runs, appr, claims, realmVars>>

DeleteObject ==
    /\ st.exists /\ ~st.deleting /\ Fault
    /\ st' = IF st.finalizer THEN [st EXCEPT !.deleting = TRUE] ELSE Gone
    /\ pass' = Outdated
    /\ UNCHANGED <<conf, tag, db, by, read, runs, appr, claims, realmVars>>

\* The source's reference comes to name something else.
MoveTag ==
    /\ Fault
    /\ tag' \in Contents \ {tag}
    /\ UNCHANGED <<st, pass, conf, db, by, read, runs, appr, claims, realmVars>>

\* The manager comes back with other execution components, or the old ones.
Reconfigure ==
    /\ At("idle") /\ Fault
    /\ conf' = 3 - conf
    /\ UNCHANGED <<st, pass, tag, db, by, read, runs, appr, claims, realmVars>>

RivalTakes ==
    /\ owner # Rival /\ issued < MaxGrants /\ Fault
    /\ Grant(Rival, LeaseDuration)
    /\ UNCHANGED <<st, pass, conf, tag, db, by, read, runs, appr, claims>>

RivalWrites ==
    /\ owner = Rival /\ rest > 0
    /\ db' \in Contents /\ by' = Rival
    /\ UNCHANGED <<st, pass, conf, tag, read, runs, appr, claims, faults, realmVars>>

RivalFrees ==
    /\ owner = Rival /\ Free
    /\ UNCHANGED <<st, pass, world>>

-----------------------------------------------------------------------------
Init ==
    /\ st = NewSchema
    /\ pass = IdlePass
    /\ conf = 1
    /\ tag = CHOOSE c \in Contents : TRUE
    /\ db = Empty /\ by = None
    /\ read = NoRead
    /\ job = [i \in Ids |-> "none"]
    /\ pod = [x \in Slots |-> "none"]
    /\ exec = [x \in Slots |-> "idle"]
    /\ report = [i \in Ids |-> "none"]
    /\ left = [i \in Ids |-> 0]
    /\ what = [i \in Ids |-> NoPlan]
    /\ appr = [a \in Approvals |-> [of |-> NoPlan, is |-> "none"]]
    /\ claims = 0 /\ faults = 0
    /\ RealmInit

Step ==
    \/ PatchStatus \/ ReleaseLock \/ Unfinalize \/ Finalize
    \/ Install \/ Rebind \/ RetirePlan \/ RetireRead
    \/ AcquireLock \/ Recover \/ CheckPods \/ Prove \/ EndProof
    \/ Decide \/ ReadJob \/ FinishUncertain \/ Authorize \/ Snapshot \/ Consume
    \/ Create \/ CreateAnswered \/ Confirm \/ Supervise \/ Delete

Cluster(i) ==
    \/ AnswerCreate(i) \/ StoreJob(i) \/ EndJob(i)
    \/ \E k \in 1..MaxPods : StartPod(i, k) \/ StartExecutor(i, k) \/ Execute(i, k) \/ StopPod(i, k)

Next ==
    \/ Begin \/ Step \/ PassStops \/ CreateUnknown \/ DeleteStray
    \/ RunRead \/ LoseRead
    \/ \E i \in Ids : Cluster(i) \/ CollectJob(i)
    \/ \E a \in Approvals : Approve(a) \/ WithdrawApproval(a)
    \/ Edit \/ DeleteObject \/ MoveTag \/ Reconfigure
    \/ RivalTakes \/ RivalWrites \/ RivalFrees
    \/ Tick

Spec == Init /\ [][Next]_vars

(***************************************************************************)
(* The work queue keeps the object coming back, a pass goes on while its   *)
(* manager lives, the cluster runs what it was given, and time passes.     *)
(* Nothing people or the rival do is fair, and no fault is.                *)
(***************************************************************************)
Fairness ==
    /\ SF_vars(Begin) /\ WF_vars(Step) /\ WF_vars(RunRead)
    /\ \A i \in Ids : WF_vars(Cluster(i))
    /\ WF_vars(Tick)

FairSpec == Spec /\ Fairness

-----------------------------------------------------------------------------
(* Properties.                                                             *)

Phases ==
    {"New", "Pending", "Verifying", "Observing", "Planning", "Busy", "Converging", "Ready",
     "Blocked", "InSync", "Failed", "Suspended"}
Plans ==
    [want : Contents \cup {None}, from : States, bind : Nat, approval : Approvals \cup {NoApproval}]

\* Type invariant: the stored status, the Jobs and Pods, and the countdowns.
TypeOK ==
    /\ st.phase \in Phases /\ st.plan \in Plans /\ st.applied \in Ids0
    /\ st.op.id \in Ids0 /\ st.proof.id \in Ids0 /\ st.release.id \in Ids0
    /\ st.proof.plan \in Plans /\ st.retire.plan \in Plans /\ st.src.want \in Contents \cup {None}
    /\ conf \in {1, 2} /\ tag \in Contents /\ db \in States /\ by \in Ids0 \cup {Rival}
    /\ read.is \in {"none", "live", "done", "gone"} /\ read.saw \in States \cup {Failed}
    /\ job \in [Ids -> {"none", "sent", "refused", "admitted", "live", "done", "gone"}]
    /\ pod \in [Slots -> {"none", "running", "stopped"}]
    /\ exec \in [Slots -> {"idle", "writing", "over"}]
    /\ left \in [Ids -> 0..(Window + StopGrace)] /\ what \in [Ids -> Plans]
    /\ claims \in 0..MaxClaims /\ faults \in 0..MaxFaults

\* Safety: an executor changes the database only while the realm's Lease is its
\* own Apply's, held by the claim (acquireApplyLock) or by the proof that took
\* the Lease over from it (acquirePendingLock).
WriterHoldsRealm == \A x \in Slots : exec[x] = "writing" => owner = x[1] /\ rest > 0

\* Something of the Apply changes the database or may yet begin to.
CanStillWrite(i) ==
    \E k \in 1..MaxPods :
        \/ exec[<<i, k>>] = "writing"
        \/ /\ exec[<<i, k>>] = "idle" /\ left[i] > StopGrace
           /\ \/ pod[<<i, k>>] = "running"
              \/ job[i] \in {"sent", "admitted", "live"} /\ PodAdmitted(i)

\* Safety: an object reported in sync has no Apply of its own that could still
\* change the database it speaks of (possibleApplyPodActive and observeAfter
\* come before the proof that reports it).
QuietWhenInSync == st.phase = "InSync" => \A i \in Ids : ~CanStillWrite(i)

\* Action property: the Lease of an Apply is given back (retireClaim, then
\* completePendingLockRelease) only when nothing of that Apply can still write.
ReleasedOnlyWhenOver == [][(owner \in Ids /\ owner' = NoOwner) => ~CanStillWrite(owner)]_vars

\* Action property: status.applied credits an Apply only on the strength of a
\* Plan that read what that Apply itself was the last to write, and found the
\* state its plan was to reach.  A proof whose Lease changed hands proves
\* nothing about its Apply (acquireActiveLock, acquirePendingLock).
CreditIsOwn ==
    [][st'.applied \notin {st.applied, None} =>
          read.by = st'.applied /\ read.saw = what[st'.applied].want]_vars

\* Safety: a plan that status names belongs to the current execution binding,
\* through every rotation of it (rotateExecutionBinding).
PlanIsOfCurrentBinding == st.plan # NoPlan => st.plan.bind = st.bind

\* Safety: the Job a retirement names is the one of the read-only claim, or of
\* the Apply whose proof, the object still carries (retiredReadOnlyJob and
\* retiredApplyJob find it), so reconcileBindingRetirement is never left with a
\* Job that nothing will see to its end.  Deletion drops claims and record both.
RetirementHasItsClaim ==
    ~st.deleting =>
        /\ st.retire.job = "read" => Active(st) /\ ~Is(st, "Apply")
        /\ st.retire.job = "Apply" => Owes(st) /\ ~Active(st)

\* Safety: an Apply that needed an approval was created only after that approval
\* was spent (ensureCurrentApproval), and no approval serves two Apply Jobs.
ApprovalAuthorizesOneRun ==
    LET Ran == {i \in Ids : job[i] \notin {"none", "refused"} /\ what[i].approval # NoApproval}
    IN  /\ \A i \in Ran : appr[what[i].approval].is \in {"consumed", "spent"}
        /\ \A i, k \in Ran : what[i].approval = what[k].approval => i = k

\* Safety: the object cannot leave the cluster while it owes a claim its end, an
\* Apply its proof, or the realm its release (the active-operation finalizer).
ObligationsHoldObject == Active(st) \/ Owes(st) \/ st.release # NoRelease => st.finalizer

\* Action property, of retryOperationReporting: the claim goes on, and the next
\* attempt takes the realm again under an epoch of its own.  Taking it is not
\* the loss of a realm the attempt never had.
RetriedClaimGoesOn ==
    [][(st.op.epoch = Blank /\ st'.op.type = st.op.type /\ st'.op.epoch # Blank) => ~st'.op.lost]_vars

\* Liveness: the proof an Apply owes is settled, or waits on a suspended object
\* (reconcilePendingObservation).
ProofSettles == Owes(st) ~> ~Owes(st) \/ st.suspend

\* Liveness: what a replaced binding leaves behind is worked off
\* (reconcileBindingRetirement), or the object goes.
RetirementSettles == st.retire # NoRetirement ~> st.retire = NoRetirement

\* Liveness: a release that status owes is paid, whoever has the Lease by then
\* (completePendingLockRelease).
OwedReleaseIsPaid == st.release # NoRelease ~> st.release = NoRelease

\* Liveness: a deleted object goes, whatever it still owed (reconcileDeletion).
DeletionCompletes == st.deleting ~> ~st.exists
=============================================================================
