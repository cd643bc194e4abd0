-------------------------- MODULE MutationLifecycle --------------------------
(***************************************************************************)
(* The decisions both resource families share (internal/mutationlifecycle):*)
(* what a claim records about its dispatch, what the Job found under its   *)
(* name means, what a failure at the create boundary leaves it owing, and  *)
(* whether retiring it gives the database back.                            *)
(***************************************************************************)

LockAlways == "always"
LockWhileProving == "while proving"
LockNever == "never"

\* One row of the operation tables: what an operation may do to the database.
Operation(mutating, lock, servesProof) ==
    [mutating |-> mutating, lock |-> lock, servesProof |-> servesProof]

schemaOperations ==
    [Resolve |-> Operation(FALSE, LockNever, FALSE),
     Verify  |-> Operation(FALSE, LockNever, FALSE),
     Observe |-> Operation(FALSE, LockWhileProving, TRUE),
     Plan    |-> Operation(FALSE, LockAlways, TRUE),
     Apply   |-> Operation(TRUE, LockAlways, FALSE)]

migrationOperations ==
    [Resolve |-> Operation(FALSE, LockNever, FALSE),
     Verify  |-> Operation(FALSE, LockNever, FALSE),
     History |-> Operation(FALSE, LockNever, FALSE),
     Apply   |-> Operation(TRUE, LockAlways, FALSE)]

HoldsLock(operation, proofOutstanding) ==
    \/ operation.lock = LockAlways
    \/ operation.lock = LockWhileProving /\ proofOutstanding

\* A create may have been sent for the claim: it is marked, or it records a Job.
MayHaveDispatched(started, recorded) == started \/ recorded

Unaccounted == "unaccounted"    \* the outcome is nobody's to tell
Accounted == "accounted"        \* the run's own report settles it
Discard == "discard"            \* nothing was dispatched
Withdraw == "withdraw"          \* the create was refused: the mark goes
Retry == "retry"
Requeue == "requeue"
Dispositions == {Unaccounted, Accounted, Discard, Withdraw, Retry, Requeue}

\* What the same evidence costs: a second executor, or a second read.
lostJob(mutating) == IF mutating THEN Unaccounted ELSE Retry

(***************************************************************************)
(* The verdict on the Job read under the claim's name.  exact is whether   *)
(* the Job found is the recorded one; owned, whether its owner is exactly  *)
(* the resource.                                                           *)
(***************************************************************************)
VerdictFor(mutating, started, recorded, found, exact, owned) ==
    CASE ~found ->
            IF mutating /\ MayHaveDispatched(started, recorded)
            THEN Unaccounted ELSE "dispatch"
      [] found /\ recorded /\ ~exact -> lostJob(mutating)
      [] found /\ ~(recorded /\ ~exact) /\ ~owned -> lostJob(mutating)
      [] found /\ owned /\ ~recorded -> "adopt"
      [] found /\ owned /\ recorded /\ exact -> "supervise"

\* answer is what ClassifyCreate made of the error: refused, taken or unknown.
DispatchFailure(stage, mutating, answer) ==
    IF mutating
    THEN CASE stage = "create" /\ answer = "refused" -> Withdraw
           [] stage = "confirm" -> Requeue
           [] OTHER -> Unaccounted
    ELSE CASE stage = "create" /\ answer = "taken" -> Retry
           [] stage = "intent" -> Retry
           [] OTHER -> Requeue

HarvestFailure(fault, mutating) ==
    CASE mutating -> Unaccounted
      [] ~mutating /\ fault = "inputs changed" -> Discard
      [] OTHER -> Retry

\* Who holds the database for this claim: the claim itself, or the proof that
\* an earlier mutation still owes.
RealmHeldBy(operation, locked, proofOutstanding) ==
    CASE proofOutstanding /\ operation.servesProof -> "proof"
      [] locked /\ (operation.mutating \/ operation.servesProof)
         /\ ~(proofOutstanding /\ operation.servesProof) -> "claim"
      [] OTHER -> "none"

\* What retiring the claim gives back.
Releases(operation, locked, proof, disposition, recordHolds, mayStillWrite, endsProof) ==
    LET held == RealmHeldBy(operation, locked, proof)
        ran == operation.mutating /\ disposition # Discard
    IN  CASE held = "proof" /\ endsProof -> "proof"
          [] held = "claim" /\ ~(ran /\ (recordHolds \/ mayStillWrite)) -> "claim"
          [] OTHER -> "none"
=============================================================================
