--------------------------- MODULE RetentionProofs ---------------------------
(***************************************************************************)
(* What Retention promises, for any number of operations, databases,       *)
(* attempts, failures and crashes: a forget removes no protected snapshot, *)
(* nothing while an unresolved run is open, and a result says what is so.  *)
(***************************************************************************)
EXTENDS Retention, FiniteSetTheorems, TLAPS

\* The control plane holds whole runs, and a command by run names neither the
\* latest complete run nor one that is held.
SaneRequests ==
    /\ ~AnyTarget
    /\ \A hold \in Holds : \A s \in hold : \A t \in Snapshots :
          t[1] = s[1] => t \in hold

-----------------------------------------------------------------------------
(* The types of the records *)

Targets == {"policy", "snapshots", "runs"}

Operation ==
    [kind : Kinds \cup {"none"}, id : 0 .. MaxOps, step : Steps,
     status : Statuses, part : Parts, made : SUBSET Parts, failed : BOOLEAN,
     repository : Repositories, target : Targets, asked : SUBSET Snapshots,
     proof : 0 .. MaxOps, held : SUBSET Snapshots, refused : BOOLEAN,
     open : SUBSET Ops, plan : Plans, saved : Plans,
     candidates : SUBSET Snapshots, attempts : 1 .. MaxAttempts,
     primary : Statuses, pruned : SUBSET Repositories]

Runtime == [latest : 0 .. MaxOps, unresolved : BOOLEAN, confirmed : BOOLEAN,
            nextDataPart : 1 .. DataParts]

Interruption == [kind : Kinds, id : Ops, plan : Plans,
                 pruned : SUBSET Repositories]

Result == [kind : Kinds \cup {"none"}, status : Statuses,
           reconciled : BOOLEAN, plan : Plans, pruneCompleted : BOOLEAN,
           pruned : SUBSET Repositories]

Typed ==
    /\ repo \in [Repositories -> SUBSET Snapshots]
    /\ anchored \subseteq Snapshots
    /\ runtime \in Runtime
    /\ runtime.confirmed => runtime.unresolved
    /\ op \in Operation
    /\ started \in 0 .. MaxOps
    /\ interrupted \subseteq Interruption
    /\ config \in BOOLEAN
    /\ last \in Result
    /\ troubles \in 0 .. MaxTroubles

-----------------------------------------------------------------------------
(* The inductive invariant *)

\* An operation is at a step of its kind.
StepsFit ==
    /\ op.kind = "none" => op.step = "finish"
    /\ op.step = "write" => op.kind = "backup"
    /\ op.step = "call" => op.kind \notin {"none", "backup", "forget"}
    /\ op.step \notin {"write", "call", "finish"} => op.kind = "forget"

\* An operation has an identity of its own, and its outcome is recorded once.
Numbered ==
    /\ op.kind # "none" => op.id = started /\ started >= 1 /\ started \notin recorded
    /\ \A i \in interrupted :
          /\ i.id <= started /\ (op.kind # "none" => i.id < started)
          /\ i.id \notin recorded
    /\ \A i, j \in interrupted : i.id = j.id => i = j
    /\ \A x \in recorded : x <= started

\* What the control plane was told of is what was recorded.
Reported ==
    /\ known \subseteq recorded /\ unreported \subseteq recorded \ known
    /\ open \subseteq recorded /\ recorded \subseteq Ops

\* A plan selects snapshots that were there, so none of a backup that is
\* still to come or is being made.
Bygone ==
    /\ \A r \in Repositories : \A s \in repo[r] : s[1] <= started
    /\ \A plan \in {op.plan, op.saved} : \A s \in plan.candidates : s[1] <= started
    /\ \A plan \in {last.plan} \cup {i.plan : i \in interrupted} :
          \A s \in plan.candidates :
             s[1] <= started /\ (op.kind = "backup" => s[1] < started)

\* A plan goes by runs, and whole ones.
WholePlan ==
    op.kind = "forget" =>
       /\ op.plan.runs = RunsOf(op.plan.candidates)
       /\ op.plan.planned =>
             SnapshotsOf(op.plan.runs, repo["primary"]) \subseteq op.plan.candidates

\* What the attempt on a repository has to remove from it.
Due ==
    IF op.repository = "primary" THEN op.plan.candidates \cap repo["primary"]
    ELSE SnapshotsOf(op.plan.runs, repo["replica"])

\* The attempt has removed what it had to.
Done ==
    \/ op.step \in {"prune", "pruning"}
    \/ op.step \in {"ended", "finish"} /\ op.status = "complete"

\* How far a forget is.  The replica's turn comes when the primary is done.
Removing ==
    op.kind = "forget" =>
       /\ op.step \in {"delete", "relist"} \/ Done \/ op.repository = "replica" =>
             op.plan.planned /\ ~op.refused
       /\ op.step \in {"delete", "relist"} =>
             Due \subseteq op.candidates /\ RunsOf(op.candidates) \subseteq op.plan.runs
       /\ Done => Due = {}
       /\ op.repository = "replica" => op.plan.candidates \cap repo["primary"] = {}
       /\ op.step = "finish" /\ op.repository = "primary" => op.status # "complete"

\* A plan leaves alone the run that proves the recovery point and those held.
Spared ==
    op.kind = "forget" =>
       /\ op.held \in Holds
       /\ op.plan.runs \cap ({op.proof} \cup RunsOf(op.held)) = {}
       /\ op.target = "runs" =>
             RunsOf(op.asked) \cap ({op.proof} \cup RunsOf(op.held)) = {}

\* Only a prune that is due is made.
Pruning == op.step = "pruning" => op.plan.prune

\* A prune that counts as complete has been one of the primary.
PrunedFirst ==
    /\ Pruning
    /\ op.plan.pruneCompleted \/ op.saved.pruneCompleted => "primary" \in op.pruned
    /\ op.kind = "forget" /\ op.plan.prune =>
          /\ op.repository = "replica" => "primary" \in op.pruned
          /\ op.step \in {"ended", "finish"} /\ op.status = "complete" =>
                "primary" \in op.pruned
    /\ \A i \in interrupted : i.plan.pruneCompleted => "primary" \in i.pruned

\* A result that is not a reconciliation is the last thing that happened, but
\* for copies, which bring nothing back.
LastResult ==
    last.kind # "none" /\ ~last.reconciled =>
       /\ op.kind = "none"
       /\ last.kind = "forget" /\ last.status = "complete" =>
             SnapshotsOf(last.plan.runs, repo["primary"]) = {}

\* At most one unresolved outcome so far.
OneUnresolved == \A x, y \in recorded : x = y

\* As long as it is open the agent's mark stays, because the control plane can
\* only have confirmed what it knows.
Marked ==
    /\ runtime.confirmed => recorded # {}
    /\ OneUnresolved =>
          /\ open # {} => runtime.unresolved /\ (runtime.confirmed => known # {})
          /\ op.kind = "forget" /\ op.open # {} => op.refused

Inv ==
    /\ Typed /\ StepsFit /\ Numbered /\ Reported /\ Bygone
    /\ WholePlan /\ Removing /\ Spared /\ PrunedFirst
    /\ LastResult /\ HonestOutcome /\ Marked

-----------------------------------------------------------------------------
(* Facts about the operators *)

\* Runs and parts, and the snapshots they make.
LEMMA SnapshotFacts ==
    /\ MaxOps \in Nat /\ LastPart \in Nat \ {0} /\ 1 \in Parts
    /\ Ops \subseteq 0 .. MaxOps
    /\ \A s \in Snapshots : s[1] \in 0 .. MaxOps /\ s[2] \in Parts
    /\ \A r \in 0 .. MaxOps, p \in Parts :
          <<r, p>> \in Snapshots /\ <<r, p>>[1] = r
BY ParametersAreNumbers DEF Parts, Ops, Snapshots

\* The snapshots of some runs, and the runs of some snapshots.
LEMMA RunFacts ==
    ASSUME NEW runs, NEW inventory \in SUBSET Snapshots
    PROVE  /\ SnapshotsOf(runs, inventory) \subseteq inventory
           /\ \A s \in inventory : s[1] \in RunsOf(inventory)
           /\ RunsOf(inventory) \subseteq 0 .. MaxOps
           /\ RunsOf(SnapshotsOf(runs, inventory)) \subseteq runs
           /\ \A r \in RunsOf(inventory) : \E s \in inventory : s[1] = r
           /\ \A s : s \in SnapshotsOf(runs, inventory) <=>
                        s \in inventory /\ s[1] \in runs
BY SnapshotFacts DEF SnapshotsOf, RunsOf

\* The records that stand for nothing.
LEMMA NothingFacts ==
    /\ NoPlan \in Plans
    /\ NoOp \in Operation
    /\ NoResult \in Result
<1>1. NoPlan \in Plans
  BY DEF NoPlan, Plans
<1>2. NoOp \in Operation
  BY <1>1, SnapshotFacts, ParametersAreNumbers
     DEF NoOp, Operation, Kinds, Steps, Statuses, Repositories, Targets
<1>3. NoResult \in Result
  BY <1>1 DEF NoResult, Result, Statuses
<1>4. QED
  BY <1>1, <1>2, <1>3

\* The type invariant follows from the invariant.
LEMMA InvTypeOK == Inv => TypeOK
<1> SUFFICES ASSUME Inv PROVE TypeOK
  OBVIOUS
<1> USE DEF Inv
<1>1. /\ runtime.latest \in 0 .. MaxOps
      /\ runtime.unresolved \in BOOLEAN /\ runtime.confirmed \in BOOLEAN
      /\ runtime.confirmed => runtime.unresolved
      /\ runtime.nextDataPart \in 1 .. DataParts
  BY DEF Typed, Runtime
<1>2. /\ op.kind \in Kinds \cup {"none"} /\ op.step \in Steps
      /\ op.status \in Statuses /\ op.primary \in Statuses
      /\ op.plan \in Plans /\ op.saved \in Plans
      /\ op.attempts \in 1 .. MaxAttempts
      /\ op.candidates \subseteq Snapshots
  BY DEF Typed, Operation
<1>3. \A i \in interrupted : i.kind \in Kinds /\ i.plan \in Plans
  BY DEF Typed, Interruption
<1>4. QED
  BY <1>1, <1>2, <1>3 DEF Typed, Reported, TypeOK

\* Another failure is counted, or none.
LEMMA TroubleFacts ==
    ASSUME troubles \in 0 .. MaxTroubles, troubles' = troubles \/ Trouble
    PROVE  troubles' \in 0 .. MaxTroubles
BY ParametersAreNumbers DEF Trouble

-----------------------------------------------------------------------------
(* The steps of a forget *)

\* What a forget keeps of what it started with.
Asks == <<op.kind, op.id, op.target, op.asked, op.proof, op.held, op.refused,
          op.open>>

\* The parts of the invariant that a forget's own steps can disturb.
ForgetSound ==
    /\ op \in Operation
    /\ StepsFit /\ WholePlan /\ Removing
    /\ \A plan \in {op.plan, op.saved} : \A s \in plan.candidates : s[1] <= started
    /\ op.plan.runs \cap ({op.proof} \cup RunsOf(op.held)) = {}
    /\ Pruning
    /\ op.plan.pruneCompleted \/ op.saved.pruneCompleted => "primary" \in op.pruned
    /\ op.plan.prune =>
          /\ op.repository = "replica" => "primary" \in op.pruned
          /\ op.step \in {"ended", "finish"} /\ op.status = "complete" =>
                "primary" \in op.pruned

\* A step of a forget leaves the rest alone, and only ever removes snapshots.
ForgetFrame ==
    /\ UNCHANGED <<Asks, serverVars, recordVars>>
    /\ troubles' = troubles \/ Trouble
    /\ repo' \in [Repositories -> SUBSET Snapshots]
    /\ \A r \in Repositories : repo'[r] \subseteq repo[r]

\* So such a step keeps the invariant if it keeps those parts of it.
LEMMA ForgetKeeps ==
    ASSUME Inv, op.kind = "forget", ForgetFrame, ForgetSound'
    PROVE  Inv'
<1> USE DEF Inv
<1>1. /\ UNCHANGED <<anchored, runtime, started, interrupted, last, config,
                     unreported, known, open, recorded>>
      /\ op'.kind = "forget" /\ op'.id = op.id /\ op'.target = op.target
      /\ op'.asked = op.asked /\ op'.proof = op.proof /\ op'.held = op.held
      /\ op'.refused = op.refused /\ op'.open = op.open
  BY DEF ForgetFrame, Asks, serverVars, recordVars
<1>2. troubles' \in 0 .. MaxTroubles
  BY TroubleFacts DEF ForgetFrame, Typed
<1>3. Typed'
  BY <1>1, <1>2 DEF Typed, ForgetFrame, ForgetSound
<1>4. StepsFit' /\ WholePlan' /\ Removing'
  BY DEF ForgetSound
<1>5. Numbered' /\ Reported'
  BY <1>1 DEF Numbered, Reported
<1>6. Bygone'
  <2>1. \A r \in Repositories : \A s \in repo'[r] : s[1] <= started
    BY DEF ForgetFrame, Bygone
  <2>2. \A plan \in {op'.plan, op'.saved} : \A s \in plan.candidates :
           s[1] <= started
    BY <1>1 DEF ForgetSound
  <2>3. QED
    BY <1>1, <2>1, <2>2 DEF Bygone
<1>7. Spared'
  BY <1>1 DEF Spared, ForgetSound
<1>8. PrunedFirst'
  BY <1>1 DEF PrunedFirst, ForgetSound
<1>9. LastResult'
  BY <1>1 DEF LastResult
<1>10. HonestOutcome'
  <2>1. repo'["primary"] \subseteq repo["primary"]
    BY DEF ForgetFrame, Repositories
  <2>2. last.kind = "forget" => last.reconciled
    BY DEF LastResult
  <2>3. QED
    BY <1>1, <2>1, <2>2 DEF HonestOutcome
<1>11. Marked'
  BY <1>1 DEF Marked, OneUnresolved
<1>12. QED
  BY <1>3, <1>4, <1>5, <1>6, <1>7, <1>8, <1>9, <1>10, <1>11

\* Where the operation is, in its fields' types.
LEMMA OpFacts ==
    ASSUME Inv
    PROVE  /\ op \in Operation
           /\ op.plan \in Plans /\ op.saved \in Plans
           /\ op.candidates \subseteq Snapshots /\ op.held \subseteq Snapshots
           /\ op.asked \subseteq Snapshots
           /\ op.repository \in Repositories
           /\ op.proof \in 0 .. MaxOps
           /\ repo["primary"] \subseteq Snapshots
           /\ repo["replica"] \subseteq Snapshots
           /\ Inventory \subseteq Snapshots
           /\ op.plan.candidates \subseteq Snapshots
           /\ op.plan.runs \subseteq 0 .. MaxOps
           /\ op.step \notin {"write", "call", "finish"} => op.kind = "forget"
<1> USE DEF Inv
<1>1. op \in Operation /\ op.plan \in Plans /\ op.repository \in Repositories
  BY DEF Typed, Operation
<1>2. repo["primary"] \subseteq Snapshots /\ repo["replica"] \subseteq Snapshots
  BY DEF Typed, Repositories
<1>3. Inventory \subseteq Snapshots
  BY <1>1, <1>2 DEF Inventory, Repositories
<1>4. op.plan.candidates \subseteq Snapshots /\ op.plan.runs \subseteq 0 .. MaxOps
  BY <1>1 DEF Plans
<1>5. QED
  BY <1>1, <1>2, <1>3, <1>4 DEF Operation, StepsFit

\* Of the steps that leave the plan and the repositories as they are.
PlanStays ==
    /\ UNCHANGED <<repo, Asks, serverVars, recordVars>>
    /\ troubles' = troubles \/ Trouble
    /\ op' \in Operation
    /\ op'.plan.planned = op.plan.planned /\ op'.plan.candidates = op.plan.candidates
    /\ op'.plan.runs = op.plan.runs /\ op'.plan.prune = op.plan.prune
    /\ op'.saved.candidates \in {op.saved.candidates, op.plan.candidates}
    /\ op'.step \notin {"write", "call"}

\* They keep the invariant if the new step is right.
LEMMA PlanStaysKeeps ==
    ASSUME Inv, op.kind = "forget", PlanStays, Removing', Pruning',
           op'.plan.pruneCompleted \/ op'.saved.pruneCompleted =>
              "primary" \in op'.pruned,
           op'.plan.prune =>
              /\ op'.repository = "replica" => "primary" \in op'.pruned
              /\ op'.step \in {"ended", "finish"} /\ op'.status = "complete" =>
                    "primary" \in op'.pruned
    PROVE  Inv'
<1> USE DEF Inv
<1>1. /\ op'.kind = "forget" /\ op'.proof = op.proof /\ op'.held = op.held
      /\ repo' = repo /\ started' = started
  BY DEF PlanStays, Asks, recordVars
<1>2. ForgetFrame
  <2>1. repo' \in [Repositories -> SUBSET Snapshots]
    BY <1>1 DEF Typed
  <2>2. QED
    BY <1>1, <2>1 DEF PlanStays, ForgetFrame
<1>3. StepsFit' /\ WholePlan'
  BY <1>1 DEF PlanStays, StepsFit, WholePlan
<1>4. \A plan \in {op'.plan, op'.saved} : \A s \in plan.candidates : s[1] <= started'
  BY <1>1 DEF PlanStays, Bygone
<1>5. op'.plan.runs \cap ({op'.proof} \cup RunsOf(op'.held)) = {}
  BY <1>1 DEF PlanStays, Spared
<1>6. ForgetSound'
  BY <1>3, <1>4, <1>5 DEF PlanStays, ForgetSound
<1>7. QED
  BY <1>2, <1>6, ForgetKeeps

\* An attempt ends; as complete only if there is nothing left to remove, and
\* nothing to prune.
LEMMA AttemptEnds ==
    ASSUME Inv, op.kind = "forget", NEW status \in Statuses, EndAttempt(status),
           UNCHANGED <<repo, serverVars, recordVars>>,
           troubles' = troubles \/ Trouble,
           status = "complete" => Done /\ ~op.plan.prune
    PROVE  Inv'
<1> USE DEF Inv
<1>1. /\ op' = [op EXCEPT !.step = "ended", !.status = status]
      /\ op \in Operation
  BY OpFacts DEF EndAttempt
<1>2. /\ op' \in Operation
      /\ op'.step = "ended" /\ op'.status = status
      /\ op'.plan = op.plan /\ op'.saved = op.saved /\ op'.pruned = op.pruned
      /\ op'.repository = op.repository /\ op'.kind = op.kind
      /\ op'.refused = op.refused
      /\ UNCHANGED Asks
  BY <1>1 DEF Operation, Steps, Asks
<1>3. PlanStays
  BY <1>2 DEF PlanStays
<1>4. Due' = Due
  BY <1>2 DEF Due
<1>5. Removing'
  BY <1>2, <1>4 DEF Removing, Done
<1>6. /\ op'.plan.pruneCompleted \/ op'.saved.pruneCompleted => "primary" \in op'.pruned
      /\ op'.plan.prune /\ op'.repository = "replica" => "primary" \in op'.pruned
  BY <1>2 DEF PrunedFirst
<1>7. op'.plan.prune => op'.status # "complete"
  BY <1>2
<1>8. Pruning'
  BY <1>2 DEF Pruning
<1>9. QED
  BY <1>3, <1>5, <1>6, <1>7, <1>8, PlanStaysKeeps

\* The attempts that end without having removed anything, or in doubt.
LEMMA AttemptsThatEnd ==
    ASSUME Inv,
           \/ ForgetSkipped \/ InventoryFails \/ ForgetProtected \/ RelistFails
           \/ PruneFails \/ NoPruneDue
    PROVE  Inv'
<1>1. /\ UNCHANGED <<repo, serverVars, recordVars>>
      /\ troubles' = troubles \/ Trouble
  BY DEF ForgetSkipped, InventoryFails, ForgetProtected, RelistFails,
         PruneFails, NoPruneDue
<1>2. op.kind = "forget"
  BY OpFacts DEF ForgetSkipped, InventoryFails, ForgetProtected, RelistFails,
         PruneFails, NoPruneDue, Attempting
<1>3. CASE NoPruneDue
  BY <1>1, <1>2, <1>3, AttemptEnds DEF NoPruneDue, Done, Statuses
<1>4. CASE ~NoPruneDue
  <2>1. \E status \in {"skipped", "failed", "cancelled", "unresolved"} :
           EndAttempt(status)
    BY <1>4 DEF ForgetSkipped, InventoryFails, ForgetProtected, RelistFails,
                PruneFails
  <2>2. QED
    BY <1>1, <1>2, <2>1, AttemptEnds DEF Statuses
<1>5. QED
  BY <1>3, <1>4

\* What is left decides how the deletion ended.
LEMMA RelistKeeps ==
    ASSUME Inv, Relist
    PROVE  Inv'
<1> USE DEF Inv
<1>1. /\ UNCHANGED <<repo, serverVars, recordVars>> /\ troubles' = troubles
      /\ op.step = "relist" /\ op.kind = "forget" /\ op \in Operation
  BY OpFacts DEF Relist
<1>2. CASE \E status \in {"partial", "failed", "cancelled"} : EndAttempt(status)
  BY <1>1, <1>2, AttemptEnds DEF Statuses
<1>3. CASE op.candidates \cap Inventory = {} /\ op' = [op EXCEPT !.step = "prune"]
  <2>1. /\ op' \in Operation
        /\ op'.step = "prune" /\ op'.plan = op.plan /\ op'.saved = op.saved
        /\ op'.pruned = op.pruned /\ op'.repository = op.repository
        /\ op'.kind = op.kind /\ op'.refused = op.refused
        /\ op'.candidates = op.candidates
        /\ UNCHANGED Asks
    BY <1>1, <1>3 DEF Operation, Steps, Asks
  <2>2. PlanStays
    BY <1>1, <2>1 DEF PlanStays
  <2>3. Due' = {}
    <3>1. Due \subseteq op.candidates
      BY <1>1 DEF Removing
    <3>2. Due \subseteq Inventory
      BY OpFacts, RunFacts DEF Due, Inventory, Repositories
    <3>3. Due' = Due
      BY <1>1, <2>1 DEF Due
    <3>4. QED
      BY <1>3, <3>1, <3>2, <3>3
  <2>4. Removing'
    BY <1>1, <2>1, <2>3 DEF Removing, Done
  <2>5. Pruning'
    BY <2>1 DEF Pruning
  <2>6. /\ op'.plan.pruneCompleted \/ op'.saved.pruneCompleted =>
              "primary" \in op'.pruned
        /\ op'.plan.prune /\ op'.repository = "replica" => "primary" \in op'.pruned
    BY <1>1, <2>1 DEF PrunedFirst
  <2>7. QED
    BY <1>1, <2>1, <2>2, <2>4, <2>5, <2>6, PlanStaysKeeps
<1>4. QED
  BY <1>2, <1>3 DEF Relist

\* A forget call removes some of the candidates, or all.
LEMMA DeleteKeeps ==
    ASSUME Inv, DeleteSucceeds \/ DeleteFails
    PROVE  Inv'
<1> USE DEF Inv
<1>1. /\ UNCHANGED <<serverVars, recordVars>>
      /\ troubles' = troubles \/ Trouble
      /\ op.step = "delete" /\ op.kind = "forget" /\ op \in Operation
      /\ \/ op' = [op EXCEPT !.step = "relist"]
         \/ op' = [op EXCEPT !.step = "relist", !.failed = TRUE]
  BY OpFacts DEF DeleteSucceeds, DeleteFails
<1>2. PICK gone \in SUBSET op.candidates :
         repo' = [repo EXCEPT ![op.repository] = @ \ gone]
  BY DEF DeleteSucceeds, DeleteFails, Remove
<1>3. /\ repo' \in [Repositories -> SUBSET Snapshots]
      /\ \A r \in Repositories : repo'[r] \subseteq repo[r]
  BY <1>2 DEF Typed
<1>4. /\ op' \in Operation
      /\ op'.step = "relist" /\ op'.plan = op.plan /\ op'.saved = op.saved
      /\ op'.pruned = op.pruned /\ op'.repository = op.repository
      /\ op'.kind = op.kind /\ op'.refused = op.refused
      /\ op'.candidates = op.candidates /\ op'.held = op.held
      /\ op'.proof = op.proof
      /\ UNCHANGED Asks
  <2>1. CASE op' = [op EXCEPT !.step = "relist"]
    BY <1>1, <2>1 DEF Operation, Steps, Asks
  <2>2. CASE op' = [op EXCEPT !.step = "relist", !.failed = TRUE]
    BY <1>1, <2>2 DEF Operation, Steps, Asks
  <2>3. QED
    BY <1>1, <2>1, <2>2
<1>5. ForgetFrame
  BY <1>1, <1>3, <1>4 DEF ForgetFrame
<1>6. repo'["primary"] \subseteq repo["primary"] /\ repo'["replica"] \subseteq repo["replica"]
  BY <1>3 DEF Repositories
<1>7. Due' \subseteq Due
  BY <1>4, <1>6 DEF Due, SnapshotsOf
<1>8. Removing'
  BY <1>1, <1>4, <1>6, <1>7 DEF Removing, Done
<1>9. StepsFit' /\ WholePlan'
  BY <1>1, <1>4, <1>6 DEF StepsFit, WholePlan, SnapshotsOf
<1>10. started' = started
  BY <1>1 DEF recordVars
<1>11. ForgetSound'
  BY <1>1, <1>4, <1>8, <1>9, <1>10 DEF ForgetSound, Bygone, Spared, PrunedFirst,
     Pruning
<1>12. QED
  BY <1>1, <1>5, <1>11, ForgetKeeps

\* A prune starts, if its start could be saved.
LEMMA PruneStartsKeeps ==
    ASSUME Inv, PruneStarts
    PROVE  Inv'
<1> USE DEF Inv
<1> DEFINE plan == [op.plan EXCEPT !.pruneStarted = TRUE]
<1>1. /\ UNCHANGED <<repo, serverVars, recordVars>>
      /\ troubles' = troubles \/ Trouble
      /\ op.step = "prune" /\ op.kind = "forget" /\ op \in Operation
      /\ op.plan \in Plans /\ op.saved \in Plans
  BY OpFacts DEF PruneStarts
<1>2. /\ plan \in Plans
      /\ plan.planned = op.plan.planned /\ plan.candidates = op.plan.candidates
      /\ plan.runs = op.plan.runs /\ plan.prune = op.plan.prune
      /\ plan.pruneCompleted = op.plan.pruneCompleted
  BY <1>1 DEF Plans
<1>3. PICK saved \in {plan, op.saved} :
         \/ op' = [op EXCEPT !.plan = plan, !.saved = saved, !.step = "pruning"]
         \/ op' = [op EXCEPT !.plan = plan, !.step = "ended", !.status = "failed"]
  BY DEF PruneStarts, SavedPlan
<1>4. /\ op' \in Operation
      /\ op'.step \in {"pruning", "ended"} /\ op'.plan = plan
      /\ op'.saved \in {plan, op.saved}
      /\ op'.step = "ended" => op'.status = "failed"
      /\ op'.pruned = op.pruned /\ op'.repository = op.repository
      /\ op'.kind = op.kind /\ op'.refused = op.refused
      /\ UNCHANGED Asks
  <2>1. saved \in Plans
    BY <1>1, <1>2
  <2>2. CASE op' = [op EXCEPT !.plan = plan, !.saved = saved, !.step = "pruning"]
    BY <1>1, <1>2, <2>1, <2>2 DEF Operation, Steps, Asks
  <2>3. CASE op' = [op EXCEPT !.plan = plan, !.step = "ended", !.status = "failed"]
    BY <1>1, <1>2, <2>3 DEF Operation, Steps, Statuses, Asks
  <2>4. QED
    BY <1>3, <2>2, <2>3
<1>5. PlanStays
  BY <1>1, <1>2, <1>4 DEF PlanStays
<1>6. Due' = Due
  BY <1>1, <1>2, <1>4 DEF Due
<1>7. Removing'
  BY <1>1, <1>2, <1>4, <1>6 DEF Removing, Done
<1>8. op'.plan.pruneCompleted \/ op'.saved.pruneCompleted => "primary" \in op'.pruned
  BY <1>2, <1>4 DEF PrunedFirst
<1>9. op'.plan.prune =>
         /\ op'.repository = "replica" => "primary" \in op'.pruned
         /\ op'.step \in {"ended", "finish"} /\ op'.status = "complete" =>
               "primary" \in op'.pruned
  BY <1>1, <1>2, <1>4 DEF PrunedFirst
<1>10. Pruning'
  <2>1. op.plan.prune
    BY DEF PruneStarts
  <2>2. QED
    BY <1>2, <1>4, <2>1 DEF Pruning
<1>11. QED
  BY <1>1, <1>5, <1>7, <1>8, <1>9, <1>10, PlanStaysKeeps

\* A prune is over.  It counts for the repository it was made on.
LEMMA PruneCompletesKeeps ==
    ASSUME Inv, PruneCompletes
    PROVE  Inv'
<1> USE DEF Inv
<1> DEFINE plan == [op.plan EXCEPT !.pruneCompleted = TRUE]
<1>1. /\ UNCHANGED <<repo, serverVars, recordVars>>
      /\ troubles' = troubles \/ Trouble
      /\ op.step = "pruning" /\ op.kind = "forget" /\ op \in Operation
      /\ op.plan \in Plans /\ op.saved \in Plans
      /\ op.repository \in Repositories
  BY OpFacts DEF PruneCompletes
<1>2. /\ plan \in Plans
      /\ plan.planned = op.plan.planned /\ plan.candidates = op.plan.candidates
      /\ plan.runs = op.plan.runs /\ plan.prune = op.plan.prune
  BY <1>1 DEF Plans
<1>3. PICK saved \in {plan, op.saved}, status \in {"complete", "unresolved"} :
         op' = [[op EXCEPT !.plan = plan, !.pruned = @ \cup {op.repository},
                           !.step = "ended"]
                   EXCEPT !.saved = saved, !.status = status]
  <2>1. op.saved = [op EXCEPT !.plan = plan, !.pruned = @ \cup {op.repository},
                              !.step = "ended"].saved
    BY <1>1 DEF Operation
  <2>2. CASE op' = [[op EXCEPT !.plan = plan, !.pruned = @ \cup {op.repository},
                              !.step = "ended"]
                   EXCEPT !.saved = SavedPlan(plan), !.status = "complete"]
    BY <2>2 DEF SavedPlan
  <2>3. CASE op' = [[op EXCEPT !.plan = plan, !.pruned = @ \cup {op.repository},
                              !.step = "ended"] EXCEPT !.status = "unresolved"]
    <3>1. op' = [[op EXCEPT !.plan = plan, !.pruned = @ \cup {op.repository},
                           !.step = "ended"]
                   EXCEPT !.saved = op.saved, !.status = "unresolved"]
      BY <1>1, <1>2, <2>3 DEF Operation
    <3>2. QED
      BY <3>1
  <2>4. QED
    BY <2>2, <2>3 DEF PruneCompletes
<1>4. /\ op' \in Operation
      /\ op'.step = "ended" /\ op'.plan = plan /\ op'.saved = saved
      /\ op'.pruned = op.pruned \cup {op.repository}
      /\ op'.repository = op.repository
      /\ op'.kind = op.kind /\ op'.refused = op.refused
      /\ UNCHANGED Asks
  <2>1. saved \in Plans /\ status \in Statuses
    BY <1>1, <1>2 DEF Statuses
  <2>2. QED
    BY <1>1, <1>2, <1>3, <2>1 DEF Operation, Steps, Asks
<1>5. PlanStays
  BY <1>1, <1>2, <1>4 DEF PlanStays
<1>6. Due' = Due
  BY <1>1, <1>2, <1>4 DEF Due
<1>7. Removing'
  BY <1>1, <1>2, <1>4, <1>6 DEF Removing, Done
<1>8. "primary" \in op'.pruned
  <2>1. op.plan.prune
    BY <1>1 DEF PrunedFirst, Pruning
  <2>2. QED
    BY <1>1, <1>4, <2>1 DEF PrunedFirst, Repositories
<1>9. Pruning'
  BY <1>4 DEF Pruning
<1>10. QED
  BY <1>1, <1>5, <1>7, <1>8, <1>9, PlanStaysKeeps

\* Another attempt, the replica's turn, and the end of the forget.
LEMMA BetweenAttempts ==
    ASSUME Inv, Retry \/ NextRepository \/ ForgetEnds
    PROVE  Inv'
<1> USE DEF Inv
<1>1. /\ UNCHANGED <<repo, serverVars, recordVars, troubles>>
      /\ op.step = "ended" /\ op.kind = "forget" /\ op \in Operation
  BY OpFacts DEF Retry, NextRepository, ForgetEnds, Ended
<1>2. /\ op' \in Operation
      /\ op'.plan = op.plan /\ op'.saved = op.saved /\ op'.pruned = op.pruned
      /\ op'.kind = op.kind /\ op'.refused = op.refused
      /\ UNCHANGED Asks
      /\ \/ /\ op'.step = "attempt"
            /\ \/ op'.repository = op.repository
               \/ op.repository = "primary" /\ op.status = "complete"
         \/ /\ op'.step = "finish" /\ op'.status = op.status
            /\ op'.repository = op.repository
            /\ op.repository = "replica" \/ op.status # "complete"
  <2>1. CASE Retry
    <3>1. op.attempts + 1 \in 1 .. MaxAttempts
      BY <1>1, <2>1, ParametersAreNumbers DEF Retry, Operation
    <3>2. op' = [op EXCEPT !.step = "attempt", !.status = "",
                           !.attempts = op.attempts + 1]
      BY <1>1, <2>1 DEF Retry, Operation
    <3>3. QED
      BY <1>1, <3>1, <3>2 DEF Operation, Steps, Statuses, Asks
  <2>2. CASE NextRepository
    <3>1. 1 \in 1 .. MaxAttempts
      BY ParametersAreNumbers
    <3>2. QED
      BY <1>1, <2>2, <3>1
         DEF NextRepository, Operation, Steps, Statuses, Asks, Repositories
  <2>3. CASE ForgetEnds
    BY <1>1, <2>3 DEF ForgetEnds, Operation, Steps, Asks
  <2>4. QED
    BY <2>1, <2>2, <2>3
<1>3. PlanStays
  BY <1>1, <1>2 DEF PlanStays
<1>4. op.repository = "primary" /\ op.status = "complete" =>
         /\ op.plan.candidates \cap repo["primary"] = {}
         /\ op.plan.planned /\ ~op.refused
  BY <1>1 DEF Removing, Done, Due
<1>5. op'.repository = op.repository => Due' = Due
  BY <1>1, <1>2 DEF Due
<1>6. Removing'
  <2>1. op'.step = "finish" /\ op'.repository = "primary" => op'.status # "complete"
    BY <1>2
  <2>2. QED
    BY <1>1, <1>2, <1>4, <1>5, <2>1 DEF Removing, Done
<1>7. Pruning'
  BY <1>2 DEF Pruning
<1>8. op'.plan.pruneCompleted \/ op'.saved.pruneCompleted => "primary" \in op'.pruned
  BY <1>2 DEF PrunedFirst
<1>9. op'.plan.prune =>
         /\ op'.repository = "replica" => "primary" \in op'.pruned
         /\ op'.step \in {"ended", "finish"} /\ op'.status = "complete" =>
               "primary" \in op'.pruned
  BY <1>1, <1>2 DEF PrunedFirst
<1>10. QED
  BY <1>1, <1>3, <1>6, <1>7, <1>8, <1>9, PlanStaysKeeps

\* An attempt that knows what to remove.
LEMMA SelectedFacts ==
    ASSUME Inv, op.step = "attempt", NEW candidates \in SUBSET Snapshots,
           NEW plan \in Plans, NEW saved \in Plans,
           op' = [Selected(candidates, plan) EXCEPT !.saved = saved]
    PROVE  /\ op' \in Operation
           /\ op'.plan = plan /\ op'.saved = saved /\ op'.candidates = candidates
           /\ op'.step = IF candidates # {} THEN "delete" ELSE "prune"
           /\ op'.pruned = op.pruned /\ op'.repository = op.repository
           /\ op'.kind = op.kind /\ op'.refused = op.refused
           /\ op'.held = op.held /\ op'.proof = op.proof
           /\ UNCHANGED Asks
<1>1. op \in Operation
  BY OpFacts
<1> DEFINE step == IF candidates # {} THEN "delete" ELSE "prune"
<1>2. step \in Steps
  BY DEF Steps
<1> HIDE DEF step
<1>3. op' = [[op EXCEPT !.plan = plan, !.candidates = candidates,
                        !.failed = FALSE, !.step = step] EXCEPT !.saved = saved]
  BY DEF Selected, step
<1> DEFINE o == [op EXCEPT !.plan = plan, !.candidates = candidates,
                           !.failed = FALSE, !.step = step]
<1>4. /\ o \in Operation /\ o.plan = plan /\ o.candidates = candidates
      /\ o.step = step /\ o.pruned = op.pruned /\ o.repository = op.repository
      /\ o.kind = op.kind /\ o.id = op.id /\ o.refused = op.refused
      /\ o.held = op.held /\ o.proof = op.proof /\ o.target = op.target
      /\ o.asked = op.asked /\ o.open = op.open
  BY <1>1, <1>2 DEF Operation
<1>5. op' = [o EXCEPT !.saved = saved]
  BY <1>3
<1> HIDE DEF o
<1>6. /\ op' \in Operation
      /\ op'.plan = plan /\ op'.saved = saved /\ op'.candidates = candidates
      /\ op'.step = step
      /\ op'.pruned = op.pruned /\ op'.repository = op.repository
      /\ op'.kind = op.kind /\ op'.refused = op.refused
      /\ op'.held = op.held /\ op'.proof = op.proof
      /\ UNCHANGED Asks
  BY <1>4, <1>5, ZenonT(40) DEF Operation, Asks
<1>7. QED
  BY <1>6 DEF step

\* A plan that was made before is followed, by run.
LEMMA FollowPlanKeeps ==
    ASSUME Inv, FollowPlan
    PROVE  Inv'
<1> USE DEF Inv
<1>1. /\ UNCHANGED <<repo, serverVars, recordVars, troubles>>
      /\ op.step = "attempt" /\ op.kind = "forget" /\ op \in Operation
      /\ op.plan \in Plans /\ op.saved \in Plans /\ op.plan.planned /\ ~op.refused
  BY OpFacts DEF FollowPlan, Attempting
<1>2. PlannedSelection \in SUBSET Snapshots
  BY OpFacts, RunFacts DEF PlannedSelection
<1>3. op' = [Selected(PlannedSelection, op.plan) EXCEPT !.saved = op.saved]
  BY <1>1 DEF FollowPlan, Selected, Operation
<1>4. /\ op' \in Operation
      /\ op'.plan = op.plan /\ op'.saved = op.saved
      /\ op'.candidates = PlannedSelection
      /\ op'.step = IF PlannedSelection # {} THEN "delete" ELSE "prune"
      /\ op'.pruned = op.pruned /\ op'.repository = op.repository
      /\ op'.kind = op.kind /\ op'.refused = op.refused
      /\ UNCHANGED Asks
  BY <1>1, <1>2, <1>3, SelectedFacts
<1>5. PlanStays
  BY <1>1, <1>4 DEF PlanStays
<1>6. Due \subseteq PlannedSelection /\ RunsOf(PlannedSelection) \subseteq op.plan.runs
  <2>1. op.plan.runs = RunsOf(op.plan.candidates)
    BY <1>1 DEF WholePlan
  <2>2. CASE op.plan.runs # {}
    <3>1. PlannedSelection = SnapshotsOf(op.plan.runs, Inventory)
      BY <2>2 DEF PlannedSelection
    <3>2. op.plan.candidates \cap repo["primary"]
             \subseteq SnapshotsOf(op.plan.runs, repo["primary"])
      BY <2>1 DEF SnapshotsOf, RunsOf
    <3>3. QED
      BY <3>1, <3>2, OpFacts, RunFacts DEF Due, Inventory, Repositories
  <2>3. CASE op.plan.runs = {}
    <3>1. op.plan.candidates = {}
      BY <2>1, <2>3 DEF RunsOf
    <3>2. PlannedSelection = {}
      BY <2>3, <3>1 DEF PlannedSelection
    <3>3. QED
      BY <2>3, <3>1, <3>2, OpFacts, RunFacts DEF Due, SnapshotsOf, RunsOf
  <2>4. QED
    BY <2>2, <2>3
<1>7. Due' = Due
  BY <1>1, <1>4 DEF Due
<1>8. Removing'
  BY <1>1, <1>4, <1>6, <1>7 DEF Removing, Done
<1>9. Pruning'
  BY <1>4 DEF Pruning
<1>10. op'.plan.pruneCompleted \/ op'.saved.pruneCompleted => "primary" \in op'.pruned
  BY <1>4 DEF PrunedFirst
<1>11. op'.plan.prune =>
         /\ op'.repository = "replica" => "primary" \in op'.pruned
         /\ op'.step \in {"ended", "finish"} /\ op'.status = "complete" =>
               "primary" \in op'.pruned
  BY <1>1, <1>4 DEF PrunedFirst
<1>12. QED
  BY <1>1, <1>5, <1>8, <1>9, <1>10, <1>11, PlanStaysKeeps

\* What a fresh plan may select: snapshots of the primary, of whole runs, and
\* of no run that is protected.
LEMMA SelectionFacts ==
    ASSUME SaneRequests, Inv, Attempting, Protected \subseteq Inventory,
           ~op.plan.planned, NEW candidates \in Selections
    PROVE  /\ op.repository = "primary"
           /\ candidates \subseteq repo["primary"]
           /\ SnapshotsOf(RunsOf(candidates), repo["primary"]) \subseteq candidates
           /\ RunsOf(candidates) \cap ({op.proof} \cup RunsOf(op.held)) = {}
<1> USE DEF Inv
<1>1. op.repository = "primary" /\ Inventory = repo["primary"]
  BY OpFacts DEF Attempting, Removing, Repositories, Inventory
<1>2. Inventory \subseteq Snapshots /\ op.held \subseteq Snapshots
  BY OpFacts
<1>3. \A s \in Inventory : s \in Protected <=>
         s[1] \in ({op.proof} \cup RunsOf(op.held))
  <2>1. SnapshotsOf({op.proof}, Inventory) # {}
    <3>1. CASE SnapshotsOf({op.proof}, Inventory) = {}
      <4>1. {op.proof} \X Parts \subseteq Inventory
        BY <3>1 DEF Protected, ProofSnapshots
      <4>2. <<op.proof, 1>> \in Inventory /\ <<op.proof, 1>>[1] = op.proof
        BY <4>1, SnapshotFacts
      <4>3. QED
        BY <3>1, <4>2 DEF SnapshotsOf
    <3>2. QED
      BY <3>1
  <2>2. Protected = SnapshotsOf({op.proof}, Inventory) \cup (op.held \cap Inventory)
    BY <2>1 DEF Protected, ProofSnapshots
  <2>3. ASSUME NEW s \in Inventory, s[1] \in RunsOf(op.held)
        PROVE  s \in op.held
    <3>1. op.held \in Holds
      BY DEF Attempting, Spared
    <3>2. PICK t \in op.held : t[1] = s[1]
      BY <1>2, <2>3, RunFacts
    <3>3. s \in Snapshots
      BY <1>2
    <3>4. QED
      BY <3>1, <3>2, <3>3 DEF SaneRequests
  <2>4. QED
    BY <1>2, <2>2, <2>3, RunFacts DEF SnapshotsOf
<1>4. CASE op.target = "policy"
  <2>1. PICK chosen \in SUBSET (anchored \cap Inventory) :
           candidates = SnapshotsOf(RunsOf(chosen), Inventory) \ Protected
    BY <1>4 DEF Selections
  <2>2. \A s : s \in candidates <=>
           /\ s \in Inventory /\ s[1] \in RunsOf(chosen)
           /\ s[1] \notin ({op.proof} \cup RunsOf(op.held))
    BY <1>2, <1>3, <2>1, RunFacts
  <2>3. QED
    BY <1>1, <1>2, <2>2, RunFacts DEF SnapshotsOf, RunsOf
<1>5. CASE op.target = "snapshots"
  <2>1. AskedSnapshots \cap Protected = {} /\ candidates = AskedSnapshots \cap Inventory
    BY <1>5 DEF Selections
  <2>2. \A s : s \in candidates <=>
           s \in Inventory /\ s[1] \in RunsOf(op.asked \cap Inventory)
    BY <1>2, <2>1 DEF AskedSnapshots, SnapshotsOf, RunsOf
  <2>3. QED
    BY <1>1, <1>2, <1>3, <2>1, <2>2, RunFacts DEF SnapshotsOf, RunsOf
<1>6. CASE op.target = "runs"
  <2>1. candidates = SnapshotsOf(RunsOf(op.asked), Inventory)
    BY <1>6 DEF Selections
  <2>2. RunsOf(op.asked) \cap ({op.proof} \cup RunsOf(op.held)) = {}
    BY <1>6 DEF Spared, Attempting
  <2>3. \A s : s \in candidates <=> s \in Inventory /\ s[1] \in RunsOf(op.asked)
    BY <2>1 DEF SnapshotsOf
  <2>4. RunsOf(candidates) \subseteq RunsOf(op.asked)
    BY <2>3 DEF RunsOf
  <2>5. QED
    BY <1>1, <2>2, <2>3, <2>4 DEF SnapshotsOf
<1>7. QED
  <2>1. op.target \in Targets
    BY OpFacts DEF Operation
  <2>2. QED
    BY <1>4, <1>5, <1>6, <2>1 DEF Targets

\* A fresh plan is made, and saved or not.
LEMMA MakePlanKeeps ==
    ASSUME SaneRequests, Inv, MakePlan
    PROVE  Inv'
<1> USE DEF Inv
<1>1. /\ UNCHANGED <<repo, serverVars, recordVars>>
      /\ troubles' = troubles \/ Trouble
      /\ Attempting /\ op.step = "attempt" /\ op.kind = "forget" /\ ~op.refused
      /\ op \in Operation /\ op.plan \in Plans /\ op.saved \in Plans
      /\ Protected \subseteq Inventory /\ ~op.plan.planned
  BY OpFacts DEF MakePlan, Attempting
<1>2. PICK candidates \in Selections :
         \/ op' = [Selected(candidates, FreshPlan(candidates))
                      EXCEPT !.saved = FreshPlan(candidates)]
         \/ op' = [op EXCEPT !.plan = FreshPlan(candidates), !.step = "ended",
                             !.status = "failed"]
  BY DEF MakePlan
<1> DEFINE plan == FreshPlan(candidates)
<1>3. /\ op.repository = "primary"
      /\ candidates \subseteq repo["primary"]
      /\ SnapshotsOf(RunsOf(candidates), repo["primary"]) \subseteq candidates
      /\ RunsOf(candidates) \cap ({op.proof} \cup RunsOf(op.held)) = {}
  BY <1>1, SelectionFacts
<1>4. candidates \in SUBSET Snapshots /\ RunsOf(candidates) \subseteq 0 .. MaxOps
  BY <1>3, OpFacts, RunFacts
<1>5. /\ plan \in Plans /\ plan.planned /\ plan.candidates = candidates
      /\ plan.runs = RunsOf(candidates) /\ plan.prune = op.plan.prune
      /\ plan.pruneCompleted = op.plan.pruneCompleted
  BY <1>1, <1>4 DEF FreshPlan, Plans
<1> HIDE DEF plan
<1>6. /\ op' \in Operation
      /\ op'.plan = plan /\ op'.saved \in {plan, op.saved}
      /\ \/ op'.step = "delete" /\ op'.candidates = candidates
         \/ op'.step = "prune" /\ candidates = {}
         \/ op'.step = "ended" /\ op'.status = "failed"
      /\ op'.pruned = op.pruned /\ op'.repository = "primary"
      /\ op'.kind = "forget" /\ op'.refused = op.refused
      /\ op'.held = op.held /\ op'.proof = op.proof
      /\ UNCHANGED Asks
  <2>1. CASE op' = [Selected(candidates, plan) EXCEPT !.saved = plan]
    BY <1>1, <1>3, <1>4, <1>5, <2>1, SelectedFacts
  <2>2. CASE op' = [op EXCEPT !.plan = plan, !.step = "ended", !.status = "failed"]
    BY <1>1, <1>3, <1>5, <2>2 DEF Operation, Steps, Statuses, Asks
  <2>3. QED
    BY <1>2, <2>1, <2>2 DEF plan
<1>7. ForgetFrame
  <2>1. repo' \in [Repositories -> SUBSET Snapshots] /\ repo' = repo
    BY <1>1 DEF Typed
  <2>2. QED
    BY <1>1, <1>6, <2>1 DEF ForgetFrame
<1>8. Due' = candidates
  BY <1>1, <1>3, <1>5, <1>6 DEF Due
<1>9. Removing'
  BY <1>1, <1>5, <1>6, <1>8 DEF Removing, Done
<1>10. StepsFit' /\ WholePlan' /\ Pruning'
  BY <1>1, <1>3, <1>5, <1>6 DEF StepsFit, WholePlan, Pruning
<1>11. \A s \in candidates : s[1] <= started
  BY <1>3 DEF Bygone, Repositories
<1>12. \A p \in {op'.plan, op'.saved} : \A s \in p.candidates : s[1] <= started'
  BY <1>1, <1>5, <1>6, <1>11 DEF Bygone, recordVars
<1>13. op'.plan.pruneCompleted \/ op'.saved.pruneCompleted => "primary" \in op'.pruned
  BY <1>5, <1>6 DEF PrunedFirst
<1>14. ForgetSound'
  BY <1>3, <1>5, <1>6, <1>9, <1>10, <1>12, <1>13 DEF ForgetSound
<1>15. QED
  BY <1>1, <1>7, <1>14, ForgetKeeps

\* Every step of a forget keeps the invariant.
LEMMA ForgetStepKeeps ==
    ASSUME SaneRequests, Inv, ForgetStep
    PROVE  Inv'
BY AttemptsThatEnd, RelistKeeps, DeleteKeeps, PruneStartsKeeps,
   PruneCompletesKeeps, BetweenAttempts, FollowPlanKeeps, MakePlanKeeps
   DEF ForgetStep

-----------------------------------------------------------------------------
(* The steps of a backup and of the other operations *)

\* They leave plans alone, and only a backup adds a snapshot, one of its own.
LEMMA WorkKeeps ==
    ASSUME Inv, op.kind \notin {"none", "forget"}, op' \in Operation,
           op'.kind = op.kind, op'.id = op.id, op'.plan = op.plan,
           op'.saved = op.saved, op'.pruned = op.pruned,
           op'.step = op.step \/ op'.step = "finish",
           UNCHANGED <<serverVars, runtime, started, interrupted, last>>,
           troubles' = troubles \/ Trouble,
           \/ UNCHANGED <<repo, anchored>>
           \/ op.kind = "backup" /\ WriteSnapshot
    PROVE  Inv'
<1> USE DEF Inv
<1>1. troubles' \in 0 .. MaxTroubles
  BY TroubleFacts DEF Typed
<1>2. op \in Operation /\ op.id = started /\ op.part \in Parts /\ started \in 0 .. MaxOps
  BY DEF Typed, Operation, Numbered
<1>3. Snapshot(op.part) \in Snapshots /\ Snapshot(op.part)[1] = started
  BY <1>2, SnapshotFacts DEF Snapshot
<1>4. /\ repo' \in [Repositories -> SUBSET Snapshots]
      /\ anchored' \subseteq Snapshots
      /\ \A r \in Repositories : \A s \in repo'[r] :
            s \in repo[r] \/ (op.kind = "backup" /\ s[1] = started)
  <2>1. CASE UNCHANGED <<repo, anchored>>
    BY <2>1 DEF Typed
  <2>2. CASE op.kind = "backup" /\ WriteSnapshot
    BY <1>3, <2>2 DEF WriteSnapshot, Typed, Repositories
  <2>3. QED
    BY <2>1, <2>2
<1>5. Typed'
  BY <1>1, <1>4 DEF Typed, serverVars
<1>6. StepsFit'
  BY DEF StepsFit
<1>7. Numbered' /\ Reported'
  BY DEF Numbered, Reported, serverVars
<1>8. Bygone'
  <2>1. \A r \in Repositories : \A s \in repo'[r] : s[1] <= started
    BY <1>2, <1>4 DEF Bygone
  <2>2. QED
    BY <2>1 DEF Bygone
<1>9. WholePlan' /\ Removing' /\ Spared'
  BY DEF WholePlan, Removing, Spared
<1>10. PrunedFirst'
  BY DEF PrunedFirst, Pruning, StepsFit
<1>11. last.kind # "none" => last.reconciled
  BY DEF LastResult
<1>12. HonestOutcome'
  <2>1. \A s \in last.plan.candidates : op.kind = "backup" => s[1] < started
    BY DEF Bygone
  <2>2. last.plan.candidates \cap repo["primary"] = {} =>
           last.plan.candidates \cap repo'["primary"] = {}
    BY <1>2, <1>4, <2>1 DEF Repositories
  <2>3. QED
    BY <1>11, <2>2 DEF HonestOutcome
<1>13. LastResult'
  BY <1>11 DEF LastResult
<1>14. Marked'
  BY DEF Marked, OneUnresolved, serverVars
<1>15. QED
  BY <1>5, <1>6, <1>7, <1>8, <1>9, <1>10, <1>12, <1>13, <1>14

\* The parts of a backup, and the other operations.
LEMMA WorkSteps ==
    ASSUME Inv,
           \/ PartSucceeds \/ PartFails \/ SourceUnavailable \/ BackupCancelled
           \/ OtherCall
    PROVE  Inv'
<1> USE DEF Inv
<1>1. op \in Operation /\ op.part \in Parts /\ op.made \in SUBSET Parts
  BY OpFacts DEF Operation
<1>2. /\ op.kind \notin {"none", "forget"}
      /\ op.step = "write" => op.kind = "backup"
      /\ op.step \in {"write", "call"}
  BY DEF StepsFit, PartSucceeds, PartFails, SourceUnavailable,
     BackupCancelled, OtherCall
<1>3. /\ UNCHANGED <<serverVars, runtime, started, interrupted, last>>
      /\ troubles' = troubles \/ Trouble
      /\ \/ UNCHANGED <<repo, anchored>>
         \/ op.kind = "backup" /\ WriteSnapshot
  BY <1>2 DEF PartSucceeds, PartFails, SourceUnavailable, BackupCancelled,
     OtherCall, recordVars
<1> DEFINE Kept(o) == /\ o \in Operation /\ o.kind = op.kind /\ o.id = op.id
                      /\ o.plan = op.plan /\ o.saved = op.saved
                      /\ o.pruned = op.pruned
                      /\ o.step = op.step \/ o.step = "finish"
<1>4. ASSUME NEW o, Kept(o), o.part = op.part
      PROVE  Kept(NextPart(o))
  <2>1. op.part # LastPart => op.part + 1 \in Parts
    BY <1>1, ParametersAreNumbers DEF Parts
  <2>2. o \in Operation
    BY <1>4
  <2>3. Kept([o EXCEPT !.step = "finish"])
    BY <1>4, <2>2 DEF Operation, Steps
  <2>4. op.part # LastPart => Kept([o EXCEPT !.part = @ + 1])
    BY <1>4, <2>1, <2>2 DEF Operation
  <2>5. QED
    BY <2>3, <2>4 DEF NextPart
<1>5. Kept(op')
  <2>1. CASE PartSucceeds
    <3>1. Kept([op EXCEPT !.made = @ \cup {op.part}])
      BY <1>1 DEF Operation
    <3>2. [op EXCEPT !.made = @ \cup {op.part}].part = op.part
      BY <1>1 DEF Operation
    <3>3. op' = NextPart([op EXCEPT !.made = @ \cup {op.part}])
      BY <2>1 DEF PartSucceeds
    <3>4. QED
      BY <1>4, <3>1, <3>2, <3>3
  <2>2. CASE op' = NextPart([op EXCEPT !.failed = TRUE])
    <3>1. Kept([op EXCEPT !.failed = TRUE])
      BY <1>1 DEF Operation
    <3>2. [op EXCEPT !.failed = TRUE].part = op.part
      BY <1>1 DEF Operation
    <3>3. QED
      BY <1>4, <2>2, <3>1, <3>2
  <2>3. CASE \E status \in Statuses :
                op' = [op EXCEPT !.step = "finish", !.status = status]
    <3>1. PICK status \in Statuses :
             op' = [op EXCEPT !.step = "finish", !.status = status]
      BY <2>3
    <3>2. op' \in Operation /\ op'.kind = op.kind /\ op'.id = op.id
      BY <1>1, <3>1 DEF Operation, Steps
    <3>3. /\ op'.plan = op.plan /\ op'.saved = op.saved
          /\ op'.pruned = op.pruned /\ op'.step = "finish"
      BY <1>1, <3>1 DEF Operation
    <3>4. QED
      BY <3>2, <3>3
  <2>4. QED
    BY <2>1, <2>2, <2>3 DEF PartFails, SourceUnavailable, BackupCancelled,
       OtherCall, Statuses
<1>6. QED
  BY <1>2, <1>3, <1>5, WorkKeeps

-----------------------------------------------------------------------------
(* Starting *)

\* Whatever was planned or made so far is older than a new operation.
LEMMA StartKeeps ==
    ASSUME Inv, Start, op' \in Operation,
           op'.kind # "none", op'.id = started + 1,
           op'.step = CASE op'.kind = "backup" -> "write"
                        [] op'.kind = "forget" -> "attempt"
                        [] OTHER -> "call",
           op'.repository = "primary",
           \A plan \in {op'.plan, op'.saved} :
              /\ plan.candidates = {} /\ plan.runs = {} /\ ~plan.planned
              /\ ~plan.pruneCompleted,
           op'.kind = "forget" =>
              /\ op'.held \in Holds
              /\ op'.target = "runs" =>
                    RunsOf(op'.asked) \cap ({op'.proof} \cup RunsOf(op'.held)) = {}
              /\ op'.open = open /\ op'.refused = Refused,
           runtime' = runtime \/ Prepare
    PROVE  Inv'
<1> USE DEF Inv
<1>1. /\ op.kind = "none" /\ started' = started + 1 /\ last' = NoResult
      /\ started \in 0 .. MaxOps /\ started < MaxOps
      /\ UNCHANGED <<repo, anchored, interrupted, config, unreported, known,
                     open, recorded, troubles>>
  BY DEF Start, serverVars, Typed
<1>2. started' \in 0 .. MaxOps /\ started' >= 1
  BY <1>1, SnapshotFacts
<1>3. /\ runtime' \in Runtime
      /\ runtime'.confirmed = runtime.confirmed
      /\ runtime.unresolved => runtime'.unresolved
      /\ runtime'.confirmed => runtime'.unresolved
  <2>1. config \in BOOLEAN /\ runtime \in Runtime
        /\ (runtime.confirmed => runtime.unresolved)
    BY DEF Typed
  <2>2. QED
    BY <2>1 DEF Prepare, Runtime
<1>4. Typed'
  BY <1>1, <1>2, <1>3, NothingFacts DEF Typed
<1>5. StepsFit'
  BY DEF StepsFit
<1>6. Numbered'
  <2>1. \A x \in recorded : x <= started
    BY DEF Numbered
  <2>2. recorded \subseteq Ops /\ \A i \in interrupted : i.id \in Ops
    BY DEF Reported, Typed, Interruption
  <2>3. Ops \subseteq Nat /\ started \in Nat
    BY <1>1, SnapshotFacts DEF Ops
  <2>4. started + 1 \notin recorded
    BY <2>1, <2>2, <2>3
  <2>5. QED
    BY <1>1, <1>2, <2>1, <2>2, <2>3, <2>4 DEF Numbered
<1>7. Reported'
  BY <1>1 DEF Reported
<1>8. Bygone'
  <2>1. \A s \in Snapshots : s[1] <= started => s[1] <= started' /\ s[1] < started'
    BY <1>1, SnapshotFacts
  <2>2. \A r \in Repositories : repo[r] \subseteq Snapshots
    BY DEF Typed
  <2>3. \A plan \in {i.plan : i \in interrupted} : plan.candidates \subseteq Snapshots
    BY DEF Typed, Interruption, Plans
  <2>4. last'.plan.candidates = {}
    BY <1>1 DEF NoResult, NoPlan
  <2>5. \A r \in Repositories : \A s \in repo'[r] : s[1] <= started'
    BY <1>1, <2>1, <2>2 DEF Bygone
  <2>6. \A plan \in {i.plan : i \in interrupted'} : \A s \in plan.candidates :
           s[1] <= started' /\ s[1] < started'
    BY <1>1, <2>1, <2>3 DEF Bygone
  <2>7. QED
    BY <2>4, <2>5, <2>6 DEF Bygone
<1>9. WholePlan'
  BY DEF WholePlan, RunsOf, SnapshotsOf
<1>10. Removing'
  BY DEF Removing, Done
<1>11. Spared'
  BY DEF Spared
<1>12. PrunedFirst'
  BY <1>1 DEF PrunedFirst, Pruning
<1>13. LastResult' /\ HonestOutcome'
  BY <1>1 DEF LastResult, HonestOutcome, NoResult
<1>14. Marked'
  <2>1. runtime.confirmed => recorded # {}
    BY DEF Marked
  <2>2. OneUnresolved /\ open # {} =>
           runtime.unresolved /\ (runtime.confirmed => known # {})
    BY DEF Marked
  <2>3. OneUnresolved' = OneUnresolved
    BY <1>1 DEF OneUnresolved
  <2>4. OneUnresolved' /\ op'.kind = "forget" /\ op'.open # {} => op'.refused
    BY <2>2, <2>3 DEF Refused
  <2>5. QED
    BY <1>1, <1>3, <2>1, <2>2, <2>3, <2>4 DEF Marked
<1>15. QED
  BY <1>4, <1>5, <1>6, <1>7, <1>8, <1>9, <1>10, <1>11, <1>12, <1>13, <1>14

\* A backup or a maintenance operation other than a forget starts.
LEMMA StartOthers ==
    ASSUME Inv,
           StartBackup \/ \E kind \in Kinds \ {"backup", "forget"} : StartOther(kind)
    PROVE  Inv'
<1> USE DEF Inv
<1>1. Start /\ started + 1 \in 0 .. MaxOps /\ open \in SUBSET Ops /\ Refused \in BOOLEAN
  <2>1. Start /\ started \in 0 .. MaxOps /\ started < MaxOps
    BY DEF StartBackup, StartOther, Start, Typed
  <2>2. runtime \in Runtime /\ config \in BOOLEAN
    BY DEF Typed
  <2>3. QED
    BY <2>1, <2>2, SnapshotFacts DEF Reported, Refused, Runtime
<1>2. /\ NoOp \in Operation /\ NoOp.repository = "primary"
      /\ NoOp.plan = NoPlan /\ NoOp.saved = NoPlan
  BY NothingFacts DEF NoOp
<1>3. /\ NoPlan.candidates = {} /\ NoPlan.runs = {} /\ ~NoPlan.planned
      /\ ~NoPlan.pruneCompleted
  BY DEF NoPlan
<1>4. CASE StartBackup
  <2>1. /\ op' \in Operation
        /\ op'.kind = "backup" /\ op'.id = started + 1 /\ op'.step = "write"
        /\ op'.repository = "primary" /\ op'.plan = NoPlan /\ op'.saved = NoPlan
    BY <1>1, <1>2, <1>4 DEF StartBackup, Operation, Kinds, Steps
  <2>2. runtime' = runtime
    BY <1>4 DEF StartBackup
  <2>3. QED
    BY <1>1, <1>3, <2>1, <2>2, StartKeeps
<1>5. ASSUME NEW kind \in Kinds \ {"backup", "forget"}, StartOther(kind)
      PROVE  Inv'
  <2>1. /\ op' \in Operation
        /\ op'.kind = kind /\ op'.id = started + 1 /\ op'.step = "call"
        /\ op'.repository = "primary" /\ op'.plan = NoPlan /\ op'.saved = NoPlan
    BY <1>1, <1>2, <1>5, ZenonT(40) DEF StartOther, Operation, Kinds, Steps
  <2>2. Prepare /\ kind # "none"
    BY <1>5 DEF StartOther, Kinds
  <2>3. QED
    BY <1>1, <1>3, <2>1, <2>2, StartKeeps
<1>6. QED
  BY <1>4, <1>5

\* A forget starts with what the job's copy says.
LEMMA StartForgets ==
    ASSUME SaneRequests, Inv, NEW hold \in Holds, NEW x \in Asked(hold),
           NEW prune \in BOOLEAN, StartForget(x[1], x[2], hold, prune)
    PROVE  Inv'
<1> USE DEF Inv
<1>1. /\ Start /\ started + 1 \in 0 .. MaxOps /\ open \in SUBSET Ops
      /\ Refused \in BOOLEAN /\ runtime.latest \in 0 .. MaxOps
      /\ hold \in SUBSET Snapshots
  <2>1. Start /\ started \in 0 .. MaxOps /\ started < MaxOps
    BY DEF StartForget, Start, Typed
  <2>2. runtime \in Runtime /\ config \in BOOLEAN
    BY DEF Typed
  <2>3. QED
    BY <2>1, <2>2, SnapshotFacts, HoldsAreSnapshots DEF Reported, Refused, Runtime
<1>2. /\ x[1] \in Targets /\ x[2] \in SUBSET Snapshots
      /\ x[1] = "runs" =>
            RunsOf(x[2]) \cap ({runtime.latest} \cup RunsOf(hold)) = {}
  <2>1. CASE x = <<"policy", {}>>
    BY <2>1 DEF Targets
  <2>2. CASE \E s \in repo["primary"] : x = <<"snapshots", {s}>>
    BY <2>2, OpFacts DEF Targets
  <2>3. CASE \E r \in RunsOf(repo["primary"]) :
                /\ x = <<"runs", {r} \X Parts>>
                /\ r # runtime.latest /\ r \notin RunsOf(hold)
    <3>1. PICK r \in RunsOf(repo["primary"]) :
                /\ x = <<"runs", {r} \X Parts>>
                /\ r # runtime.latest /\ r \notin RunsOf(hold)
      BY <2>3
    <3>2. r \in 0 .. MaxOps
      BY OpFacts, RunFacts
    <3>3. {r} \X Parts \in SUBSET Snapshots
      BY <3>2 DEF Snapshots
    <3>4. RunsOf({r} \X Parts) \subseteq {r}
      BY DEF RunsOf
    <3>5. QED
      BY <3>1, <3>3, <3>4 DEF Targets
  <2>4. QED
    BY <2>1, <2>2, <2>3 DEF Asked, SaneRequests
<1> DEFINE plan == [NoPlan EXCEPT !.prune = prune]
<1>3. /\ plan \in Plans /\ plan.candidates = {} /\ plan.runs = {} /\ ~plan.planned
      /\ ~plan.pruneCompleted
  BY NothingFacts DEF NoPlan, Plans
<1> HIDE DEF plan
<1>4. NoOp \in Operation /\ NoOp.repository = "primary"
  BY NothingFacts DEF NoOp
<1>5. op' = [NoOp EXCEPT !.kind = "forget", !.id = started + 1, !.step = "attempt",
                          !.target = x[1], !.asked = x[2],
                          !.proof = runtime.latest, !.held = hold,
                          !.refused = Refused, !.open = open,
                          !.plan = plan, !.saved = plan]
  BY DEF StartForget, plan
<1>6. /\ op' \in Operation
      /\ op'.kind = "forget" /\ op'.id = started + 1 /\ op'.step = "attempt"
      /\ op'.repository = "primary" /\ op'.plan = plan /\ op'.saved = plan
      /\ op'.target = x[1] /\ op'.asked = x[2] /\ op'.proof = runtime.latest
      /\ op'.held = hold /\ op'.refused = Refused /\ op'.open = open
  BY <1>1, <1>2, <1>3, <1>4, <1>5, ZenonT(40) DEF Operation, Kinds, Steps
<1>7. Prepare
  BY DEF StartForget
<1>8. QED
  BY <1>1, <1>2, <1>3, <1>6, <1>7, StartKeeps

-----------------------------------------------------------------------------
(* Recording an outcome *)

\* The runtime state after an outcome.
LEMMA RecordedFacts ==
    ASSUME Inv, NEW kind \in Kinds, NEW status \in Statuses, NEW id \in Ops
    PROVE  /\ RecordedOutcome(kind, status, id) \in Runtime
           /\ RecordedOutcome(kind, status, id).confirmed =>
                 /\ RecordedOutcome(kind, status, id).unresolved
                 /\ runtime.confirmed /\ status # "unresolved"
           /\ status = "unresolved" => RecordedOutcome(kind, status, id).unresolved
           /\ runtime.unresolved /\ StillOpen(kind, status) # {} =>
                 RecordedOutcome(kind, status, id).unresolved
<1> USE DEF Inv
<1>1. /\ runtime.latest \in 0 .. MaxOps /\ runtime.unresolved \in BOOLEAN
      /\ runtime.confirmed \in BOOLEAN /\ runtime.nextDataPart \in 1 .. DataParts
      /\ runtime.confirmed => runtime.unresolved
  BY DEF Typed, Runtime
<1>2. id \in 0 .. MaxOps
  BY SnapshotFacts
<1>3. (runtime.nextDataPart % DataParts) + 1 \in 1 .. DataParts
  <2>1. /\ DataParts \in Nat /\ DataParts > 0
        /\ runtime.nextDataPart \in Nat
    BY <1>1, ParametersAreNumbers
  <2>2. runtime.nextDataPart % DataParts \in 0 .. DataParts - 1
    BY <2>1
  <2>3. QED
    BY <2>1, <2>2
<1>4. RecordedOutcome(kind, status, id) \in Runtime
  BY <1>1, <1>2, <1>3 DEF RecordedOutcome, Runtime
<1>5. QED
  BY <1>1, <1>4 DEF RecordedOutcome, StillOpen

\* What recording an outcome, for the first time, keeps of the invariant.
RecordKept(id) ==
    /\ runtime' \in Runtime
    /\ runtime'.confirmed => runtime'.unresolved
    /\ Reported'
    /\ recorded \subseteq recorded' /\ recorded' \subseteq recorded \cup {id}
    /\ config' = config
    /\ runtime'.confirmed => recorded' # {}
    /\ OneUnresolved' =>
          /\ OneUnresolved
          /\ open' # {} => runtime'.unresolved /\ (runtime'.confirmed => known' # {})

LEMMA RecordFacts ==
    ASSUME Inv, NEW kind \in Kinds, NEW status \in Statuses, NEW id \in Ops,
           id \notin recorded, RecordOutcome(kind, status, id)
    PROVE  RecordKept(id)
<1> USE DEF Inv
<1>1. /\ runtime' = RecordedOutcome(kind, status, id)
      /\ known' = known /\ config' = config
      /\ \/ /\ status = "unresolved"
            /\ unreported' = unreported \cup {id} /\ open' = open \cup {id}
            /\ recorded' = recorded \cup {id}
         \/ /\ status # "unresolved" /\ unreported' = unreported
            /\ open' = StillOpen(kind, status) /\ recorded' = recorded
  BY DEF RecordOutcome
<1>2. /\ runtime' \in Runtime
      /\ runtime'.confirmed =>
            runtime'.unresolved /\ runtime.confirmed /\ status # "unresolved"
      /\ status = "unresolved" => runtime'.unresolved
      /\ runtime.unresolved /\ StillOpen(kind, status) # {} => runtime'.unresolved
  BY <1>1, RecordedFacts
<1>3. StillOpen(kind, status) \subseteq open
  BY DEF StillOpen
<1>4. Reported'
  BY <1>1, <1>3 DEF Reported
<1>5. runtime'.confirmed => recorded' # {}
  BY <1>1, <1>2 DEF Marked
<1>6. OneUnresolved' => OneUnresolved
  BY <1>1 DEF OneUnresolved
<1>7. OneUnresolved' /\ open' # {} =>
         runtime'.unresolved /\ (runtime'.confirmed => known' # {})
  <2>1. CASE status = "unresolved"
    BY <1>1, <1>2, <2>1
  <2>2. CASE status # "unresolved"
    BY <1>1, <1>2, <1>3, <1>6, <2>2 DEF Marked
  <2>3. QED
    BY <2>1, <2>2
<1>8. QED
  BY <1>1, <1>2, <1>4, <1>5, <1>6, <1>7 DEF RecordKept

\* An operation that is in flight has a kind, an identity and a status.
LEMMA InFlightFacts ==
    ASSUME Inv, op.kind # "none"
    PROVE  /\ op.kind \in Kinds /\ op.id \in Ops /\ op.id = started
           /\ op.id \notin recorded
           /\ FinalStatus \in Statuses
           /\ op.pruned \in SUBSET Repositories
           /\ op.plan \in Plans /\ op.saved \in Plans
<1> USE DEF Inv
<1>1. /\ op.kind \in Kinds /\ op.status \in Statuses
      /\ op.pruned \in SUBSET Repositories /\ op.id \in 0 .. MaxOps
  BY DEF Typed, Operation
<1>2. op.id \in Ops /\ op.id = started /\ op.id \notin recorded
  BY <1>1, SnapshotFacts DEF Numbered, Ops
<1>3. FinalStatus \in Statuses
  BY <1>1 DEF FinalStatus, BackupStatus, ForgetStatus, Statuses
<1>4. QED
  BY <1>1, <1>2, <1>3, OpFacts

\* With no operation in flight, there is nothing to say of one.
LEMMA NoOperation ==
    ASSUME op' = NoOp
    PROVE  /\ op' \in Operation /\ op'.kind = "none"
           /\ StepsFit' /\ WholePlan' /\ Removing' /\ Spared' /\ Pruning'
           /\ \A plan \in {op'.plan, op'.saved} :
                 plan.candidates = {} /\ ~plan.pruneCompleted
<1>1. /\ op' \in Operation /\ op'.kind = "none" /\ op'.step = "finish"
      /\ op'.plan = NoPlan /\ op'.saved = NoPlan
  BY NothingFacts DEF NoOp
<1>2. StepsFit' /\ WholePlan' /\ Removing' /\ Spared' /\ Pruning'
  BY <1>1 DEF StepsFit, WholePlan, Removing, Spared, Pruning
<1>3. NoPlan.candidates = {} /\ ~NoPlan.pruneCompleted
  BY DEF NoPlan
<1>4. QED
  BY <1>1, <1>2, <1>3

\* finishOperation: the result is what is so.
LEMMA FinishKeeps ==
    ASSUME Inv, Finish
    PROVE  Inv'
<1> USE DEF Inv
<1>1. /\ op.kind # "none" /\ op.step = "finish" /\ op' = NoOp
      /\ RecordOutcome(op.kind, FinalStatus, op.id)
      /\ last' = [kind |-> op.kind, status |-> FinalStatus, reconciled |-> FALSE,
                  plan |-> op.plan, pruneCompleted |-> AllPruned,
                  pruned |-> op.pruned]
      /\ UNCHANGED <<repo, anchored, started, interrupted, troubles>>
  BY DEF Finish, Finished
<1>2. RecordKept(op.id)
  BY <1>1, InFlightFacts, RecordFacts
<1>3. /\ op' \in Operation /\ op'.kind = "none"
      /\ StepsFit' /\ WholePlan' /\ Removing' /\ Spared' /\ Pruning'
      /\ \A plan \in {op'.plan, op'.saved} :
            plan.candidates = {} /\ ~plan.pruneCompleted
  BY <1>1, NoOperation
<1>4. last' \in Result
  <2>1. AllPruned \in BOOLEAN
    BY DEF AllPruned
  <2>2. QED
    BY <1>1, <2>1, InFlightFacts DEF Result
<1>5. Typed'
  BY <1>1, <1>2, <1>3, <1>4 DEF Typed, RecordKept
<1>6. Numbered'
  <2>1. recorded' \subseteq recorded \cup {started} /\ started \in Int
    BY <1>1, <1>2, InFlightFacts DEF RecordKept, Typed
  <2>2. \A i \in interrupted : i.id < started /\ i.id \in Int
    BY <1>1, SnapshotFacts DEF Numbered, Typed, Interruption, Ops
  <2>3. QED
    BY <1>1, <1>3, <2>1, <2>2 DEF Numbered
<1>7. Bygone'
  BY <1>1, <1>3 DEF Bygone
<1>8. PrunedFirst'
  BY <1>1, <1>3 DEF PrunedFirst
<1>9. LastResult' /\ HonestOutcome'
  <2>1. last'.kind = "forget" /\ last'.status = "complete" =>
           /\ op.plan.candidates \cap repo["primary"] = {}
           /\ SnapshotsOf(op.plan.runs, repo["replica"]) = {}
           /\ SnapshotsOf(op.plan.runs, repo["primary"]) = {}
    <3> SUFFICES ASSUME op.kind = "forget", FinalStatus = "complete"
                 PROVE  /\ op.plan.candidates \cap repo["primary"] = {}
                        /\ SnapshotsOf(op.plan.runs, repo["replica"]) = {}
                        /\ SnapshotsOf(op.plan.runs, repo["primary"]) = {}
      BY <1>1
    <3>1. op.repository = "replica" /\ op.status = "complete"
      <4>1. ForgetStatus = "complete"
        BY DEF FinalStatus
      <4>2. op.repository = "primary" => op.status # "complete"
        BY <1>1 DEF Removing
      <4>3. QED
        BY <4>1, <4>2, OpFacts DEF ForgetStatus, Repositories
    <3>2. /\ SnapshotsOf(op.plan.runs, repo["replica"]) = {}
          /\ op.plan.candidates \cap repo["primary"] = {}
          /\ op.plan.planned
      BY <1>1, <3>1 DEF Removing, Done, Due
    <3>3. SnapshotsOf(op.plan.runs, repo["primary"]) \subseteq op.plan.candidates
      BY <3>2 DEF WholePlan
    <3>4. QED
      BY <3>2, <3>3 DEF SnapshotsOf
  <2>2. last'.pruneCompleted => last'.pruned = Repositories
    BY <1>1 DEF AllPruned
  <2>3. /\ last'.plan = op.plan /\ ~last'.reconciled
    BY <1>1
  <2>4. QED
    BY <1>1, <1>3, <2>1, <2>2, <2>3 DEF LastResult, HonestOutcome
<1>10. Marked'
  BY <1>2, <1>3 DEF Marked, RecordKept
<1>11. QED
  BY <1>2, <1>3, <1>5, <1>6, <1>7, <1>8, <1>9, <1>10 DEF RecordKept

-----------------------------------------------------------------------------
(* Copies, crashes and reconciliation *)

\* A copy brings nothing back that a result says is gone.
LEMMA CopyKeeps ==
    ASSUME Inv, Copy
    PROVE  Inv'
<1> USE DEF Inv
<1>1. /\ op.kind = "none" /\ UNCHANGED <<op, serverVars, recordVars>>
      /\ troubles' = troubles \/ Trouble
  BY DEF Copy
<1>2. PICK copied \in SUBSET repo["primary"] :
         repo' = [repo EXCEPT !["replica"] = @ \cup copied]
  BY DEF Copy
<1>3. /\ repo' \in [Repositories -> SUBSET Snapshots]
      /\ repo'["primary"] = repo["primary"]
      /\ repo'["replica"] = repo["replica"] \cup copied
  BY <1>2, OpFacts DEF Typed, Repositories
<1>4. Typed'
  BY <1>1, <1>3, TroubleFacts DEF Typed, serverVars, recordVars
<1>5. StepsFit' /\ Numbered' /\ Reported'
  BY <1>1 DEF StepsFit, Numbered, Reported, serverVars, recordVars
<1>6. Bygone'
  <2>1. \A r \in Repositories : \A s \in repo'[r] : s[1] <= started
    BY <1>3 DEF Bygone, Repositories
  <2>2. QED
    BY <1>1, <2>1 DEF Bygone, recordVars
<1>7. WholePlan' /\ Removing' /\ Spared'
  BY <1>1 DEF WholePlan, Removing, Spared
<1>8. PrunedFirst'
  BY <1>1 DEF PrunedFirst, Pruning, recordVars
<1>9. LastResult'
  BY <1>1, <1>3 DEF LastResult, recordVars
<1>10. HonestOutcome'
  <2>1. last' = last
    BY <1>1 DEF recordVars
  <2>2. last.kind = "forget" /\ last.status = "complete" /\ ~last.reconciled =>
           SnapshotsOf(last.plan.runs, repo'["replica"]) = {}
    <3> SUFFICES ASSUME last.kind = "forget", last.status = "complete",
                        ~last.reconciled
                 PROVE  SnapshotsOf(last.plan.runs, repo'["replica"]) = {}
      OBVIOUS
    <3>1. SnapshotsOf(last.plan.runs, repo["primary"]) = {}
      BY DEF LastResult
    <3>2. SnapshotsOf(last.plan.runs, repo["replica"]) = {}
      BY DEF HonestOutcome
    <3>3. QED
      BY <1>3, <3>1, <3>2 DEF SnapshotsOf
  <2>3. QED
    BY <1>3, <2>1, <2>2 DEF HonestOutcome
<1>11. Marked'
  BY <1>1 DEF Marked, OneUnresolved, serverVars, recordVars
<1>12. QED
  BY <1>4, <1>5, <1>6, <1>7, <1>8, <1>9, <1>10, <1>11

\* A crash leaves the operation behind in the journal.
LEMMA CrashKeeps ==
    ASSUME Inv, Crash
    PROVE  Inv'
<1> USE DEF Inv
<1>1. /\ op.kind # "none" /\ op' = NoOp
      /\ troubles' = troubles \/ Trouble
      /\ UNCHANGED <<repo, anchored, started, last, config, unreported, known,
                     recorded>>
      /\ \/ runtime' = runtime /\ open' = open
         \/ /\ runtime' = RecordedOutcome(op.kind, FinalStatus, op.id)
            /\ open' = StillOpen(op.kind, FinalStatus)
  BY DEF Crash, serverVars
<1>2. PICK plan \in {op.saved, op.plan} :
         interrupted' = interrupted \cup
            {[kind |-> op.kind, id |-> op.id, plan |-> plan, pruned |-> op.pruned]}
  BY DEF Crash, Left
<1> DEFINE left == [kind |-> op.kind, id |-> op.id, plan |-> plan, pruned |-> op.pruned]
<1>3. left \in Interruption
  BY <1>1, InFlightFacts DEF Interruption
<1>4. left.id = started /\ left.plan = plan /\ left.pruned = op.pruned
  BY <1>1, InFlightFacts
<1>5. interrupted' = interrupted \cup {left}
  BY <1>2
<1> HIDE DEF left
<1>6. /\ runtime' \in Runtime
      /\ runtime'.confirmed => runtime'.unresolved /\ runtime.confirmed
      /\ open' \subseteq open
      /\ open' # {} /\ runtime.unresolved => runtime'.unresolved
  <2>1. CASE runtime' = runtime /\ open' = open
    BY <2>1 DEF Typed
  <2>2. CASE /\ runtime' = RecordedOutcome(op.kind, FinalStatus, op.id)
             /\ open' = StillOpen(op.kind, FinalStatus)
    BY <1>1, <2>2, InFlightFacts, RecordedFacts DEF StillOpen
  <2>3. QED
    BY <1>1, <2>1, <2>2
<1>7. /\ op' \in Operation /\ op'.kind = "none"
      /\ StepsFit' /\ WholePlan' /\ Removing' /\ Spared' /\ Pruning'
      /\ \A p \in {op'.plan, op'.saved} : p.candidates = {} /\ ~p.pruneCompleted
  BY <1>1, NoOperation
<1>8. Typed'
  BY <1>1, <1>3, <1>5, <1>6, <1>7, TroubleFacts DEF Typed
<1>9. Numbered'
  <2>1. started \in Int /\ started \notin recorded
    BY <1>1, InFlightFacts DEF Typed
  <2>2. \A i \in interrupted : i.id < started /\ i.id \in Int
    BY <1>1, SnapshotFacts DEF Numbered, Typed, Interruption, Ops
  <2>3. QED
    BY <1>1, <1>4, <1>5, <1>7, <2>1, <2>2 DEF Numbered
<1>10. Reported'
  BY <1>1, <1>6 DEF Reported
<1>11. Bygone'
  <2>1. \A p \in {last.plan} \cup {i.plan : i \in interrupted'} :
           \A s \in p.candidates : s[1] <= started
    BY <1>4, <1>5 DEF Bygone
  <2>2. QED
    BY <1>1, <1>7, <2>1 DEF Bygone
<1>12. PrunedFirst'
  BY <1>4, <1>5, <1>7 DEF PrunedFirst
<1>13. last.kind # "none" => last.reconciled
  BY <1>1 DEF LastResult
<1>14. LastResult' /\ HonestOutcome'
  BY <1>1, <1>13 DEF LastResult, HonestOutcome
<1>15. Marked'
  <2>1. OneUnresolved' = OneUnresolved
    BY <1>1 DEF OneUnresolved
  <2>2. OneUnresolved /\ open' # {} =>
           runtime'.unresolved /\ (runtime'.confirmed => known # {})
    BY <1>6 DEF Marked
  <2>3. runtime'.confirmed => recorded # {}
    BY <1>6 DEF Marked
  <2>4. QED
    BY <1>1, <1>7, <2>1, <2>2, <2>3 DEF Marked
<1>16. QED
  BY <1>7, <1>8, <1>9, <1>10, <1>11, <1>12, <1>14, <1>15

\* An operation found in the journal gets the outcome that can be proved.
LEMMA ReconcileKeeps ==
    ASSUME Inv, NEW i \in interrupted, ReconcileOne(i)
    PROVE  Inv'
<1> USE DEF Inv
<1>1. PICK status \in {ReconciledStatus(i), "unresolved"} :
         /\ troubles' = troubles \/ Trouble
         /\ RecordOutcome(i.kind, status, i.id)
         /\ last' = [kind |-> i.kind, status |-> status, reconciled |-> TRUE,
                     plan |-> i.plan, pruned |-> i.pruned,
                     pruneCompleted |-> i.plan.pruneCompleted /\ status # "unresolved"]
  BY DEF ReconcileOne
<1>2. /\ interrupted' = interrupted \ {i}
      /\ UNCHANGED <<repo, anchored, op, started>>
  BY DEF ReconcileOne
<1>3. /\ i \in Interruption /\ i.kind \in Kinds /\ i.id \in Ops
      /\ i.plan \in Plans /\ i.pruned \in SUBSET Repositories
      /\ i.id \notin recorded
  BY DEF Typed, Interruption, Numbered
<1>4. status \in Statuses
  BY DEF ReconciledStatus, ReconciledBackup, ReconciledForget, Statuses
<1>5. RecordKept(i.id)
  BY <1>1, <1>3, <1>4, RecordFacts
<1>6. last' \in Result
  BY <1>1, <1>3, <1>4 DEF Result, Plans
<1>7. Typed'
  BY <1>1, <1>2, <1>5, <1>6, TroubleFacts DEF Typed, RecordKept
<1>8. StepsFit' /\ WholePlan' /\ Spared'
  BY <1>2 DEF StepsFit, WholePlan, Spared
<1>9. Removing'
  BY <1>2 DEF Removing, Done, Due
<1>10. Numbered'
  <2>1. recorded' \subseteq recorded \cup {i.id}
    BY <1>5 DEF RecordKept
  <2>2. /\ started \in Int /\ i.id \in Int /\ i.id <= started
        /\ op.kind # "none" => i.id < started
    BY <1>3 DEF Typed, Numbered, Ops
  <2>3. \A j \in interrupted' : j \in interrupted /\ j.id # i.id
    BY <1>2 DEF Numbered
  <2>4. QED
    BY <1>2, <2>1, <2>2, <2>3 DEF Numbered
<1>11. Bygone'
  <2>1. last'.plan = i.plan
    BY <1>1
  <2>2. {last'.plan} \cup {j.plan : j \in interrupted'}
           \subseteq {last.plan} \cup {j.plan : j \in interrupted}
    BY <1>2, <2>1
  <2>3. QED
    BY <1>2, <2>2 DEF Bygone
<1>12. PrunedFirst'
  BY <1>2 DEF PrunedFirst, Pruning
<1>13. LastResult'
  BY <1>1 DEF LastResult
<1>14. HonestOutcome'
  <2>1. i.kind = "forget" /\ status = "complete" =>
           i.plan.candidates \cap repo["primary"] = {}
    BY DEF ReconciledStatus, ReconciledForget
  <2>2. i.plan.pruneCompleted => "primary" \in i.pruned
    BY DEF PrunedFirst
  <2>3. QED
    BY <1>1, <1>2, <2>1, <2>2 DEF HonestOutcome
<1>15. Marked'
  BY <1>2, <1>5 DEF Marked, RecordKept
<1>16. QED
  BY <1>5, <1>7, <1>8, <1>9, <1>10, <1>11, <1>12, <1>13, <1>14, <1>15 DEF RecordKept

-----------------------------------------------------------------------------
(* The control plane *)

\* It hears of an outcome, somebody settles one, a configuration says what is
\* open.
LEMMA ControlPlaneKeeps ==
    ASSUME Inv, (\E id \in Ops : Report(id) \/ Resolve(id)) \/ AcceptConfig
    PROVE  Inv'
<1> USE DEF Inv
<1>1. /\ UNCHANGED <<repo, anchored, op, started, interrupted, recorded, last,
                     troubles>>
      /\ config' \in BOOLEAN
  BY DEF Report, Resolve, AcceptConfig, recordVars, Typed
<1>2. /\ runtime' \in Runtime
      /\ runtime'.confirmed => runtime'.unresolved
  BY DEF Report, Resolve, AcceptConfig, recordVars, Typed, Runtime
<1>3. Typed'
  BY <1>1, <1>2 DEF Typed
<1>4. Reported'
  BY DEF Report, Resolve, AcceptConfig, Reported
<1>5. StepsFit' /\ Numbered' /\ WholePlan' /\ Spared' /\ PrunedFirst'
  BY <1>1 DEF StepsFit, Numbered, WholePlan, Spared, PrunedFirst, Pruning
<1>6. Bygone' /\ LastResult' /\ HonestOutcome'
  BY <1>1 DEF Bygone, LastResult, HonestOutcome
<1>7. Removing'
  BY <1>1 DEF Removing, Done, Due
<1>8. Marked'
  <2>1. OneUnresolved' = OneUnresolved
    BY <1>1 DEF OneUnresolved
  <2>2. CASE \E id \in Ops : Report(id)
    BY <1>1, <2>1, <2>2 DEF Report, Marked, recordVars
  <2>3. CASE \E id \in Ops : Resolve(id)
    <3>1. PICK id \in known : open' = open \ {id} /\ known' = known \ {id}
      BY <2>3 DEF Resolve
    <3>2. OneUnresolved => open' = {}
      BY <3>1 DEF OneUnresolved, Reported
    <3>3. runtime' = runtime
      BY <2>3 DEF Resolve, recordVars
    <3>4. QED
      BY <1>1, <2>1, <3>2, <3>3 DEF Marked
  <2>4. CASE AcceptConfig
    <3>1. UNCHANGED <<known, open>> /\ runtime \in Runtime
      BY <2>4 DEF AcceptConfig, Typed
    <3>2. CASE known # {}
      <4>1. runtime'.unresolved /\ runtime'.confirmed
        BY <2>4, <3>1, <3>2 DEF AcceptConfig, Runtime
      <4>2. recorded # {}
        BY <3>2 DEF Reported
      <4>3. QED
        BY <1>1, <2>1, <3>1, <3>2, <4>1, <4>2 DEF Marked
    <3>3. CASE known = {} /\ runtime.confirmed
      <4>1. ~runtime'.confirmed
        BY <2>4, <3>1, <3>3 DEF AcceptConfig, Runtime
      <4>2. OneUnresolved => open = {}
        BY <3>3 DEF Marked
      <4>3. QED
        BY <1>1, <2>1, <3>1, <4>1, <4>2 DEF Marked
    <3>4. CASE known = {} /\ ~runtime.confirmed
      <4>1. runtime' = runtime
        BY <2>4, <3>4 DEF AcceptConfig
      <4>2. QED
        BY <1>1, <2>1, <3>1, <4>1 DEF Marked
    <3>5. QED
      BY <3>2, <3>3, <3>4
  <2>5. QED
    BY <2>2, <2>3, <2>4
<1>9. QED
  BY <1>3, <1>4, <1>5, <1>6, <1>7, <1>8

-----------------------------------------------------------------------------
(* The theorems *)

\* One complete backup in both repositories, and nothing under way.
LEMMA InitInv == Init => Inv
<1> SUFFICES ASSUME Init PROVE Inv
  OBVIOUS
<1> USE DEF Init
<1>1. /\ op.kind = "none" /\ op.step = "finish" /\ op \in Operation
      /\ op.plan = NoPlan /\ op.saved = NoPlan
      /\ NoPlan.candidates = {} /\ ~NoPlan.pruneCompleted
  BY NothingFacts DEF NoOp, NoPlan
<1>2. {0} \X Parts \subseteq Snapshots
  BY SnapshotFacts DEF Snapshots
<1>3. Typed
  <2>1. <<0, 1>> \in Snapshots
    BY SnapshotFacts
  <2>2. runtime \in Runtime /\ ~runtime.confirmed
    BY ParametersAreNumbers DEF Runtime
  <2>3. /\ repo \in [Repositories -> SUBSET Snapshots]
        /\ started \in 0 .. MaxOps /\ troubles \in 0 .. MaxTroubles
    BY <1>2, ParametersAreNumbers
  <2>4. QED
    BY <1>1, <2>1, <2>2, <2>3, NothingFacts DEF Typed
<1>4. StepsFit /\ Numbered /\ Reported
  BY <1>1 DEF StepsFit, Numbered, Reported
<1>5. Bygone
  <2>1. last.plan.candidates = {}
    BY DEF NoResult, NoPlan
  <2>2. \A r \in Repositories : \A s \in repo[r] : s[1] <= started
    OBVIOUS
  <2>3. QED
    BY <1>1, <2>1, <2>2 DEF Bygone
<1>6. WholePlan /\ Removing /\ Spared /\ PrunedFirst
  BY <1>1 DEF WholePlan, Removing, Spared, PrunedFirst, Pruning
<1>7. LastResult /\ HonestOutcome
  BY DEF LastResult, HonestOutcome, NoResult
<1>8. Marked
  BY <1>1 DEF Marked
<1>9. QED
  BY <1>3, <1>4, <1>5, <1>6, <1>7, <1>8 DEF Inv

\* Every step keeps the invariant.
LEMMA StepInv ==
    ASSUME SaneRequests, Inv, [Next]_vars
    PROVE  Inv'
<1>1. CASE StartBackup \/ \E kind \in Kinds \ {"backup", "forget"} : StartOther(kind)
  BY <1>1, StartOthers
<1>2. CASE \E hold \in Holds : \E asked \in Asked(hold) : \E prune \in BOOLEAN :
              StartForget(asked[1], asked[2], hold, prune)
  BY <1>2, StartForgets
<1>3. CASE \/ PartSucceeds \/ PartFails \/ SourceUnavailable \/ BackupCancelled
           \/ OtherCall
  BY <1>3, WorkSteps
<1>4. CASE ForgetStep
  BY <1>4, ForgetStepKeeps
<1>5. CASE Finish \/ Copy \/ Crash
  BY <1>5, FinishKeeps, CopyKeeps, CrashKeeps
<1>6. CASE \E i \in interrupted : ReconcileOne(i)
  BY <1>6, ReconcileKeeps
<1>7. CASE (\E id \in Ops : Report(id) \/ Resolve(id)) \/ AcceptConfig
  BY <1>7, ControlPlaneKeeps
<1>8. CASE UNCHANGED vars
  BY <1>8 DEF vars, Inv, Typed, StepsFit, Numbered, Reported, Bygone, WholePlan,
     Due, Done, Removing, Spared, Pruning, PrunedFirst, LastResult, HonestOutcome,
     OneUnresolved, Marked
<1>9. QED
  BY <1>1, <1>2, <1>3, <1>4, <1>5, <1>6, <1>7, <1>8 DEF Next

\* The invariant holds throughout.
THEOREM RetentionInvariant ==
    ASSUME SaneRequests
    PROVE  Spec => []Inv
<1>1. Init => Inv
  BY InitInv
<1>2. Inv /\ [Next]_vars => Inv'
  BY StepInv
<1>3. QED
  BY <1>1, <1>2, PTL DEF Spec

\* Type correctness: among the rest, no outcome is recorded twice, the data
\* part to check next exists (recordOutcomeLocked), and a confirmed mark is a
\* mark (acceptMaintenanceConfigLocked).
THEOREM RetentionTypeCorrect ==
    ASSUME SaneRequests
    PROVE  Spec => []TypeOK
<1>1. Spec => []Inv
  BY RetentionInvariant
<1>2. Inv => TypeOK
  BY InvTypeOK
<1>3. QED
  BY <1>1, <1>2, PTL

\* A forget that is reported complete has removed what it planned from both
\* repositories, also after retries, failed saves and crashes, and a prune
\* reported complete has been made (executeForget, finishRetention,
\* executeMaintenanceRepositories, reconciledMaintenance).
THEOREM OutcomesAreHonest ==
    ASSUME SaneRequests
    PROVE  Spec => []HonestOutcome
<1>1. Spec => []Inv
  BY RetentionInvariant
<1>2. Inv => HonestOutcome
  BY DEF Inv
<1>3. QED
  BY <1>1, <1>2, PTL

\* Only a forget call removes a snapshot, and only one of the plan's runs.
LEMMA OnlyForgetRemoves ==
    ASSUME Inv, [Next]_vars, NEW r \in Repositories, NEW s \in Removed(r)
    PROVE  /\ op.kind = "forget" /\ op.step = "delete"
           /\ s[1] \in op.plan.runs
<1> USE DEF Inv
<1>1. s \in repo[r] /\ s \notin repo'[r] /\ repo \in [Repositories -> SUBSET Snapshots]
  BY DEF Removed, Typed
<1>2. CASE DeleteSucceeds \/ DeleteFails
  <2>1. op.step = "delete" /\ op.kind = "forget"
    BY <1>2, OpFacts DEF DeleteSucceeds, DeleteFails
  <2>2. PICK gone \in SUBSET op.candidates :
           repo' = [repo EXCEPT ![op.repository] = @ \ gone]
    BY <1>2 DEF DeleteSucceeds, DeleteFails, Remove
  <2>3. s \in op.candidates
    BY <1>1, <2>2
  <2>4. RunsOf(op.candidates) \subseteq op.plan.runs
    BY <2>1 DEF Removing
  <2>5. QED
    BY <2>1, <2>3, <2>4 DEF RunsOf
<1>3. CASE repo' = repo
  BY <1>1, <1>3
<1>4. CASE WriteSnapshot
  BY <1>1, <1>4 DEF WriteSnapshot
<1>5. CASE Copy
  <2>1. PICK copied \in SUBSET repo["primary"] :
           repo' = [repo EXCEPT !["replica"] = @ \cup copied]
    BY <1>5 DEF Copy
  <2>2. QED
    BY <1>1, <2>1
<1>6. QED
  <2>1. CASE \/ StartBackup \/ PartSucceeds \/ PartFails \/ SourceUnavailable
             \/ BackupCancelled \/ OtherCall \/ Finish \/ Copy \/ Crash
             \/ AcceptConfig \/ UNCHANGED vars
    BY <1>3, <1>4, <1>5, <2>1
       DEF StartBackup, Start, PartSucceeds, PartFails, SourceUnavailable,
           BackupCancelled, OtherCall, Finish, Crash, AcceptConfig, vars
  <2>2. CASE ForgetStep
    BY <1>2, <1>3, <2>2
       DEF ForgetStep, ForgetSkipped, InventoryFails, ForgetProtected,
           FollowPlan, MakePlan, RelistFails, Relist, NoPruneDue, PruneStarts,
           PruneFails, PruneCompletes, Retry, NextRepository, ForgetEnds
  <2>3. CASE \/ \E hold \in Holds : \E asked \in Asked(hold) : \E prune \in BOOLEAN :
                   StartForget(asked[1], asked[2], hold, prune)
             \/ \E kind \in Kinds \ {"backup", "forget"} : StartOther(kind)
             \/ \E i \in interrupted : ReconcileOne(i)
             \/ \E id \in Ops : Report(id) \/ Resolve(id)
    <3>1. repo' = repo
      BY <2>3 DEF StartForget, StartOther, Start, ReconcileOne, Report, Resolve
    <3>2. QED
      BY <1>3, <3>1
  <2>4. QED
    BY <2>1, <2>2, <2>3 DEF Next

\* A forget removes no snapshot of the recovery point that was the latest when
\* it started, and none that is held, from the primary or from the replica
\* (executeForget, executeMaintenanceRepositories).
THEOREM TheRecoveryPointIsKept ==
    ASSUME SaneRequests
    PROVE  Spec => RecoveryPointKept
<1>1. Spec => []Inv
  BY RetentionInvariant
<1>2. Inv /\ [Next]_vars =>
         [\A r \in Repositories : \A s \in Removed(r) :
             s[1] # op.proof /\ s \notin op.held]_vars
  <2> SUFFICES ASSUME Inv, [Next]_vars, NEW r \in Repositories, NEW s \in Removed(r)
               PROVE  s[1] # op.proof /\ s \notin op.held
    OBVIOUS
  <2>1. op.kind = "forget" /\ s[1] \in op.plan.runs
    BY OnlyForgetRemoves
  <2>2. op.plan.runs \cap ({op.proof} \cup RunsOf(op.held)) = {}
    BY <2>1 DEF Inv, Spared
  <2>3. s \in op.held => s[1] \in RunsOf(op.held)
    BY DEF RunsOf
  <2>4. QED
    BY <2>1, <2>2, <2>3
<1>3. QED
  BY <1>1, <1>2, PTL DEF Spec, RecoveryPointKept

\* A set of at most one outcome.
LEMMA AtMostOne ==
    ASSUME recorded \subseteq Ops, Cardinality(recorded) <= 1
    PROVE  OneUnresolved
<1> SUFFICES ASSUME NEW x \in recorded, NEW y \in recorded, x # y
             PROVE  FALSE
  BY DEF OneUnresolved
<1>1. IsFiniteSet(Ops)
  BY SnapshotFacts, FS_Interval DEF Ops
<1>2. IsFiniteSet(recorded) /\ Cardinality(recorded) \in Nat
  BY <1>1, FS_Subset, FS_CardinalityType
<1>3. IsFiniteSet({x}) /\ Cardinality({x}) = 1
  BY FS_Singleton
<1>4. Cardinality({x} \cup {y}) = 2
  BY <1>3, FS_AddElement
<1>5. Cardinality({x} \cup {y}) <= Cardinality(recorded)
  BY <1>2, FS_Subset
<1>6. QED
  BY <1>2, <1>4, <1>5

\* A forget removes nothing while the one unresolved run that was open when it
\* started may be (executeForget, recordOutcomeLocked,
\* acceptMaintenanceConfigLocked, prepareMaintenanceLocked).
THEOREM UnresolvedIsRefused ==
    ASSUME SaneRequests
    PROVE  Spec => RefusesUnresolved
<1>1. Spec => []Inv
  BY RetentionInvariant
<1>2. Inv /\ [Next]_vars =>
         [\A r \in Repositories :
             Removed(r) # {} /\ Cardinality(recorded) <= 1 => op.open = {}]_vars
  <2> SUFFICES ASSUME Inv, [Next]_vars, NEW r \in Repositories,
                      Removed(r) # {}, Cardinality(recorded) <= 1
               PROVE  op.open = {}
    OBVIOUS
  <2>1. op.kind = "forget" /\ op.step = "delete"
    BY OnlyForgetRemoves
  <2>2. ~op.refused
    BY <2>1 DEF Inv, Removing
  <2>3. OneUnresolved
    BY AtMostOne DEF Inv, Reported
  <2>4. QED
    BY <2>1, <2>2, <2>3 DEF Inv, Marked
<1>3. QED
  BY <1>1, <1>2, PTL DEF Spec, RefusesUnresolved

=============================================================================
