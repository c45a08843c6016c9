------------------------------ MODULE Cleanup ------------------------------
(***************************************************************************)
(* tools/cleanup: the commands discover, show and run of the tool that     *)
(* finds and deletes what test deployments left in cloud accounts.         *)
(*                                                                         *)
(* A process plans the search targets, collects deployment summaries from  *)
(* each, and for run deletes the resources of the selected deployments     *)
(* phase by phase.  The cloud goes on by itself: an instance that was told *)
(* to terminate is gone some time later.  Any call may fail, and the       *)
(* answer to a delete may be lost after it took effect.                    *)
(***************************************************************************)
EXTENDS CleanupProviders

CONSTANTS
    Deployments,   \* deployment ids
    Owners,        \* values of the owner tag
    Caller,        \* the owner that AWS reports for the caller
    Targets,       \* sequence of search targets [p, loc]
    Options,       \* command lines
    Cutoff,        \* creation times up to this one are older than --older-than
    InitialCloud,  \* the condition of every resource at first
    InitialPages,  \* pages of objects in a bucket
    MaxAttempts,   \* bound: attempts of a delete loop (10 to 60 in the code)
    MaxFaults,     \* bound: calls that fail
    MaxProcesses   \* bound: processes started

VARIABLES
    cloud,      \* condition of every resource
    pages,      \* pages of objects left in a bucket
    temp,       \* temporary credentials groups left behind
    processes,  \* processes started so far
    faults,     \* calls that failed so far
    opts,       \* the command line
    pc,         \* what the process does
    registry,   \* the location a provider's handlers were made for, or "none"
    scope,      \* status of every search target
    work,       \* targets still to be collected
    searched,   \* number of targets collected without error
    index,      \* the lookup index: matches [d, i, created, state]
    todo,       \* deployments still to be processed
    current,    \* the deployment being processed and its target
    plan,       \* its actions still to be executed
    attempt,    \* attempts made in the current delete loop
    results,    \* results of this process [r, status, slow]
    failures,   \* deployments that could not be processed
    hidden,     \* a listing failed in this process without ending it
    exit        \* outcome of the last process

ASSUME CleanupAssumption ==
    /\ Targets \in Seq([p : Providers, loc : {Targets[i].loc : i \in DOMAIN Targets}])
    /\ InitialCloud \in [Resources -> Conditions] /\ InitialPages \in [Resources -> Nat]
    /\ \A o \in Options : o.cmd \in {"discover", "show", "run"} /\ o.ids \subseteq Deployments
    /\ Cutoff \in Nat /\ MaxAttempts \in Nat \ {0} /\ MaxFaults \in Nat /\ MaxProcesses \in Nat

vars == <<cloud, pages, temp, processes, faults, opts, pc, registry, scope, work, searched, index,
          todo, current, plan, attempt, results, failures, hidden, exit>>

env == <<cloud, pages, temp>>

NoTarget == [d |-> "none", i |-> 0]

Statuses == {"skipped", "unavailable", "searched", "error"}

TypeOK ==
    /\ cloud \in [Resources -> Conditions]
    /\ pages \in [Resources -> Nat]
    /\ temp \in 0..MaxFaults
    /\ processes \in 0..MaxProcesses /\ faults \in 0..MaxFaults
    /\ opts \in Options
    /\ pc \in {"idle", "plan", "collect", "load", "act"}
    /\ registry \in [{"aws", "exoscale"} -> {"none"} \cup {Targets[i].loc : i \in DOMAIN Targets}]
    /\ scope \in [DOMAIN Targets -> Statuses]
    /\ work \subseteq DOMAIN Targets
    /\ searched \in 0..Len(Targets)
    /\ \A m \in index : m.d \in Deployments /\ m.i \in DOMAIN Targets
    /\ todo \subseteq Deployments /\ failures \subseteq Deployments
    /\ current = NoTarget \/ (current.d \in Deployments /\ current.i \in DOMAIN Targets)
    /\ \A x \in plan : x.r \in Resources
    /\ attempt \in 0..MaxAttempts
    /\ \A x \in results : x.status \in {"planned", "skipped", "success", "failed"}
    /\ hidden \in BOOLEAN
    /\ exit \in {"none", "ok", "error"}

Init ==
    /\ cloud = InitialCloud /\ pages = InitialPages /\ temp = 0
    /\ processes = 0 /\ faults = 0
    /\ opts \in Options
    /\ pc = "idle"
    /\ registry = [p \in {"aws", "exoscale"} |-> "none"]
    /\ scope = [i \in DOMAIN Targets |-> "skipped"]
    /\ work = {} /\ searched = 0 /\ index = {} /\ todo = {} /\ current = NoTarget
    /\ plan = {} /\ attempt = 0 /\ results = {} /\ failures = {}
    /\ hidden = FALSE /\ exit = "none"

-----------------------------------------------------------------------------
(* Selection *)

\* validateCleanupRunSelection; discover takes no ids and show needs some.
validateCleanupRunSelection(o) ==
    CASE o.cmd = "run" -> (o.all <=> o.ids = {}) /\ (o.older => o.all)
      [] o.cmd = "show" -> o.ids # {}
      [] o.cmd = "discover" -> o.ids = {}

shouldUseProvider(p, selected) == selected = {} \/ p \in selected

\* The owners a filter lets through: without one, AWS looks for the caller's
\* deployments and the others for everybody's.
resolveOwner(p, o) ==
    IF o.owners # {} THEN o.owners ELSE IF p = "aws" THEN {Caller} ELSE Owners \cup {"-"}

\* A zero creation time counts as older.
IsOlderThan(created, older) == ~older \/ created <= Cutoff

StaleDeploymentIDs(older) ==
    {d \in Deployments : \E m \in index : m.d = d /\ IsOlderThan(m.created, older)}

selectCleanupRunDeployments ==
    IF opts.all THEN StaleDeploymentIDs(opts.older) ELSE opts.ids

-----------------------------------------------------------------------------
(* The process *)

\* A new process: the handlers of an earlier one are not its own.
StartProcess(o) ==
    /\ pc = "idle" /\ processes < MaxProcesses
    /\ processes' = processes + 1
    /\ opts' = o
    /\ registry' = [p \in {"aws", "exoscale"} |-> "none"]
    /\ work' = {} /\ searched' = 0 /\ index' = {} /\ todo' = {} /\ current' = NoTarget
    /\ plan' = {} /\ attempt' = 0 /\ results' = {} /\ failures' = {} /\ hidden' = FALSE
    /\ scope' = [i \in DOMAIN Targets |-> "skipped"]
    /\ IF validateCleanupRunSelection(o)
       THEN pc' = "plan" /\ exit' = "none"
       ELSE pc' = "idle" /\ exit' = "error"
    /\ UNCHANGED <<env, faults>>

\* BuildPlan: a target whose owner or account cannot be looked up is
\* unavailable, the others are searched.
BuildPlan ==
    /\ pc = "plan"
    /\ \E down \in SUBSET {i \in DOMAIN Targets : shouldUseProvider(Targets[i].p, opts.providers)} :
        /\ faults + Cardinality(down) <= MaxFaults
        /\ faults' = faults + Cardinality(down)
        /\ scope' = [i \in DOMAIN Targets |->
                        IF ~shouldUseProvider(Targets[i].p, opts.providers) THEN "skipped"
                        ELSE IF i \in down THEN "unavailable" ELSE "searched"]
    /\ work' = {i \in DOMAIN Targets : scope'[i] = "searched"}
    /\ pc' = "collect"
    /\ UNCHANGED <<env, processes, opts, registry, searched, index, todo, current, plan, attempt, results,
                   failures, hidden, exit>>

\* The calls of one collection that fail.
Losses(p, fatal) ==
    {{}} \cup (IF faults < MaxFaults
               THEN {{t} : t \in fatal \cup {Info[r].type : r \in {q \in Resources : Info[q].p = p}}}
               ELSE {})

\* entryRef points into the slice that BuildPlan appends to: it is left behind
\* in the old array when a later append outgrows the capacity 1, 2, 4, 8.
entryRefIsStale(i) ==
    LET capacity == CHOOSE n \in {1, 2, 4, 8, 16} : n >= i /\ \A m \in {1, 2, 4, 8, 16} : m >= i => m >= n
    IN  Len(Targets) > capacity

\* CollectLookupIndex, the next target; the summaries are those of
\* CollectDeploymentSummaries.  run and show never search legacy deployments.
CollectLookupIndex(i) ==
    /\ pc = "collect" /\ \A j \in work : i <= j
    /\ LET p == Targets[i].p
           Members(d, lost) == SummaryMembers(p, cloud, Targets[i].loc, d, resolveOwner(p, opts),
                                              opts.legacy /\ opts.cmd = "discover", lost)
       IN \E lost \in Losses(p, Fatal(p)) :
            /\ faults' = faults + Cardinality(lost)
            /\ IF lost \cap Fatal(p) # {}
               THEN /\ scope' = IF entryRefIsStale(i) THEN scope ELSE [scope EXCEPT ![i] = "error"]
                    /\ failures' = failures
                    /\ UNCHANGED <<searched, index, hidden>>
               ELSE /\ searched' = searched + 1
                    /\ index' = index \cup
                         {[d |-> d, i |-> i, created |-> CreatedAt(p, Members(d, lost), lost),
                           state |-> StateShown(p, cloud, Members(d, lost), d, lost)] :
                              d \in {e \in Deployments : Members(e, lost) # {}}}
                    /\ hidden' = (hidden \/ lost # {})
                    /\ UNCHANGED <<scope, failures>>
    /\ work' = work \ {i}
    /\ UNCHANGED <<env, processes, opts, pc, registry, todo, current, plan, attempt, results, exit>>

\* The switch after the search.  run goes on when no target could be searched.
EndSearch ==
    /\ pc = "collect" /\ work = {}
    /\ LET none == \A i \in DOMAIN Targets : scope[i] \in {"skipped", "unavailable"}
           stop == (none /\ opts.cmd # "run") \/ (~none /\ searched = 0)
       IN IF stop \/ opts.cmd = "discover"
          THEN /\ pc' = "idle" /\ exit' = IF stop THEN "error" ELSE "ok"
               /\ index' = {m \in index : IsOlderThan(m.created, opts.older)}
               /\ todo' = todo
          ELSE /\ pc' = "load" /\ exit' = exit
               /\ todo' = IF opts.cmd = "run" THEN selectCleanupRunDeployments ELSE opts.ids
               /\ index' = index
    /\ UNCHANGED <<env, processes, faults, opts, registry, scope, work, searched, current, plan, attempt,
                   results, failures, hidden>>

\* loadCleanupRunResult and loadCleanupShowResult up to the plan.  Deployments are
\* taken in some fixed order: that of the arguments, or the sorted one.
LoadDeployment(d) ==
    /\ pc = "load" /\ todo # {} /\ d = CHOOSE e \in todo : TRUE
    /\ todo' = todo \ {d}
    /\ LET matches == {m \in index : m.d = d}
       IN \/ /\ Cardinality(matches) # 1
             /\ failures' = failures \cup {d}
             /\ UNCHANGED <<pc, faults, current, plan, hidden>>
          \/ \E m \in matches :
               /\ Cardinality(matches) = 1
               /\ \E lost \in Losses(Targets[m.i].p, FatalDetails(Targets[m.i].p)) :
                    LET p == Targets[m.i].p
                        details == IF lost \cap FatalDetails(p) # {} THEN {}
                                   ELSE CollectDeploymentDetails(p, cloud, Targets[m.i].loc, d, lost)
                        actions == PlanActions(p, details, opts.types)
                    IN /\ faults' = faults + Cardinality(lost)
                       /\ hidden' = (hidden \/ lost # {})
                       /\ IF opts.cmd = "show"
                          THEN /\ failures' = IF lost \cap FatalDetails(p) # {} THEN failures \cup {d} ELSE failures
                               /\ UNCHANGED <<pc, current, plan>>
                          ELSE IF actions = {}
                          THEN failures' = failures \cup {d} /\ UNCHANGED <<pc, current, plan>>
                          ELSE /\ plan' = actions /\ current' = [d |-> d, i |-> m.i]
                               /\ pc' = "act" /\ failures' = failures
    /\ UNCHANGED <<env, processes, opts, registry, scope, work, searched, index, attempt, results, exit>>

-----------------------------------------------------------------------------
(* ExecuteActions *)

Result(x, status) ==
    [r |-> x.r, status |-> status,
     slow |-> attempt + 1 >= MaxAttempts /\ \A q \in HeldBy(cloud, x.r) :
                 cloud[q] = "deleting" \/ \E y \in results : y.r = q /\ y.status = "failed"]

Record(x, status) ==
    /\ results' = results \cup {Result(x, status)}
    /\ plan' = plan \ {x} /\ attempt' = 0

\* Actions that do nothing: a dry run, or what goes with its group.
SkipAction(x) ==
    /\ pc = "act"
    /\ ~opts.execute \/ PhaseOf[x.r] = 0
    /\ Record(x, IF PhaseOf[x.r] = 0 THEN "skipped" ELSE "planned")
    /\ UNCHANGED <<env, processes, faults, opts, pc, registry, scope, work, searched, index, todo, current,
                   failures, hidden, exit>>

\* initHandlers: the handlers of a process are made once, for the location of
\* the first resource that is deleted.
initHandlers(p, loc) ==
    IF p \in DOMAIN registry /\ registry[p] = "none" THEN [registry EXCEPT ![p] = loc] ELSE registry

\* Mutant: a client that sees one region also for the resources that are in none.
ViewOneRegion(r, reg) ==
    IF cloud[r] = "gone" \/ (Info[r].p \in DOMAIN reg /\ Info[r].loc # reg[Info[r].p])
    THEN "absent"
    ELSE IF HeldBy(cloud, r) = {} THEN "free" ELSE "held"

\* What the handler's client sees.
View(r, reg) ==
    IF cloud[r] = "gone" \/ (Info[r].p \in DOMAIN reg /\ Info[r].loc \notin {reg[Info[r].p], "global"})
    THEN "absent"
    ELSE IF HeldBy(cloud, r) = {} THEN "free" ELSE "held"

Verdict(x, reg) == Handle(x.r, View(x.r, reg), attempt + 1 < MaxAttempts, pages[x.r])

\* What a delete does to the cloud.
Effect(r, verdict) ==
    /\ cloud' = CASE verdict = "deleted" -> [q \in Resources |-> IF q \in Cascade(r) THEN "gone" ELSE cloud[q]]
                  [] verdict = "terminating" -> [cloud EXCEPT ![r] = "deleting"]
                  [] OTHER -> cloud
    /\ pages' = IF pages[r] > 0 /\ verdict \in {"failed", "deleted"} THEN [pages EXCEPT ![r] = @ - 1] ELSE pages

\* A delete loop makes one attempt; in the last one, or when the answer is
\* final, the result is recorded.
DeleteAction(x) ==
    /\ pc = "act" /\ opts.execute /\ PhaseOf[x.r] # 0
    /\ registry' = initHandlers(Info[x.r].p, Targets[current.i].loc)
    /\ LET v == Verdict(x, registry')
       IN IF v = "retry"
          THEN attempt' = attempt + 1 /\ UNCHANGED <<env, plan, results>>
          ELSE /\ Effect(x.r, v) /\ temp' = temp
               /\ Record(x, IF v = "failed" THEN "failed" ELSE "success")
    /\ UNCHANGED <<processes, faults, opts, pc, scope, work, searched, index, todo, current, failures, hidden,
                   exit>>

\* A call fails.  Its effect may have come about all the same; a bucket that was
\* emptied with temporary credentials may leave them behind.
DeleteFails(x) ==
    /\ pc = "act" /\ opts.execute /\ PhaseOf[x.r] # 0
    /\ faults < MaxFaults /\ faults' = faults + 1
    /\ registry' = initHandlers(Info[x.r].p, Targets[current.i].loc)
    /\ LET v == Verdict(x, registry')
       IN \/ /\ Record(x, "failed") /\ UNCHANGED env
          \/ /\ v \in {"deleted", "terminating"}
             /\ Effect(x.r, v) /\ temp' = temp /\ Record(x, "failed")
          \/ /\ Info[x.r].type = "stackit-objectstorage-bucket" /\ pages[x.r] > 0 /\ v = "deleted"
             /\ Effect(x.r, v) /\ temp' = temp + 1 /\ Record(x, "success")
    /\ UNCHANGED <<processes, opts, pc, scope, work, searched, index, todo, current, failures, hidden, exit>>

EndDeployment ==
    /\ pc = "act" /\ plan = {}
    /\ pc' = "load"
    /\ UNCHANGED <<env, processes, faults, opts, registry, scope, work, searched, index, todo, current, plan,
                   attempt, results, failures, hidden, exit>>

\* Mutant: the command never returns after a deployment could not be processed.
EndProcessOnlyWhenClean ==
    /\ pc = "load" /\ todo = {} /\ failures = {}
    /\ exit' = IF \A x \in results : x.status # "failed" THEN "ok" ELSE "error"
    /\ pc' = "idle"
    /\ UNCHANGED <<env, processes, faults, opts, registry, scope, work, searched, index, todo, current, plan,
                   attempt, results, failures, hidden>>

\* cleanupRunOutcome
EndProcess ==
    /\ pc = "load" /\ todo = {}
    /\ exit' = IF failures = {} /\ (\A x \in results : x.status # "failed") THEN "ok" ELSE "error"
    /\ pc' = "idle"
    /\ UNCHANGED <<env, processes, faults, opts, registry, scope, work, searched, index, todo, current, plan,
                   attempt, results, failures, hidden>>

\* The cloud: an instance that was told to terminate is gone.
TerminationCompletes(r) ==
    /\ cloud[r] = "deleting"
    /\ cloud' = [cloud EXCEPT ![r] = "gone"]
    /\ UNCHANGED <<pages, temp, processes, faults, opts, pc, registry, scope, work, searched, index, todo,
                   current, plan, attempt, results, failures, hidden, exit>>

\* The resources of a phase do not hold each other: one order stands for all.
Step ==
    \/ BuildPlan \/ EndSearch \/ EndDeployment \/ EndProcess
    \/ \E i \in work : CollectLookupIndex(i)
    \/ \E d \in todo : LoadDeployment(d)
    \/ plan # {} /\ \E x \in {CHOOSE y \in actionsForPhase(plan) : TRUE} :
                        SkipAction(x) \/ DeleteAction(x) \/ DeleteFails(x)

Next ==
    \/ \E o \in Options : StartProcess(o)
    \/ Step
    \/ \E r \in Resources : TerminationCompletes(r)

Fairness == WF_vars(Step)

Spec == Init /\ [][Next]_vars /\ Fairness

-----------------------------------------------------------------------------
(* Properties *)

Executed == opts.cmd = "run" /\ opts.execute

Gone(r) == cloud[r] \in {"deleting", "gone"}

\* A resource that run reports as deleted is gone or on its way: "not found"
\* counts as success in most handlers, so that this rests on the client looking
\* where the resource is, and on no loop forgetting its last error.
ReportedSuccessTrue == \A x \in results : x.status = "success" => Gone(x.r)

\* The exit code can be relied on: after an executed run that exits with 0 and in
\* which no listing was lost, nothing is left of the deployments it processed,
\* also when an earlier run was cut short by failures.
CleanRunRemovesAll ==
    (pc = "idle" /\ Executed /\ exit = "ok" /\ opts.types = {} /\ ~hidden)
        => \A x \in results : \A r \in Resources :
              (Info[r].dep = Info[x.r].dep /\ Info[r].p = Info[x.r].p) => Gone(r)

\* What run reports can be relied on, resource by resource and as its exit code.
ReportsTrue == ReportedSuccessTrue /\ CleanRunRemovesAll

\* The order of the phases and the waiting suffice: without a failing call an
\* action fails only because the cloud is slow, for a resource the tool refuses
\* to delete, or for a bucket of more than one page.
OrderSuffices ==
    (faults = 0 /\ opts.types = {})
        => \A x \in results : x.status = "failed"
              => Info[x.r].refused \/ InitialPages[x.r] > 1 \/ (HeldBy(InitialCloud, x.r) # {} /\ x.slow)

\* The creation time of a deployment, whatever the collectors find of it: the earliest
\* that its resources and their CreatedAt tags tell.
Created(d) == LET R == {r \in Resources : Info[r].dep = d}
              IN  Earliest(Times(R) \cup {Info[r].tagTime : r \in R})

\* No creation time was found of deployment d, which then counts as old.
Undated(d) == \E m \in index : m.d = d /\ m.created = 0

\* run --all --older-than leaves a young deployment alone, "a deployment whose
\* creation time cannot be derived" excepted.  On aws and azure there is none, also
\* when calls that look up creation times fail, for they read the CreatedAt tag.
YoungKept ==
    (opts.all /\ opts.older)
        => \A x \in results :
              \/ x.status # "success"
              \/ Created(Info[x.r].dep) <= Cutoff
              \/ Undated(Info[x.r].dep) /\ Info[x.r].p \in {"exoscale", "stackit"}

\* A deployment that discover shows as orphaned has no instance, also when the
\* call that describes its instances failed; only stackit takes a failed listing
\* for an empty one.
OrphanedHasNoInstance ==
    \A m \in index : (m.state = "orphaned" /\ pc = "collect")
        => \/ hidden /\ Targets[m.i].p = "stackit"
           \/ \A r \in Resources : (Info[r].dep = m.d /\ Info[r].type \in Instances) => cloud[r] # "running"

\* A lookup that fails makes no deployment older or emptier than it is, but for the
\* providers that swallow the failure.
LostListingsHarmless == YoungKept /\ OrphanedHasNoInstance

\* A started process ends, although the cloud never finishes a termination, for every
\* loop that waits or retries is bounded.
ProcessEnds == pc # "idle" ~> pc = "idle"

-----------------------------------------------------------------------------
(* What the theorems suppose of the accounts and of the search *)

\* The handlers of aws and exoscale look in one location.
Regional == {"aws", "exoscale"}

\* One search target for each provider whose handlers look in one location.
OneLocation ==
    \A i, j \in DOMAIN Targets :
        Targets[i].p = Targets[j].p /\ Targets[i].p \in Regional => Targets[i].loc = Targets[j].loc

\* An account in which every resource is there.
Complete == [r \in Resources |-> "running"]

\* The presets label what they create: a plan without --type has an action for every
\* resource of the deployment.
Visible ==
    \A i \in DOMAIN Targets : \A r \in Resources :
        Info[r].p = Targets[i].p =>
            \E x \in PlanActions(Targets[i].p,
                        CollectDeploymentDetails(Targets[i].p, Complete, Targets[i].loc, Info[r].dep, {}), {}) :
                x.r = r

\* Only AWS ends a termination by itself, and a deployment has one resource group.
Settled ==
    /\ \A r \in Resources : InitialCloud[r] = "deleting" => Info[r].type = "ec2-instance"
    /\ \A r, q \in Resources : /\ Info[r].type = "azure-resource-group" /\ Info[q].type = "azure-resource-group"
                               /\ Info[r].dep = Info[q].dep
                               => r = q

\* A deployment is of one provider, whose presets tag its instances like the rest of it,
\* and the creation time is among the tags of aws and azure.
Recognisable ==
    /\ \A r, q \in Resources : Info[r].dep = Info[q].dep => Info[r].p = Info[q].p
    /\ \A r \in Resources : Info[r].type \in Instances =>
          /\ Info[r].tag
          /\ \A i \in DOMAIN Targets :
                Targets[i].p = Info[r].p /\ Info[r].p # "azure" => Info[r].loc = Targets[i].loc
          /\ \A q \in Resources : Info[q].dep = Info[r].dep
                => Info[q].owner = Info[r].owner /\ Info[q].project = Info[r].project
    /\ \A r \in Resources : Info[r].tag /\ Info[r].p \in {"aws", "azure"} => Info[r].tagTime # 0

=============================================================================
