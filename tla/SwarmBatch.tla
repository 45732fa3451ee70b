----------------------------- MODULE SwarmBatch -----------------------------
(***************************************************************************)
(* The swarm batch scheduler of mirri-core (subagent/swarm_batch.rs): one  *)
(* call of run_swarm_batch drives N members (subagents) to a result each.  *)
(*                                                                         *)
(* The scheduler is one task that alternates a synchronous launch loop     *)
(* (pc = "launch"), the computation of its next wake-up (pc = "arm") and   *)
(* a tokio::select! (pc = "wait").  Around it run the members' attempts,   *)
(* the users who decide on approvals, the clients that stop one member's   *)
(* task or cancel the batch, and time.                                     *)
(*                                                                         *)
(* A deadline is abstracted to whether it has passed: the durations do not *)
(* matter to the properties, their order of expiry is left open.           *)
(***************************************************************************)
EXTENDS Integers, Sequences, FiniteSets, SequencesExt

CONSTANTS
    N,                   \* the number of members of the batch
    Kind,                \* Kind[m]: "Spawn" or "Resume" (SwarmTaskKind)
    MaxConcurrency,      \* options.max_concurrency; 0 stands for None
    InitialLaunchLimit,  \* INITIAL_LAUNCH_LIMIT
    HasTimeout,          \* options.attempt_timeout is Some
    MaxRetries,          \* bound: MaxRetries[m] rate limits that member m meets
    MaxCapacity          \* bound: capacity the recovery ticks reach

Members == 1..N

ASSUME SwarmAssumption ==
    /\ N \in Nat
    /\ Kind \in [Members -> {"Spawn", "Resume"}]
    /\ MaxConcurrency \in Nat
    /\ InitialLaunchLimit \in Nat \ {0}
    /\ HasTimeout \in BOOLEAN
    /\ MaxRetries \in [Members -> Nat]
    /\ MaxCapacity \in Nat

VARIABLES
    pc,          \* where the scheduler's loop is
    pending,     \* the queue of members to launch, in order
    active,      \* attempts being polled (they hold a concurrency slot)
    inFlight,    \* members whose TaskState is in the in_flight map
    parked,      \* attempts waiting, unpolled, for a user's decision
    ready,       \* resumed attempts queueing for a slot
    results,     \* the results vector
    agent,       \* agent[m]: TaskState.agent_id is Some
    task,        \* status of the member's row in the TaskManager
    retries,     \* TaskState.retry_count
    backoff,     \* TaskState.retry_ready_at: none, or has it passed
    launches,    \* first launches so far
    rampOpen,    \* the ramp interval since the last first launch has passed
    rlCapacity,  \* RateLimitMode.capacity; 0 outside rate-limit mode
    gate,        \* RateLimitMode.launch_gate: none, or has it passed
    recoverDue,  \* the recovery interval has passed
    completed,   \* completed_count
    batchToken,  \* the batch's CancelToken has fired
    fired,       \* in-flight members whose attempt's CancelToken has fired
    cancelled,   \* the loop has observed the batch token
    expired,     \* active attempts whose deadline fired, runner still awaited
    wake         \* the deadlines the select sleeps on

queues    == <<pending, active, inFlight, parked, ready>>
identity  == <<agent, task, retries, backoff>>
pacing    == <<launches, rampOpen, rlCapacity, gate, recoverDue>>
signals   == <<batchToken, fired, cancelled>>
vars == <<pc, pending, active, inFlight, parked, ready, results, agent, task,
          retries, backoff, launches, rampOpen, rlCapacity, gate,
          recoverDue, completed, batchToken, fired, cancelled, expired,
          wake>>

Statuses == {"none", "running", "completed", "failed", "stopped"}
NoResult == [outcome |-> "none", state |-> "none"]
Result   == [outcome : {"Completed", "Failed", "Aborted"},
             state : {"Started", "NotStarted"}]
Timers   == {<<"ramp">>, <<"gate">>, <<"recovery">>}
               \cup {<<"retry", m>> : m \in Members}

TypeOK ==
    /\ pc \in {"launch", "arm", "wait", "drain", "done"}
    /\ pending \in Seq(Members) /\ ready \in Seq(Members)
    /\ active \subseteq Members /\ inFlight \subseteq Members
    /\ parked \subseteq Members /\ expired \subseteq active
    /\ results \in [Members -> Result \cup {NoResult}]
    /\ agent \in [Members -> BOOLEAN]
    /\ task \in [Members -> Statuses]
    /\ retries \in [Members -> Nat]
    /\ backoff \in [Members -> {"none", "waiting", "passed"}]
    /\ launches \in Nat /\ completed \in Nat /\ rlCapacity \in Nat
    /\ gate \in {"none", "shut", "passed"}
    /\ rampOpen \in BOOLEAN /\ recoverDue \in BOOLEAN
    /\ batchToken \in BOOLEAN /\ cancelled \in BOOLEAN
    /\ fired \subseteq Members
    /\ wake \subseteq Timers

Init ==
    /\ pc = "launch"
    /\ pending = [i \in Members |-> i]
    /\ active = {} /\ inFlight = {} /\ parked = {} /\ ready = <<>>
    /\ results = [m \in Members |-> NoResult]
    /\ agent = [m \in Members |-> FALSE]
    /\ task = [m \in Members |-> "none"]
    /\ retries = [m \in Members |-> 0]
    /\ backoff = [m \in Members |-> "none"]
    /\ launches = 0 /\ rampOpen = TRUE
    /\ rlCapacity = 0 /\ gate = "none" /\ recoverDue = FALSE
    /\ completed = 0
    /\ batchToken = FALSE /\ cancelled = FALSE
    /\ fired = {} /\ expired = {} /\ wake = {}

-----------------------------------------------------------------------------
(* An operator named "Mutant" is the definition it precedes with a         *)
(* plausible bug put in; no specification uses it.                         *)

(* Mutant: the terminal check is inverted. *)
TransitionMutantInverted(m, status) == IF task[m] = "running" THEN task[m] ELSE status

(* TaskManager::transition: the first terminal status wins. *)
Transition(m, status) == IF task[m] = "running" THEN status ELSE task[m]

(* Mutants: an off-by-one; in-flight members counted instead of the polled *)
(* ones.                                                                   *)
AtCapacityMutantOffByOne ==
    \/ MaxConcurrency > 0 /\ Cardinality(active) > MaxConcurrency
    \/ rlCapacity > 0 /\ Cardinality(active) > rlCapacity
AtCapacityMutantInFlight ==
    \/ MaxConcurrency > 0 /\ Cardinality(inFlight) >= MaxConcurrency
    \/ rlCapacity > 0 /\ Cardinality(inFlight) >= rlCapacity

(* effective_capacity: whichever of the two ceilings is tighter, if any. *)
AtCapacity ==
    \/ MaxConcurrency > 0 /\ Cardinality(active) >= MaxConcurrency
    \/ rlCapacity > 0 /\ Cardinality(active) >= rlCapacity

RateLimitGateOpen == rlCapacity = 0 \/ gate # "shut"
RampGateOpen      == launches < InitialLaunchLimit \/ rampOpen

Eligible(m) ==
    /\ RateLimitGateOpen
    /\ IF backoff[m] = "none" THEN RampGateOpen ELSE backoff[m] = "passed"

(* `pending.iter().position(..)`: the first eligible member of the queue. *)
IsPick(i) ==
    /\ i \in 1..Len(pending)
    /\ Eligible(pending[i])
    /\ \A j \in 1..(i - 1) : ~ Eligible(pending[j])

Idle == pending = <<>> /\ active = {} /\ ready = <<>> /\ parked = {}

(* Mutants: a cancel does not wait for the attempts; a cancel is no reason *)
(* to leave the loop.                                                      *)
LoopBreaksMutantEager == Idle \/ cancelled
LoopBreaksMutantDeaf  == Idle

LoopBreaks == Idle \/ (cancelled /\ active = {} /\ parked = {})

(* Lazy recovery: one more slot, and the launch gate is cleared. *)
RecoverCapacity ==
    /\ pc = "launch" /\ ~ cancelled
    /\ rlCapacity > 0 /\ recoverDue
    /\ rlCapacity' = rlCapacity + 1
    /\ recoverDue' = FALSE
    /\ gate' = "none"
    /\ UNCHANGED <<pc, queues, results, identity, launches, rampOpen,
                   completed, signals, expired, wake>>

(* The conditions under which the launch loop gets to look for a member. *)
MayLaunch == pc = "launch" /\ ~ cancelled /\ ~ (rlCapacity > 0 /\ recoverDue)
                /\ ~ AtCapacity

(* Mutant: the resumed member is not popped off its queue. *)
LaunchResumedMutantPeek ==
    /\ MayLaunch
    /\ ready # <<>>
    /\ active' = active \cup {Head(ready)}
    /\ UNCHANGED <<pc, pending, inFlight, parked, ready, results, identity, pacing,
                   completed, signals, expired, wake>>

(* A resumed member takes a free slot ahead of every queued launch. *)
LaunchResumed ==
    /\ MayLaunch
    /\ ready # <<>>
    /\ active' = active \cup {Head(ready)}
    /\ ready' = Tail(ready)
    /\ UNCHANGED <<pc, pending, inFlight, parked, results, identity, pacing,
                   completed, signals, expired, wake>>

(* host.spawn / host.resume answers with a handle.  The first launch       *)
(* registers the member's task; every launch attaches a fresh child of the *)
(* batch token and, in rate-limit mode, shuts the launch gate.             *)
Launch(i) ==
    /\ MayLaunch /\ ready = <<>>
    /\ IsPick(i)
    /\ LET m     == pending[i]
           first == backoff[m] = "none"
       IN  /\ pending' = RemoveAt(pending, i)
           /\ active' = active \cup {m}
           /\ inFlight' = inFlight \cup {m}
           /\ agent' = [agent EXCEPT ![m] = TRUE]
           /\ task' = IF first THEN [task EXCEPT ![m] = "running"] ELSE task
           /\ fired' = IF batchToken THEN fired \cup {m} ELSE fired
           /\ launches' = IF first THEN launches + 1 ELSE launches
           /\ rampOpen' = IF first THEN FALSE ELSE rampOpen
           /\ gate' = IF rlCapacity > 0 THEN "shut" ELSE gate
    /\ UNCHANGED <<pc, parked, ready, results, retries, backoff, rlCapacity,
                   recoverDue, completed, batchToken, cancelled,
                   expired, wake>>

(* Mutant: the agent of an earlier attempt is forgotten. *)
KnownAgentMutantForgets(m) == Kind[m] = "Resume"

(* The member has an agent from an earlier attempt, or names one to resume. *)
KnownAgent(m) == agent[m] \/ Kind[m] = "Resume"

(* host.spawn / host.resume answers Err: the member fails on the spot. *)
LaunchFails(i) ==
    /\ MayLaunch /\ ready = <<>>
    /\ IsPick(i)
    /\ LET m == pending[i]
       IN  /\ pending' = RemoveAt(pending, i)
           /\ results' = [results EXCEPT ![m] =
                            [outcome |-> "Failed",
                             state |-> IF KnownAgent(m) THEN "Started" ELSE "NotStarted"]]
    /\ UNCHANGED <<pc, active, inFlight, parked, ready, identity, pacing,
                   completed, signals, expired, wake>>

(* Nothing (more) may launch: leave the outer loop, or go on to wait. *)
EndLaunching ==
    /\ pc = "launch"
    /\ \/ cancelled
       \/ ~ (rlCapacity > 0 /\ recoverDue)
            /\ (AtCapacity \/ (ready = <<>> /\ ~ \E i \in 1..Len(pending) : IsPick(i)))
    /\ pc' = IF LoopBreaks THEN "drain" ELSE "arm"
    /\ UNCHANGED <<queues, results, identity, pacing, completed, signals,
                   expired, wake>>

(* The deadlines that are still ahead when the sleep is computed: one that *)
(* passed since the launch loop looked at the clock is not among them.     *)
ArmWake ==
    /\ pc = "arm"
    /\ wake' =
         {t \in Timers :
            \/ t = <<"ramp">> /\ launches >= InitialLaunchLimit /\ ~ rampOpen
            \/ t = <<"gate">> /\ gate = "shut"
            \/ t = <<"recovery">> /\ rlCapacity > 0 /\ pending # <<>> /\ ~ recoverDue
            \/ \E i \in 1..Len(pending) :
                 t = <<"retry", pending[i]>> /\ backoff[pending[i]] = "waiting"}
    /\ pc' = "wait"
    /\ UNCHANGED <<queues, results, identity, pacing, completed, signals, expired>>

-----------------------------------------------------------------------------
(* The arms of the select.  Each one takes the loop back to its launches.  *)

Settled(m, outcome, status) ==
    /\ results' = [results EXCEPT ![m] = [outcome |-> outcome, state |-> "Started"]]
    /\ task' = [task EXCEPT ![m] = Transition(m, status)]

(* Mutant: the member that just left the in_flight map is subtracted again.*)
RateLimitSeedMutantTwice(m) == completed + Cardinality(inFlight \ {m}) - 1

(* The capacity rate-limit mode starts with: the throughput that had been  *)
(* reached, at least one.                                                  *)
RateLimitSeed(m) ==
    LET seed == completed + Cardinality(inFlight \ {m})
    IN  IF seed > 1 THEN seed ELSE 1

(* settle_attempt for a rate limit that is requeued: the suspended notice, *)
(* the exponential backoff, and entering or tightening rate-limit mode     *)
(* (shrinkDue: whether the shrink interval has passed since last_shrink).  *)
Requeue(m) ==
    /\ retries[m] < MaxRetries[m]
    /\ retries' = [retries EXCEPT ![m] = @ + 1]
    /\ backoff' = [backoff EXCEPT ![m] = "waiting"]
    /\ pending' = <<m>> \o pending
    /\ IF rlCapacity = 0
       THEN rlCapacity' = RateLimitSeed(m)
       ELSE \E shrinkDue \in BOOLEAN :
              rlCapacity' = IF shrinkDue /\ rlCapacity > 1 THEN rlCapacity - 1
                                                          ELSE rlCapacity
    /\ gate' = "shut"
    /\ recoverDue' = FALSE
    /\ UNCHANGED <<results, task, completed>>

(* Mutant: the check runs as if m still were in the in_flight map. *)
OnlyUnfinishedMutantSelf(m) == pending = <<>> /\ inFlight = {}

OnlyUnfinished(m) == pending = <<>> /\ inFlight = {m}

(* An attempt's completion future resolves and is settled (settle_attempt).*)
(* The runner answers Cancelled only once its token has fired.             *)
AttemptDone(m, outcome) ==
    /\ pc = "wait"
    /\ m \in active \ expired
    /\ outcome = "Cancelled" => m \in fired
    /\ active' = active \ {m}
    /\ inFlight' = inFlight \ {m}
    /\ fired' = fired \ {m}
    /\ pc' = "launch"
    /\ \/ /\ outcome = "Completed"
          /\ completed' = completed + 1
          /\ Settled(m, "Completed", "completed")
          /\ UNCHANGED <<pending, retries, backoff, rlCapacity, gate, recoverDue>>
       \/ /\ outcome = "Failed" \/ (outcome = "RateLimited" /\ ~ cancelled /\ OnlyUnfinished(m))
          /\ Settled(m, "Failed", "failed")
          /\ UNCHANGED <<pending, retries, backoff, rlCapacity, gate, recoverDue, completed>>
       \/ /\ outcome = "Cancelled" \/ (outcome = "RateLimited" /\ cancelled)
          /\ Settled(m, "Aborted", "stopped")
          /\ UNCHANGED <<pending, retries, backoff, rlCapacity, gate, recoverDue, completed>>
       \/ /\ outcome = "RateLimited" /\ ~ cancelled /\ ~ OnlyUnfinished(m)
          /\ Requeue(m)
    /\ wake' = {}
    /\ UNCHANGED <<parked, ready, agent, launches, rampOpen, batchToken, cancelled, expired>>

(* The attempt's deadline: fire its token first, then await the runner. *)
DeadlineFires(m) ==
    /\ pc = "wait" /\ HasTimeout
    /\ m \in active \ expired
    /\ fired' = fired \cup {m}
    /\ expired' = expired \cup {m}
    /\ UNCHANGED <<pc, queues, results, identity, pacing, completed, batchToken,
                   cancelled, wake>>

(* The runner of an expired attempt ended: whatever it answers, Failed. *)
ExpiredDone(m) ==
    /\ pc = "wait"
    /\ m \in expired
    /\ active' = active \ {m}
    /\ expired' = expired \ {m}
    /\ inFlight' = inFlight \ {m}
    /\ fired' = fired \ {m}
    /\ Settled(m, "Failed", "failed")
    /\ pc' = "launch"
    /\ wake' = {}
    /\ UNCHANGED <<pending, parked, ready, agent, retries, backoff, pacing,
                   completed, batchToken, cancelled>>

(* The attempt suspends on an approval or question: its slot is freed. *)
Park(m) ==
    /\ pc = "wait"
    /\ m \in active \ expired
    /\ active' = active \ {m}
    /\ parked' = parked \cup {m}
    /\ pc' = "launch"
    /\ wake' = {}
    /\ UNCHANGED <<pending, inFlight, ready, results, identity, pacing,
                   completed, signals, expired>>

(* Mutant: the resumed member also stays parked. *)
ParkedResumesMutantKept(m) ==
    /\ pc = "wait"
    /\ m \in parked
    /\ ready' = Append(ready, m)
    /\ pc' = "launch"
    /\ wake' = {}
    /\ UNCHANGED <<pending, active, inFlight, parked, results, identity, pacing,
                   completed, signals, expired>>

(* A parked member's gate resolved (or its feed vanished). *)
ParkedResumes(m) ==
    /\ pc = "wait"
    /\ m \in parked
    /\ parked' = parked \ {m}
    /\ ready' = Append(ready, m)
    /\ pc' = "launch"
    /\ wake' = {}
    /\ UNCHANGED <<pending, active, inFlight, results, identity, pacing,
                   completed, signals, expired>>

(* A parked member's token fired: settle_parked_aborted. *)
ParkedCancelled(m) ==
    /\ pc = "wait"
    /\ m \in parked
    /\ m \in fired
    /\ parked' = parked \ {m}
    /\ inFlight' = inFlight \ {m}
    /\ fired' = fired \ {m}
    /\ Settled(m, "Aborted", "stopped")
    /\ pc' = "launch"
    /\ wake' = {}
    /\ UNCHANGED <<pending, active, ready, agent, retries, backoff, pacing,
                   completed, batchToken, cancelled, expired>>

ObserveCancel ==
    /\ pc = "wait" /\ batchToken /\ ~ cancelled
    /\ cancelled' = TRUE
    /\ pc' = "launch"
    /\ wake' = {}
    /\ UNCHANGED <<queues, results, identity, pacing, completed, batchToken,
                   fired, expired>>

Passed(t) ==
    \/ t = <<"ramp">> /\ rampOpen
    \/ t = <<"gate">> /\ gate = "passed"
    \/ t = <<"recovery">> /\ recoverDue
    \/ \E m \in Members : t = <<"retry", m>> /\ backoff[m] = "passed"

SleepEnds ==
    /\ pc = "wait"
    /\ \E t \in wake : Passed(t)
    /\ pc' = "launch"
    /\ wake' = {}
    /\ UNCHANGED <<queues, results, identity, pacing, completed, signals,
                   expired>>

(* The keepalive tick: heartbeats, and one more turn of the loop. *)
Keepalive ==
    /\ pc = "wait"
    /\ pc' = "launch"
    /\ wake' = {}
    /\ UNCHANGED <<queues, results, identity, pacing, completed, signals,
                   expired>>

(* After the loop: the members still queued, and the resumed ones without  *)
(* a slot, are aborted; their running rows are stopped.                    *)
Drain ==
    /\ pc = "drain"
    /\ LET rest == Range(pending)
           res  == Range(ready)
           started(m) == m \in res \/ agent[m]
       IN  /\ results' = [m \in Members |->
                            IF m \in rest \cup res
                            THEN [outcome |-> "Aborted",
                                  state |-> IF started(m) THEN "Started" ELSE "NotStarted"]
                            ELSE results[m]]
           /\ task' = [m \in Members |->
                         IF m \in rest \cup res /\ started(m)
                         THEN Transition(m, "stopped") ELSE task[m]]
           /\ inFlight' = inFlight \ res
           /\ fired' = fired \ res
    /\ pending' = <<>> /\ ready' = <<>>
    /\ pc' = "done"
    /\ UNCHANGED <<active, parked, agent, retries, backoff, pacing, completed,
                   batchToken, cancelled, expired, wake>>

-----------------------------------------------------------------------------
(* The batch's surroundings: clients and the clock. *)

(* The turn that owns the batch is cancelled: the token and its children. *)
CancelBatch ==
    /\ pc # "done" /\ ~ batchToken
    /\ batchToken' = TRUE
    /\ fired' = inFlight
    /\ UNCHANGED <<pc, queues, results, identity, pacing, completed, cancelled,
                   expired, wake>>

(* task.stop / task.cancel of one member's row (TaskManager::stop): the    *)
(* attached signal fires, then the status flips.                           *)
StopTask(m) ==
    /\ pc # "done"
    /\ task[m] \in {"running", "stopped"}
    /\ fired' = fired \cup ({m} \cap inFlight)
    /\ task' = [task EXCEPT ![m] = Transition(m, "stopped")]
    /\ UNCHANGED <<pc, queues, results, agent, retries, backoff, pacing,
                   completed, batchToken, cancelled, expired, wake>>

TimePasses ==
    /\ pc # "done"
    /\ \/ /\ ~ rampOpen /\ rampOpen' = TRUE
          /\ UNCHANGED <<gate, recoverDue, backoff>>
       \/ /\ gate = "shut" /\ gate' = "passed"
          /\ UNCHANGED <<rampOpen, recoverDue, backoff>>
       \/ /\ rlCapacity \in 1..(MaxCapacity - 1) /\ ~ recoverDue /\ recoverDue' = TRUE
          /\ UNCHANGED <<rampOpen, gate, backoff>>
       \/ \E m \in Members :
            /\ backoff[m] = "waiting" /\ backoff' = [backoff EXCEPT ![m] = "passed"]
            /\ UNCHANGED <<rampOpen, gate, recoverDue>>
    /\ UNCHANGED <<pc, queues, results, agent, task, retries, launches,
                   rlCapacity, completed, signals, expired, wake>>

Returned == pc = "done" /\ UNCHANGED vars

AttemptOutcomes == {"Completed", "Failed", "RateLimited", "Cancelled"}

Scheduler ==
    \/ RecoverCapacity
    \/ LaunchResumed
    \/ \E i \in 1..Len(pending) : Launch(i) \/ LaunchFails(i)
    \/ EndLaunching
    \/ ArmWake
    \/ Drain

Next ==
    \/ Scheduler
    \/ \E m \in Members : \E o \in AttemptOutcomes : AttemptDone(m, o)
    \/ \E m \in Members : DeadlineFires(m) \/ ExpiredDone(m) \/ Park(m)
                            \/ ParkedResumes(m) \/ ParkedCancelled(m)
    \/ ObserveCancel \/ SleepEnds \/ Keepalive
    \/ CancelBatch
    \/ \E m \in Members : StopTask(m)
    \/ TimePasses
    \/ Returned

Spec == Init /\ [][Next]_vars

(* Fairness.  The scheduler task is polled while it can move, and time     *)
(* passes.  tokio::select! polls its ready arms in random order, so an arm *)
(* that is ready again and again is taken: strong fairness of an attempt   *)
(* that ends, of a parked wait whose token fired, of the observed cancel   *)
(* and of the tick.  Nothing makes a user decide, park or stop anything.   *)
Fairness ==
    /\ WF_vars(Scheduler)
    /\ WF_vars(TimePasses)
    /\ SF_vars(ObserveCancel)
    /\ SF_vars(Keepalive)
    /\ \A m \in Members :
         /\ SF_vars((\E o \in AttemptOutcomes : AttemptDone(m, o)) \/ ExpiredDone(m))
         /\ SF_vars(ParkedCancelled(m))

FairSpec == Spec /\ Fairness
-----------------------------------------------------------------------------
(* Properties. *)

Unfinished == {m \in Members : results[m] = NoResult}

(* Every member is in exactly one place: once in the pending queue, active,*)
(* parked, once in the ready queue, or settled with a result; and the      *)
(* in_flight map holds exactly the launched members that are not settled.  *)
(* A member in two places would get two verdicts, one in none would make   *)
(* the final `expect("every task settles with a result")` panic.           *)
MembersAccounted ==
    /\ IsInjective(pending) /\ IsInjective(ready)
    /\ Range(pending) \cap inFlight = {}
    /\ active \cap parked = {} /\ active \cap Range(ready) = {}
    /\ parked \cap Range(ready) = {}
    /\ inFlight = active \cup parked \cup Range(ready)
    /\ Unfinished = Range(pending) \cup inFlight

(* When run_swarm_batch returns, every slot of the results vector is Some. *)
ReturnedComplete == pc = "done" => Unfinished = {}

(* A member's verdict is written once: a late settle never overwrites it.  *)
VerdictWrittenOnce ==
    [][\A m \in Members : results[m] # NoResult => results'[m] = results[m]]_vars

(* Parking frees a slot and resuming takes one back, yet the number of     *)
(* polled attempts never exceeds the configured concurrency.               *)
SlotLimit == MaxConcurrency > 0 => Cardinality(active) <= MaxConcurrency

(* The started verdict tells the truth: a member reported as not started   *)
(* never had an agent nor a task row, one reported as started has an agent *)
(* or names an agent to resume (the D-44 / D-53 tri-state cancellation).   *)
VerdictMatchesHistory ==
    \A m \in Members :
      /\ results[m].state = "NotStarted" => ~ agent[m] /\ task[m] = "none"
      /\ results[m].state = "Started" => agent[m] \/ Kind[m] = "Resume"

(* A rate-limited member is requeued only while another member is          *)
(* unfinished: the last one fails instead of spinning.                     *)
RequeueNeedsCompany ==
    [][\A m \in Members : retries'[m] # retries[m] => Unfinished # {m}]_vars

(* The TaskManager row follows the member: an unsettled launched member's  *)
(* row is running or stopped by a client, a completed verdict never sits   *)
(* on a failed row, and a settled member leaves no running row behind,     *)
(* except when the relaunch of a rate-limited member failed.               *)
RowFollowsMember ==
    \A m \in Members :
      /\ task[m] = "none" <=> ~ agent[m]
      /\ results[m] = NoResult /\ agent[m] => task[m] \in {"running", "stopped"}
      /\ results[m].outcome = "Completed" => task[m] \in {"completed", "stopped"}
      /\ results[m].outcome = "Aborted" => task[m] \in {"none", "stopped"}
      /\ results[m] # NoResult /\ task[m] = "running"
           => results[m].outcome = "Failed" /\ retries[m] > 0

(* The same without the exception: `the task list does not leak a running  *)
(* row for work that will never run` (swarm_batch.rs, the final drain).    *)
NoLeakedRow == \A m \in Members : results[m] # NoResult => task[m] # "running"

(* `the stop is REAL, not just a status flip` (task.rs, attach_signal): a  *)
(* member whose row was stopped is not launched again.                     *)
StoppedStaysStopped ==
    [][\A m \in Members : task[m] = "stopped" /\ m \notin inFlight => m \notin inFlight']_vars

(* A fired batch token is observed and the batch returns, whatever the     *)
(* members do and although no user ever answers a parked member.           *)
CancelReturns == batchToken ~> pc = "done"

(* A queued member never waits forever: an unanswered approval holds no    *)
(* slot, and a deadline that passed unseen between the launch loop and the *)
(* computation of the sleep is made up for by the keepalive tick.          *)
QueuedMemberMoves ==
    \A m \in Members : (m \in Range(pending)) ~> (m \notin Range(pending))
=============================================================================
