---------------------------- MODULE TaskRegistry ----------------------------
(***************************************************************************)
(* The TaskManager of one session (task.rs) and the commands it tracks     *)
(* (tools/bash.rs): registration under the capacity limit, the             *)
(* foreground run that detaches or times out into the background, the      *)
(* settlement of a run, stops with and without grace, session close, the   *)
(* timeout and lifetime sweepers, and a restart with the orphan census     *)
(* (orphan_sweep.rs).                                                      *)
(*                                                                         *)
(* The manager has no lock of its own: every method takes the mutexes of   *)
(* its maps one after the other, and any other thread may run in between.  *)
(* An actor (the runner of a task, or a caller from outside) therefore     *)
(* holds the steps it has yet to take, each one critical section or one    *)
(* await.  A step that calls on puts its continuation in its place, a      *)
(* step that returns early puts nothing.                                   *)
(***************************************************************************)
EXTENDS Integers, Sequences, FiniteSets, SequencesExt

CONSTANTS
    Background,      \* commands started in the background
    Foreground,      \* commands a tool call waits for
    Callers,         \* RPC handlers, TaskStop, the drivers and sweepers
    MaxRunningTasks, \* [task] maxRunningTasks, 0 for no limit
    MaxStarts,       \* bound: commands started
    MaxCalls,        \* bound: calls from outside
    MaxRestarts      \* bound: restarts of the server

Tasks == Background \cup Foreground
\* Nobody holds the lock of background_ids.
Nobody == "nobody"

ASSUME RegistryAssumption ==
    /\ IsFiniteSet(Tasks) /\ Background \cap Foreground = {}
    /\ Callers \cap Tasks = {} /\ Nobody \notin Tasks \cup Callers
    /\ MaxRunningTasks \in Nat
    /\ MaxStarts \in Nat /\ MaxCalls \in Nat /\ MaxRestarts \in Nat

VARIABLES
    row,        \* tasks: the row of each task
    archive,    \* the row as last written to disk
    signals,    \* tasks with an attached cancel signal
    fired,      \* tasks whose signal has been cancelled
    background, \* background_ids
    bgLock,     \* the registration that holds the lock of background_ids
    releases,   \* foreground_releases: tasks with an armed release
    released,   \* the reason a release was fired with, the first one wins
    events,     \* started and terminated events, in the order published
    child,      \* the operating system's process of each task
    run,        \* where the task's runner is
    todo,       \* the steps each actor has yet to take
    calls,      \* calls from outside so far
    restarts    \* restarts so far

mem == <<row, signals, background, bgLock, releases, released, events>>
vars == <<row, archive, signals, fired, background, bgLock, releases,
          released, events, child, run, todo, calls, restarts>>

Actors == Tasks \cup Callers
NoRow == [status |-> "none", detached |-> FALSE, fingerprint |-> FALSE]
Terminal(r) == r.status \in {"completed", "failed", "stopped"}
Running(t) == row[t].status = "running"

(***************************************************************************)
(* Steps.                                                                  *)
(***************************************************************************)
Do(what, t) == <<[do |-> what, t |-> t]>>
Transition(t, status) == <<[do |-> "flip", t |-> t, to |-> status]>>
Persist(t, copy) == <<[do |-> "persist", t |-> t, copy |-> copy]>>
SettleRun(t, status) == <<[do |-> "settle", t |-> t, to |-> status]>>
Stop(t) == Do("fire", t) \o Transition(t, "stopped")
StopWithGrace(t) == Do("fire", t) \o Do("check", t)
DetachForeground(t) == Do("lookup", t)

\* The same call for each of a set of tasks, in some order.
ForEach(S, call(_)) == FlattenSeq([i \in 1..Cardinality(S) |-> call(SetToSeq(S)[i])])

\* Actor a is at step `what`; it goes on with `next` before the rest.
At(a, what) == todo[a] # <<>> /\ Head(todo[a]).do = what
Task(a) == Head(todo[a]).t
GoOn(a, next) == todo' = [todo EXCEPT ![a] = next \o Tail(@)]

(***************************************************************************)
(* register_background: the lock of background_ids is taken by the         *)
(* capacity check and kept until the new id is in the set.                 *)
(***************************************************************************)
RunningBackgroundCount == Cardinality({t \in background : Running(t)})

\* MUTANT: the lock is released after the check.
AdmitMutantUnlocked(a) ==
    /\ At(a, "admit") /\ bgLock = Nobody
    /\ ~(MaxRunningTasks > 0 /\ RunningBackgroundCount >= MaxRunningTasks)
    /\ GoOn(a, Do("insert", Task(a)) \o Do("claim", Task(a)))
    /\ UNCHANGED <<row, archive, signals, fired, background, bgLock, releases,
                   released, events, child, run, calls, restarts>>

Admit(a) ==
    /\ At(a, "admit") /\ bgLock = Nobody
    /\ LET t == Task(a)
           full == MaxRunningTasks > 0 /\ RunningBackgroundCount >= MaxRunningTasks
       IN \/ /\ full
             /\ todo' = [todo EXCEPT ![a] = <<>>]
             /\ run' = [run EXCEPT ![t] = "ended"]
             /\ UNCHANGED bgLock
          \/ /\ ~full
             /\ GoOn(a, Do("insert", t) \o Do("claim", t))
             /\ bgLock' = a /\ UNCHANGED run
    /\ UNCHANGED <<row, archive, signals, fired, background, releases,
                   released, events, child, calls, restarts>>

Claim(a) ==
    /\ At(a, "claim")
    /\ background' = background \cup {Task(a)}
    /\ bgLock' = Nobody
    /\ GoOn(a, <<>>)
    /\ UNCHANGED <<row, archive, signals, fired, releases, released, events,
                   child, run, calls, restarts>>

\* The release entry lands before the row is visible.
Arm(a) ==
    /\ At(a, "arm")
    /\ releases' = releases \cup {Task(a)}
    /\ GoOn(a, <<>>)
    /\ UNCHANGED <<row, archive, signals, fired, background, bgLock, released,
                   events, child, run, calls, restarts>>

\* insert: a foreground registration publishes nothing.
Insert(a) ==
    /\ At(a, "insert")
    /\ LET t == Task(a)
           fresh == [NoRow EXCEPT !.status = "running",
                                  !.detached = t \in Background]
       IN /\ row' = [row EXCEPT ![t] = fresh]
          /\ GoOn(a, Persist(t, fresh)
                     \o (IF t \in Background THEN Do("started", t) ELSE <<>>))
    /\ UNCHANGED <<archive, signals, fired, background, bgLock, releases,
                   released, events, child, run, calls, restarts>>

(***************************************************************************)
(* detach_foreground.                                                      *)
(***************************************************************************)
Lookup(a) ==
    /\ At(a, "lookup")
    /\ GoOn(a, IF Task(a) \in releases THEN Do("convert", Task(a)) ELSE <<>>)
    /\ UNCHANGED <<mem, archive, fired, child, run, calls, restarts>>

Convert(a) ==
    /\ At(a, "convert")
    /\ LET t == Task(a)
           converted == [row[t] EXCEPT !.detached = TRUE]
       IN \/ /\ ~Running(t) \/ row[t].detached
             /\ GoOn(a, <<>>) /\ UNCHANGED row
          \/ /\ Running(t) /\ ~row[t].detached
             /\ row' = [row EXCEPT ![t] = converted]
             /\ GoOn(a, Do("back", t) \o Persist(t, converted)
                        \o Do("started", t) \o Do("resolve", t))
    /\ UNCHANGED <<archive, signals, fired, background, bgLock, releases,
                   released, events, child, run, calls, restarts>>

Back(a) ==
    /\ At(a, "back") /\ bgLock = Nobody
    /\ background' = background \cup {Task(a)}
    /\ GoOn(a, <<>>)
    /\ UNCHANGED <<row, archive, signals, fired, bgLock, releases, released,
                   events, child, run, calls, restarts>>

Fire(reason, t) == [released EXCEPT ![t] = IF @ = "none" THEN reason ELSE @]

Resolve(a) ==
    /\ At(a, "resolve")
    /\ released' = Fire("detached", Task(a))
    /\ GoOn(a, <<>>)
    /\ UNCHANGED <<row, archive, signals, fired, background, bgLock, releases,
                   events, child, run, calls, restarts>>

(***************************************************************************)
(* transition: the first terminal status wins.                             *)
(***************************************************************************)
\* MUTANT: a late settlement overwrites the terminal status.
FlipMutantLastWins(a) ==
    /\ At(a, "flip")
    /\ LET t == Task(a)
           settled == [row[t] EXCEPT !.status = Head(todo[a]).to]
       IN /\ row' = [row EXCEPT ![t] = settled]
          /\ GoOn(a, Do("unsignal", t) \o Do("unback", t) \o Do("unarm", t)
                     \o Persist(t, settled) \o Do("terminated", t))
    /\ UNCHANGED <<archive, signals, fired, background, bgLock, releases,
                   released, events, child, run, calls, restarts>>

Flip(a) ==
    /\ At(a, "flip")
    /\ LET t == Task(a)
           settled == [row[t] EXCEPT !.status = Head(todo[a]).to]
       IN \/ /\ Terminal(row[t])
             /\ GoOn(a, <<>>) /\ UNCHANGED row
          \/ /\ Running(t)
             /\ row' = [row EXCEPT ![t] = settled]
             /\ GoOn(a, Do("unsignal", t) \o Do("unback", t) \o Do("unarm", t)
                        \o Persist(t, settled) \o Do("terminated", t))
    /\ UNCHANGED <<archive, signals, fired, background, bgLock, releases,
                   released, events, child, run, calls, restarts>>

Unsignal(a) ==
    /\ At(a, "unsignal")
    /\ signals' = signals \ {Task(a)}
    /\ GoOn(a, <<>>)
    /\ UNCHANGED <<row, archive, fired, background, bgLock, releases, released,
                   events, child, run, calls, restarts>>

Unback(a) ==
    /\ At(a, "unback") /\ bgLock = Nobody
    /\ background' = background \ {Task(a)}
    /\ GoOn(a, <<>>)
    /\ UNCHANGED <<row, archive, signals, fired, bgLock, releases, released,
                   events, child, run, calls, restarts>>

Unarm(a) ==
    /\ At(a, "unarm")
    /\ releases' = releases \ {Task(a)}
    /\ released' = IF Task(a) \in releases THEN Fire("terminal", Task(a)) ELSE released
    /\ GoOn(a, <<>>)
    /\ UNCHANGED <<row, archive, signals, fired, background, bgLock, events,
                   child, run, calls, restarts>>

Publish(a) ==
    /\ At(a, "started") \/ At(a, "terminated")
    /\ events' = [events EXCEPT ![Task(a)] = Append(@, Head(todo[a]).do)]
    /\ GoOn(a, <<>>)
    /\ UNCHANGED <<row, archive, signals, fired, background, bgLock, releases,
                   released, child, run, calls, restarts>>

\* persist_task writes the copy its caller took under the lock.
PersistTask(a) ==
    /\ At(a, "persist")
    /\ archive' = [archive EXCEPT ![Task(a)] = Head(todo[a]).copy]
    /\ GoOn(a, <<>>)
    /\ UNCHANGED <<mem, fired, child, run, calls, restarts>>

\* The setters that only touch fields outside this model still take a copy of
\* the row and write it later; set_fingerprint also changes the row.
Stamp(a) ==
    /\ At(a, "stamp") \/ At(a, "fingerprint")
    /\ LET t == Task(a)
           stamped == IF At(a, "stamp") THEN row[t]
                      ELSE [row[t] EXCEPT !.fingerprint = TRUE]
       IN /\ row' = [row EXCEPT ![t] = stamped]
          /\ GoOn(a, Persist(t, stamped))
    /\ UNCHANGED <<archive, signals, fired, background, bgLock, releases,
                   released, events, child, run, calls, restarts>>

(***************************************************************************)
(* Stops.                                                                  *)
(***************************************************************************)
AttachSignal(a) ==
    /\ At(a, "attach")
    /\ signals' = signals \cup {Task(a)}
    /\ GoOn(a, <<>>)
    /\ UNCHANGED <<row, archive, fired, background, bgLock, releases, released,
                   events, child, run, calls, restarts>>

FireSignal(a) ==
    /\ At(a, "fire")
    /\ fired' = fired \cup ({Task(a)} \cap signals)
    /\ GoOn(a, <<>>)
    /\ UNCHANGED <<mem, archive, child, run, calls, restarts>>

\* stop_with_grace: without a signal the stop escalates at once.
CheckGrace(a) ==
    /\ At(a, "check")
    /\ LET t == Task(a) IN
       GoOn(a, CASE Terminal(row[t]) -> <<>>
                 [] ~Terminal(row[t]) /\ t \in signals ->
                        <<[do |-> "await", of |-> {t}]>>
                 [] OTHER -> Stop(t))
    /\ UNCHANGED <<mem, archive, fired, child, run, calls, restarts>>

\* await_settlement: everything settled, or the grace is over.
AwaitSettlement(a) ==
    /\ At(a, "await")
    /\ \/ /\ \A t \in Head(todo[a]).of : Terminal(row[t])
          /\ GoOn(a, <<>>)
       \/ /\ \E t \in Head(todo[a]).of : ~Terminal(row[t])
          /\ GoOn(a, ForEach(Head(todo[a]).of, Stop))
    /\ UNCHANGED <<mem, archive, fired, child, run, calls, restarts>>

\* stop_all_with_grace: the running tasks, then every attached signal, then
\* the two groups.
StopAllScan(a) ==
    /\ At(a, "scan")
    /\ LET running == {t \in Tasks : Running(t)} IN
       GoOn(a, IF running = {} THEN <<>>
               ELSE <<[do |-> "fireall", of |-> running]>>)
    /\ UNCHANGED <<mem, archive, fired, child, run, calls, restarts>>

StopAllFire(a) ==
    /\ At(a, "fireall")
    /\ fired' = fired \cup signals
    /\ LET signaled == Head(todo[a]).of \cap signals IN
       GoOn(a, ForEach(Head(todo[a]).of \ signaled, Stop)
               \o <<[do |-> "await", of |-> signaled]>>)
    /\ UNCHANGED <<mem, archive, child, run, calls, restarts>>

\* suppress_all_active: one copy of each running row, written one by one.
SuppressAll(a) ==
    /\ At(a, "suppress")
    /\ LET Write(t) == Persist(t, row[t]) IN
       GoOn(a, ForEach({t \in Tasks : Running(t)}, Write))
    /\ UNCHANGED <<mem, archive, fired, child, run, calls, restarts>>

(***************************************************************************)
(* Processes.                                                              *)
(***************************************************************************)
Kill(a) ==
    /\ At(a, "kill")
    /\ child' = [child EXCEPT ![Task(a)] = IF @ = "running" THEN "killed" ELSE @]
    /\ GoOn(a, <<>>)
    /\ UNCHANGED <<mem, archive, fired, run, calls, restarts>>

\* settle_background_run: the signal is sampled now.
Settle(a) ==
    /\ At(a, "settle")
    /\ LET t == Task(a) IN
       GoOn(a, IF t \in fired THEN Stop(t) ELSE Transition(t, Head(todo[a]).to))
    /\ UNCHANGED <<mem, archive, fired, child, run, calls, restarts>>

\* terminate_expired_task: the group is signalled only after its identity was
\* verified; the archive is settled from the copy the walk read.
Dispose(a) ==
    /\ At(a, "dispose")
    /\ LET t == Task(a) IN
       \/ /\ child[t] = "running"
          /\ child' = [child EXCEPT ![t] = "killed"]
          /\ GoOn(a, Persist(t, [Head(todo[a]).copy EXCEPT !.status = "stopped"]))
       \/ /\ child[t] # "running"
          /\ GoOn(a, <<>>) /\ UNCHANGED child
    /\ UNCHANGED <<mem, archive, fired, run, calls, restarts>>

Step(a) ==
    \/ Admit(a) \/ Claim(a) \/ Arm(a) \/ Insert(a)
    \/ Lookup(a) \/ Convert(a) \/ Back(a) \/ Resolve(a)
    \/ Flip(a) \/ Unsignal(a) \/ Unback(a) \/ Unarm(a) \/ Publish(a)
    \/ PersistTask(a) \/ Stamp(a) \/ AttachSignal(a) \/ FireSignal(a)
    \/ CheckGrace(a) \/ AwaitSettlement(a)
    \/ StopAllScan(a) \/ StopAllFire(a) \/ SuppressAll(a)
    \/ Kill(a) \/ Settle(a) \/ Dispose(a)

(***************************************************************************)
(* The runner of a task, between two calls.                                *)
(***************************************************************************)
Free(a, where) == todo[a] = <<>> /\ run[a] = where
Turn(t, steps, where) ==
    /\ todo' = [todo EXCEPT ![t] = steps]
    /\ run' = [run EXCEPT ![t] = where]
    /\ UNCHANGED <<mem, archive, fired, calls, restarts>>

MoreStarts == Cardinality({t \in Tasks : run[t] # "idle"}) < MaxStarts

\* spawn_background_with_signal, called by start_background_command.
StartBackground(t) ==
    /\ t \in Background /\ Free(t, "idle") /\ MoreStarts
    /\ Turn(t, Do("admit", t) \o Do("attach", t), "exec")
    /\ UNCHANGED child

StartForeground(t) ==
    /\ t \in Foreground /\ Free(t, "idle") /\ MoreStarts
    /\ Turn(t, Do("arm", t) \o Do("insert", t), "exec")
    /\ UNCHANGED child

Watching(t) == IF t \in Background THEN "background" ELSE "foreground"

\* The process starts; its fingerprint is captured if the probe finds it.
Exec(t) ==
    /\ Free(t, "exec")
    /\ child' = [child EXCEPT ![t] = "running"]
    /\ \E captured \in BOOLEAN :
          Turn(t, IF captured THEN Do("fingerprint", t) ELSE <<>>, Watching(t))

ExecFails(t) ==
    /\ Free(t, "exec")
    /\ Turn(t, IF t \in Background THEN SettleRun(t, "failed")
               ELSE Transition(t, "failed"), "ended")
    /\ UNCHANGED child

\* MUTANT: the cancelled run is settled without killing the process.
BackgroundCancelledMutantSpares(t) ==
    /\ Free(t, "background") /\ t \in fired
    /\ Turn(t, SettleRun(t, "completed"), "ended")
    /\ UNCHANGED child

\* run_external_command: the select of a background command.
BackgroundCancelled(t) ==
    /\ Free(t, "background") /\ t \in fired
    /\ Turn(t, Do("kill", t) \o SettleRun(t, "completed"), "ended")
    /\ UNCHANGED child

BackgroundTimesOut(t) ==
    /\ Free(t, "background")
    /\ Turn(t, Do("kill", t) \o SettleRun(t, "completed"), "ended")
    /\ UNCHANGED child

BackgroundFinishes(t) ==
    /\ Free(t, "background") /\ child[t] # "running"
    /\ \E status \in {"completed", "failed"} : Turn(t, SettleRun(t, status), "ended")
    /\ UNCHANGED child

\* run_foreground_tracked: the four arms of its select.
ForegroundTimesOut(t) ==
    /\ Free(t, "foreground")
    /\ Turn(t, DetachForeground(t) \o Do("attach", t), "handover")
    /\ UNCHANGED child

ForegroundCancelled(t) ==
    /\ Free(t, "foreground")
    /\ Turn(t, Do("kill", t) \o Stop(t), "ended")
    /\ UNCHANGED child

ForegroundReleased(t) ==
    /\ Free(t, "foreground") /\ released[t] # "none"
    /\ \/ /\ released[t] = "detached" /\ row[t].detached
          /\ Turn(t, Do("attach", t), "handover")
       \/ /\ ~(released[t] = "detached" /\ row[t].detached)
          /\ Turn(t, Do("kill", t) \o Stop(t), "ended")
    /\ UNCHANGED child

ForegroundFinishes(t) ==
    /\ Free(t, "foreground") /\ child[t] # "running"
    /\ Turn(t, Transition(t, "completed"), "ended")
    /\ UNCHANGED child

\* hand_over_to_background: the continuation first looks at the row.
HandOver(t) ==
    /\ Free(t, "handover")
    /\ \/ /\ Terminal(row[t])
          /\ Turn(t, Do("kill", t), "ended")
       \/ /\ ~Terminal(row[t])
          /\ Turn(t, <<>>, "continued")
    /\ UNCHANGED child

RearmedDeadline(t) ==
    /\ Free(t, "continued")
    /\ Turn(t, Do("kill", t) \o Transition(t, "failed"), "ended")
    /\ UNCHANGED child

ContinuationCancelled(t) ==
    /\ Free(t, "continued") /\ t \in fired
    /\ Turn(t, Do("kill", t) \o SettleRun(t, "completed"), "ended")
    /\ UNCHANGED child

ContinuationFinishes(t) ==
    /\ Free(t, "continued") /\ child[t] # "running"
    /\ Turn(t, SettleRun(t, "completed"), "ended")
    /\ UNCHANGED child

\* What a runner does by itself, and what only time or the turn makes it do.
Runs(t) ==
    \/ Exec(t) \/ ExecFails(t)
    \/ BackgroundCancelled(t) \/ BackgroundFinishes(t)
    \/ ForegroundReleased(t) \/ ForegroundFinishes(t)
    \/ HandOver(t) \/ ContinuationCancelled(t) \/ ContinuationFinishes(t)
Interrupted(t) ==
    \/ BackgroundTimesOut(t) \/ ForegroundTimesOut(t)
    \/ ForegroundCancelled(t) \/ RearmedDeadline(t)

\* The command ends by itself.
ChildExits(t) ==
    /\ child[t] = "running"
    /\ child' = [child EXCEPT ![t] = "exited"]
    /\ UNCHANGED <<mem, archive, fired, run, todo, calls, restarts>>

(***************************************************************************)
(* Calls from outside.                                                     *)
(***************************************************************************)
Visible(t) == row[t].status # "none"

\* load_running_process_tasks: what the census and the lifetime sweeper look at.
Candidates == {t \in Tasks : archive[t].status = "running" /\ archive[t].fingerprint}

\* task.cancel and task.stop; TaskStop, which suppresses the notification
\* first and leaves settled tasks alone; task.detach; the driver's
\* terminate_expired; a setter; and session close.
Requests ==
    {Stop(t) : t \in {u \in Tasks : Visible(u)}}
    \cup {Do("stamp", t) \o StopWithGrace(t) : t \in {u \in Tasks : Running(u)}}
    \cup {DetachForeground(t) : t \in {u \in Tasks : Visible(u)}}
    \cup {Do("fire", t) \o Transition(t, "failed") : t \in {u \in Tasks : Running(u)}}
    \cup {Do("stamp", t) : t \in {u \in Tasks : Visible(u)}}
    \cup {<<[do |-> "suppress"], [do |-> "scan"]>>}
    \cup {<<[do |-> "dispose", t |-> t, copy |-> archive[t]]>> :
            t \in Candidates}

Call(c) ==
    /\ todo[c] = <<>> /\ calls < MaxCalls
    /\ \E steps \in Requests : todo' = [todo EXCEPT ![c] = steps]
    /\ calls' = calls + 1
    /\ UNCHANGED <<mem, archive, fired, child, run, restarts>>

(***************************************************************************)
(* The server goes down and comes up again.  Processes survive it.  The    *)
(* census judges the running archives with a fingerprint: it settles those *)
(* whose process is gone and disposes of a live orphan if the policy says  *)
(* so, or it leaves an archive (report-only, or undeterminable).  Loading  *)
(* settles the running rows without a fingerprint.                         *)
(***************************************************************************)
Restart ==
    /\ restarts < MaxRestarts
    /\ restarts' = restarts + 1
    /\ \E left \in SUBSET Candidates :
          /\ archive' = [t \in Tasks |->
                IF archive[t].status = "running" /\ t \notin left
                THEN [archive[t] EXCEPT !.status = "stopped"] ELSE archive[t]]
          /\ child' = [t \in Tasks |->
                IF t \in Candidates \ left /\ child[t] = "running"
                THEN "killed" ELSE child[t]]
    /\ row' = archive'
    /\ signals' = {} /\ fired' = {} /\ background' = {} /\ releases' = {}
    /\ bgLock' = Nobody
    /\ released' = [t \in Tasks |-> "none"]
    /\ events' = [t \in Tasks |-> <<>>]
    /\ run' = [t \in Tasks |-> IF run[t] = "idle" THEN "idle" ELSE "lost"]
    /\ todo' = [a \in Actors |-> <<>>]
    /\ UNCHANGED calls

\* Every call has returned and no runner is left.
Idle ==
    /\ \A a \in Actors : todo[a] = <<>>
    /\ \A t \in Tasks : run[t] \in {"idle", "ended", "lost"}
    /\ UNCHANGED vars

Init ==
    /\ row = [t \in Tasks |-> NoRow]
    /\ archive = row
    /\ signals = {} /\ fired = {} /\ background = {} /\ releases = {}
    /\ bgLock = Nobody
    /\ released = [t \in Tasks |-> "none"]
    /\ events = [t \in Tasks |-> <<>>]
    /\ child = [t \in Tasks |-> "none"]
    /\ run = [t \in Tasks |-> "idle"]
    /\ todo = [a \in Actors |-> <<>>]
    /\ calls = 0 /\ restarts = 0

Next ==
    \/ \E a \in Actors : Step(a)
    \/ \E t \in Tasks : StartBackground(t) \/ StartForeground(t)
                        \/ Runs(t) \/ Interrupted(t) \/ ChildExits(t)
    \/ \E c \in Callers : Call(c)
    \/ Restart
    \/ Idle

Spec == Init /\ [][Next]_vars

\* Threads that hold steps go on, and a runner is polled when its token has
\* fired, its release has fired or its process is gone.  Commands need not
\* end, nobody must call, and no timeout must be configured.
FairSpec ==
    /\ Spec
    /\ \A a \in Actors : WF_vars(Step(a))
    /\ \A t \in Tasks : WF_vars(Runs(t))

-----------------------------------------------------------------------------
Statuses == {"none", "running", "completed", "failed", "stopped"}
Rows == [status : Statuses, detached : BOOLEAN, fingerprint : BOOLEAN]

TypeOK ==
    /\ row \in [Tasks -> Rows] /\ archive \in [Tasks -> Rows]
    /\ signals \subseteq Tasks /\ fired \subseteq Tasks
    /\ background \subseteq Tasks /\ releases \subseteq Tasks
    /\ bgLock \in Tasks \cup {Nobody}
    /\ released \in [Tasks -> {"none", "detached", "terminal"}]
    /\ child \in [Tasks -> {"none", "running", "exited", "killed"}]
    /\ calls \in 0..MaxCalls /\ restarts \in 0..MaxRestarts

(***************************************************************************)
(* No more background registrations run at a time than maxRunningTasks     *)
(* allows, however the registrations, settlements and detaches of other    *)
(* tasks interleave: the check of register_background cannot be overtaken  *)
(* between the count and the claim.                                        *)
(***************************************************************************)
CapacityHeld ==
    MaxRunningTasks > 0 =>
        Cardinality({t \in Background : Running(t) /\ run[t] # "lost"}) <= MaxRunningTasks

\* Nobody has a step left that concerns task t.
Quiet(t) == \A a \in Actors : \A i \in DOMAIN todo[a] :
    /\ "t" \in DOMAIN todo[a][i] => todo[a][i].t # t

(***************************************************************************)
(* Subscribers see at most one termination of a task, none before its row  *)
(* is terminal, and exactly one once everybody who ended it has returned,  *)
(* however many stops, timeouts and settlements race (transition).         *)
(***************************************************************************)
OneTermination ==
    \A t \in Tasks :
        LET seen == Cardinality({i \in DOMAIN events[t] : events[t][i] = "terminated"}) IN
        /\ seen <= 1
        /\ seen = 1 => Terminal(row[t])
        /\ run[t] # "lost" /\ Terminal(row[t]) /\ Quiet(t) => seen = 1

(***************************************************************************)
(* A command whose attached signal fired does not stay alive, and a row    *)
(* whose process is gone does not stay running, unless the server went     *)
(* down in between (run_external_command, run_foreground_tracked,          *)
(* hand_over_to_background: every path settles the row).                   *)
(***************************************************************************)
WorkEnds ==
    \A t \in Tasks :
        /\ (t \in fired) ~> (child[t] # "running" \/ run[t] = "lost")
        /\ (child[t] \in {"exited", "killed"}) ~> (Terminal(row[t]) \/ run[t] = "lost")

(***************************************************************************)
(* A terminal row has no live process under it for ever.  Claimed by       *)
(* spawn_with_signal ("actually cancels the underlying work") and by the   *)
(* check at the start of the continuation in hand_over_to_background.      *)
(***************************************************************************)
NoProcessUnderTerminalRow ==
    \A t \in Tasks : Terminal(row[t]) ~> (child[t] # "running" \/ run[t] = "lost")

(***************************************************************************)
(* The started event of a task is never published after its terminated     *)
(* event (the comment in detach_foreground).                               *)
(***************************************************************************)
StartedFirst ==
    \A t \in Tasks : \A i, j \in DOMAIN events[t] :
        events[t][i] = "terminated" /\ events[t][j] = "started" => j < i

(***************************************************************************)
(* Once everybody has returned, the archive of a settled task says so (the *)
(* reconciled status is what "a subsequent load sees").                    *)
(***************************************************************************)
ArchiveFollows ==
    \A t \in Tasks : Terminal(row[t]) /\ Quiet(t) => archive[t].status = row[t].status

=============================================================================
