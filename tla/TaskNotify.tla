------------------------------ MODULE TaskNotify ------------------------------
(***************************************************************************)
(* How the end of a background task reaches the agent that started it, and *)
(* how a message sent while a turn runs does: the per-session task driver, *)
(* the turn's steer buffer and the journal that both are rebuilt from.     *)
(*                                                                         *)
(* The driver has no list of what it announced.  It scans the context and  *)
(* the steer buffer, and the task rows carry a delivery marker.  A message *)
(* moves between the buffer, a turn's local variable, the journal and the  *)
(* context one await or one lock at a time, and the driver's tick, the     *)
(* client's requests, an undo and a crash fall in between.                 *)
(*                                                                         *)
(* One main agent is modelled.  pending and replayed are what the reducer  *)
(* makes of the journal: steer_pending and the context's messages.         *)
(***************************************************************************)
EXTENDS Naturals, Sequences, FiniteSets, SequencesExt, SeqPick

CONSTANTS
    Tasks,          \* tasks registered in the background
    UserMsgs,       \* messages the user sends
    None,
    MaxSteps,       \* bound: steps that use tools, over all turns
    MaxFaults,      \* bound: all of the next five together
    MaxCrashes, MaxAborts, MaxDefers, MaxUndos, MaxCompactions

Msgs == Tasks \cup UserMsgs

ASSUME NotifyAssumption ==
    /\ Tasks \cap UserMsgs = {} /\ None \notin Msgs
    /\ IsFiniteSet(Msgs)
    /\ MaxSteps \in Nat /\ MaxFaults \in Nat /\ MaxCrashes \in Nat /\ MaxAborts \in Nat
    /\ MaxDefers \in Nat /\ MaxUndos \in Nat /\ MaxCompactions \in Nat

VARIABLES
    row,            \* the task rows; every setter persists the row it leaves
    pending,        \* journal: steers not yet consumed by a flush marker
    replayed,       \* journal: the messages of the context
    memory,         \* the live context: users' messages and notifications
    buffer,         \* the live steer buffer
    turn,           \* the turn that holds the flow's mutex
    driver,         \* the task driver, and the resume that precedes it
    sent,           \* the client's request for each user message
    crashes, aborts, defers, undos, compactions,
    unseen          \* history: tasks the scans lost sight of

counters == <<crashes, aborts, defers, undos, compactions>>
journal == <<pending, replayed>>
vars == <<row, journal, memory, buffer, turn, driver, sent, counters, unseen>>

TurnPcs == {"idle", "before", "marker", "rows", "append", "step",
            "stop", "repark", "stopmarker", "stoprows", "stopsteer", "stoppush"}
DriverPcs == {"restore", "rappend", "rmark", "sleep", "sweep", "due", "probe",
              "park", "push", "wake", "wakemark", "deliver", "mark", "launch", "running"}

TypeOK ==
    /\ row \in [Tasks -> [done : BOOLEAN, suppressed : BOOLEAN, delivered : BOOLEAN]]
    /\ pending \in Seq(Msgs) /\ replayed \in Seq(Msgs)
    /\ memory \in Seq(Msgs) /\ buffer \in Seq(Msgs)
    /\ turn \in [pc : TurnPcs, owner : {"none", "user", "driver"},
                 steps : 0..MaxSteps, taken : Seq(Msgs), written : Nat]
    /\ turn.written <= Len(turn.taken)
    /\ driver \in [pc : DriverPcs, seen : SUBSET Tasks, due : SUBSET Tasks,
                   cur : Tasks \cup {None}, queue : Seq(Tasks)]
    /\ sent \in [UserMsgs -> {"no", "steering", "launching", "yes"}]
    /\ crashes \in 0..MaxCrashes /\ aborts \in 0..MaxAborts /\ defers \in 0..MaxDefers
    /\ undos \in 0..MaxUndos /\ compactions \in 0..MaxCompactions
    /\ unseen \subseteq Tasks

\* Only the bound on steps outlives a turn.
NoTurn(steps) == [pc |-> "idle", owner |-> "none", steps |-> steps, taken |-> <<>>,
                  written |-> 0]
Asleep == [pc |-> "sleep", seen |-> {}, due |-> {}, cur |-> None, queue |-> <<>>]

Init ==
    /\ row = [t \in Tasks |-> [done |-> FALSE, suppressed |-> FALSE, delivered |-> FALSE]]
    /\ pending = <<>> /\ replayed = <<>> /\ memory = <<>> /\ buffer = <<>>
    /\ turn = NoTurn(0) /\ driver = Asleep
    /\ sent = [m \in UserMsgs |-> "no"]
    /\ crashes = 0 /\ aborts = 0 /\ defers = 0 /\ undos = 0 /\ compactions = 0
    /\ unseen = {}

MoreFaults == crashes + aborts + defers + undos + compactions < MaxFaults

IsUser(m) == m \in UserMsgs
\* delivered_keys of a context, parked_keys of a buffer.
Keys(s) == Range(s) \cap Tasks
is_notification_candidate(t) == row[t].done /\ ~row[t].suppressed
due_notificationsMutantUnparked(seen, parked) ==
    {t \in Tasks : is_notification_candidate(t) /\ ~row[t].delivered /\ t \notin seen}
due_notifications(seen, parked) ==
    {t \in Tasks : is_notification_candidate(t) /\ ~row[t].delivered /\ t \notin seen \cup parked}
Stranded == buffer # <<>> /\ ~\E m \in Range(buffer) : IsUser(m)
\* The reducer's fold of turn.steer_flushed: first in, first out, clamped.
SteerFlushed(n) == pending' = SubSeq(pending, 1 + (IF n > Len(pending) THEN Len(pending) ELSE n),
                                     Len(pending))
MarkDelivered(t) == row' = [row EXCEPT ![t].delivered = TRUE]
Resuming == driver.pc \in {"restore", "rappend", "rmark"}

(***************************************************************************)
(* Tasks: the end of one, and the tool calls that answer for it.           *)
(***************************************************************************)
TaskEnds(t) ==
    /\ ~row[t].done
    /\ row' = [row EXCEPT ![t].done = TRUE]
    /\ UNCHANGED <<journal, memory, buffer, turn, driver, sent, counters, unseen>>

\* TaskOutput of a settled task.
TaskOutput(t) ==
    /\ turn.pc = "step" /\ row[t].done /\ ~row[t].suppressed
    /\ row' = [row EXCEPT ![t].suppressed = TRUE]
    /\ UNCHANGED <<journal, memory, buffer, turn, driver, sent, counters, unseen>>

\* TaskStop of a running one: suppressed first, then stopped.
TaskStop(t) ==
    /\ turn.pc = "step" /\ ~row[t].done
    /\ row' = [row EXCEPT ![t].suppressed = TRUE, ![t].done = TRUE]
    /\ UNCHANGED <<journal, memory, buffer, turn, driver, sent, counters, unseen>>

\* Requests of clients between the record and the push.
Steering == {m \in UserMsgs : sent[m] = "steering"}

\* Recorded in the journal as steers, not yet in the buffer.
Unpushed ==
    Steering
        \cup (IF driver.pc = "push" THEN {driver.cur} ELSE {})
        \cup (IF turn.pc \in {"stopsteer", "stoppush"} THEN Keys(turn.taken) ELSE {})

\* Pushed while another writer is between its record and its push: the
\* buffer's order need not be the journal's.
Crossed(pushed, others) == IF others THEN pushed ELSE {}

(***************************************************************************)
(* message.steer: parked while a turn holds the flow, a turn of its own    *)
(* otherwise.  The record comes first either way.                          *)
(***************************************************************************)
SteerRecord(m) ==
    /\ ~Resuming /\ sent[m] = "no" /\ turn.pc # "idle"
    /\ pending' = Append(pending, m)
    /\ sent' = [sent EXCEPT ![m] = "steering"]
    /\ UNCHANGED <<row, replayed, memory, buffer, turn, driver, counters, unseen>>

SteerPush(m) ==
    /\ sent[m] = "steering"
    /\ buffer' = Append(buffer, m)
    /\ sent' = [sent EXCEPT ![m] = "yes"]
    /\ UNCHANGED <<row, journal, memory, turn, driver, counters, unseen>>

LaunchRecord(m) ==
    /\ ~Resuming /\ sent[m] = "no" /\ turn.pc = "idle"
    /\ replayed' = Append(replayed, m)
    /\ sent' = [sent EXCEPT ![m] = "launching"]
    /\ UNCHANGED <<row, pending, memory, buffer, turn, driver, counters, unseen>>

\* run_engine_turn blocks on the flow's mutex; the prompt enters the context.
StartTurn(owner, m) ==
    /\ turn.pc = "idle"
    /\ turn' = [turn EXCEPT !.pc = "before", !.owner = owner]
    /\ memory' = Append(memory, m)

LaunchTurn(m) ==
    /\ sent[m] = "launching" /\ StartTurn("user", m)
    /\ sent' = [sent EXCEPT ![m] = "yes"]
    /\ UNCHANGED <<row, journal, buffer, driver, counters, unseen>>

(***************************************************************************)
(* The turn: before_step flushes the buffer into the context, the marker   *)
(* first, then a row for each message, then the context.  The stop hook    *)
(* flushes the users' messages only and leaves the notifications parked.   *)
(***************************************************************************)
TurnUnchanged == UNCHANGED <<row, driver, sent, counters, unseen>>

\* The compaction before the flush keeps what the user said; the driver may
\* hold a recorded notification that the context does not have yet.
Compact ==
    /\ turn.pc = "before" /\ MoreFaults /\ compactions < MaxCompactions
    /\ compactions' = compactions + 1
    /\ memory' = Pick(memory, UserMsgs)
    /\ replayed' = Pick(replayed, UserMsgs \cup (Tasks \ Range(memory)))
    /\ UNCHANGED <<row, pending, buffer, turn, driver, sent, crashes, aborts, defers, undos,
                   unseen>>

FlushTake ==
    /\ turn.pc = "before"
    /\ buffer' = <<>>
    /\ turn' = [turn EXCEPT !.pc = IF buffer = <<>> THEN "step" ELSE "marker", !.taken = buffer]
    /\ UNCHANGED <<journal, memory>> /\ TurnUnchanged

FlushMarker ==
    /\ turn.pc = "marker" /\ SteerFlushed(Len(turn.taken))
    /\ turn' = [turn EXCEPT !.pc = "rows"]
    /\ UNCHANGED <<replayed, memory, buffer>> /\ TurnUnchanged

\* record_steer_flush, one row at a time.
FlushRow ==
    /\ turn.pc = "rows"
    /\ replayed' = Append(replayed, turn.taken[turn.written + 1])
    /\ turn' = [turn EXCEPT !.written = @ + 1,
                            !.pc = IF turn.written + 1 = Len(turn.taken) THEN "append" ELSE @]
    /\ UNCHANGED <<pending, memory, buffer>> /\ TurnUnchanged

FlushAppendMutantNoReset ==
    /\ turn.pc = "append"
    /\ memory' = memory \o turn.taken
    /\ turn' = [turn EXCEPT !.pc = "step", !.taken = <<>>]
    /\ UNCHANGED <<journal, buffer>> /\ TurnUnchanged

FlushAppend ==
    /\ turn.pc = "append"
    /\ memory' = memory \o turn.taken
    /\ turn' = [turn EXCEPT !.pc = "step", !.taken = <<>>, !.written = 0]
    /\ UNCHANGED <<journal, buffer>> /\ TurnUnchanged

\* A step ends in tool calls, and another follows, or in a terminal stop.
StepDone ==
    /\ turn.pc = "step"
    /\ \/ turn.steps < MaxSteps /\ turn' = [turn EXCEPT !.pc = "before", !.steps = @ + 1]
       \/ turn' = [turn EXCEPT !.pc = "stop"]
    /\ UNCHANGED <<journal, memory, buffer>> /\ TurnUnchanged

StopTake ==
    /\ turn.pc = "stop"
    /\ buffer' = <<>>
    /\ turn' = [turn EXCEPT !.pc = IF \E m \in Range(buffer) : IsUser(m) THEN "stopmarker"
                                   ELSE "repark",
                            !.taken = buffer]
    /\ UNCHANGED <<journal, memory>> /\ TurnUnchanged

\* Nothing to flush: the notifications go back under a second lock, and the
\* goal or a Stop hook may still continue the turn.
StopRepark ==
    /\ turn.pc = "repark"
    /\ buffer' = buffer \o turn.taken
    /\ \/ turn' = NoTurn(turn.steps)
       \/ turn.steps < MaxSteps
          /\ turn' = [turn EXCEPT !.pc = "before", !.steps = @ + 1, !.taken = <<>>]
    /\ UNCHANGED <<journal, memory>> /\ TurnUnchanged

Notifications(s) == Pick(s, Tasks)
UserSteers(s) == Pick(s, UserMsgs)

StopMarkerMutantFlushedOnly ==
    /\ turn.pc = "stopmarker" /\ SteerFlushed(Len(UserSteers(turn.taken)))
    /\ turn' = [turn EXCEPT !.pc = "stoprows"]
    /\ UNCHANGED <<replayed, memory, buffer>> /\ TurnUnchanged

StopMarker ==
    /\ turn.pc = "stopmarker" /\ SteerFlushed(Len(turn.taken))
    /\ turn' = [turn EXCEPT !.pc = "stoprows"]
    /\ UNCHANGED <<replayed, memory, buffer>> /\ TurnUnchanged

StopRow ==
    /\ turn.pc = "stoprows"
    /\ LET rows == UserSteers(turn.taken)
           last == turn.written + 1 = Len(rows)
       IN  /\ replayed' = Append(replayed, rows[turn.written + 1])
           /\ turn' = [turn EXCEPT !.written = IF last THEN 0 ELSE @ + 1,
                                   !.pc = IF last THEN "stopsteer" ELSE @]
    /\ UNCHANGED <<pending, memory, buffer>> /\ TurnUnchanged

\* Each notification that stays parked gets a fresh turn.steer record.
StopSteer ==
    /\ turn.pc = "stopsteer"
    /\ LET parked == Notifications(turn.taken)
       IN  \/ /\ turn.written = Len(parked)
              /\ turn' = [turn EXCEPT !.pc = "stoppush"] /\ UNCHANGED pending
           \/ /\ turn.written < Len(parked)
              /\ pending' = Append(pending, parked[turn.written + 1])
              /\ turn' = [turn EXCEPT !.written = @ + 1]
    /\ UNCHANGED <<replayed, memory, buffer>> /\ TurnUnchanged

StopPush ==
    /\ turn.pc = "stoppush"
    /\ buffer' = buffer \o Notifications(turn.taken)
    /\ memory' = memory \o UserSteers(turn.taken)
    /\ unseen' = unseen \cup Crossed(Keys(turn.taken), driver.pc = "push" \/ Steering # {})
    /\ turn' = [turn EXCEPT !.pc = "before", !.taken = <<>>, !.written = 0]
    /\ UNCHANGED <<row, journal, driver, sent, counters>>

\* Cancelled, failed or out of steps: the stop hook does not run.
TurnAborted ==
    /\ turn.pc \in {"before", "step"} /\ MoreFaults /\ aborts < MaxAborts
    /\ aborts' = aborts + 1
    /\ turn' = NoTurn(turn.steps)
    /\ UNCHANGED <<row, journal, memory, buffer, driver, sent, crashes, defers, undos,
                   compactions, unseen>>

(***************************************************************************)
(* The driver's tick: the scans of the context and of the buffer, the      *)
(* busy probe, then parking, or the wakeup and a turn per notification.    *)
(* A tick with nothing to do, or under a paused goal, changes nothing.     *)
(***************************************************************************)
DriverUnchanged == UNCHANGED <<turn, sent, counters>>

TickScan ==
    /\ driver.pc = "sleep"
    /\ Stranded \/ \E t \in Tasks : is_notification_candidate(t)
    /\ driver' = [driver EXCEPT !.pc = "sweep", !.seen = Keys(memory)]
    /\ UNCHANGED <<row, journal, memory, buffer, unseen>> /\ DriverUnchanged

\* sweep_mark_delivered, after the context's lock is released.
TickSweep ==
    /\ driver.pc = "sweep"
    /\ row' = [t \in Tasks |-> IF is_notification_candidate(t) /\ t \in driver.seen
                               THEN [row[t] EXCEPT !.delivered = TRUE] ELSE row[t]]
    /\ driver' = [driver EXCEPT !.pc = "due"]
    /\ UNCHANGED <<journal, memory, buffer, unseen>> /\ DriverUnchanged

TickDue ==
    /\ driver.pc = "due"
    /\ LET due == due_notifications(driver.seen, Keys(buffer))
       IN  /\ driver' = IF due = {} /\ ~Stranded THEN Asleep
                        ELSE [Asleep EXCEPT !.pc = "probe", !.due = due]
           /\ unseen' = unseen \cup (due \cap (Keys(turn.taken) \cup Keys(memory)))
    /\ UNCHANGED <<row, journal, memory, buffer>> /\ DriverUnchanged

TickProbe ==
    /\ driver.pc = "probe"
    /\ driver' = IF turn.pc = "idle" THEN [driver EXCEPT !.pc = "wake"]
                 ELSE IF driver.due = {} THEN Asleep ELSE [driver EXCEPT !.pc = "park"]
    /\ UNCHANGED <<row, journal, memory, buffer, unseen>> /\ DriverUnchanged

\* No provider: the debt is kept whole for a later tick.
TickDefer ==
    /\ driver.pc = "wake" /\ MoreFaults /\ defers < MaxDefers
    /\ defers' = defers + 1
    /\ driver' = Asleep
    /\ UNCHANGED <<row, journal, memory, buffer, turn, sent, crashes, aborts, undos,
                   compactions, unseen>>

ParkRecord ==
    /\ driver.pc = "park"
    /\ \E t \in driver.due :
        /\ pending' = Append(pending, t)
        /\ driver' = [driver EXCEPT !.pc = "push", !.cur = t, !.due = @ \ {t}]
    /\ UNCHANGED <<row, replayed, memory, buffer, unseen>> /\ DriverUnchanged

ParkPushMutantMarks ==
    /\ driver.pc = "push"
    /\ buffer' = Append(buffer, driver.cur)
    /\ unseen' = unseen \cup Crossed({driver.cur}, Steering # {})
    /\ MarkDelivered(driver.cur)
    /\ driver' = IF driver.due = {} THEN Asleep ELSE [driver EXCEPT !.pc = "park", !.cur = None]
    /\ UNCHANGED <<journal, memory>> /\ DriverUnchanged

ParkPush ==
    /\ driver.pc = "push"
    /\ buffer' = Append(buffer, driver.cur)
    /\ unseen' = unseen \cup Crossed({driver.cur}, Steering # {})
    /\ driver' = IF driver.due = {} THEN Asleep ELSE [driver EXCEPT !.pc = "park", !.cur = None]
    /\ UNCHANGED <<row, journal, memory>> /\ DriverUnchanged

WakeMutantNever ==
    /\ driver.pc = "wake"
    /\ driver' = [driver EXCEPT !.pc = "deliver"]
    /\ UNCHANGED <<row, journal, memory, buffer, unseen>> /\ DriverUnchanged

\* The buffer is taken only if it holds nothing but notifications.
Wake ==
    /\ driver.pc = "wake"
    /\ IF Stranded
       THEN /\ driver' = [driver EXCEPT !.pc = "wakemark", !.queue = buffer]
            /\ buffer' = <<>>
       ELSE /\ driver' = [driver EXCEPT !.pc = "deliver"]
            /\ UNCHANGED buffer
    /\ UNCHANGED <<row, journal, memory, unseen>> /\ DriverUnchanged

WakeMark ==
    /\ driver.pc = "wakemark" /\ SteerFlushed(Len(driver.queue))
    /\ driver' = [driver EXCEPT !.pc = "deliver"]
    /\ UNCHANGED <<row, replayed, memory, buffer, unseen>> /\ DriverUnchanged

\* run_notification_turn: the record, the marker, the turn; the parked first.
DeliverRecord ==
    /\ driver.pc = "deliver"
    /\ \/ /\ driver.queue # <<>>
          /\ replayed' = Append(replayed, Head(driver.queue))
          /\ driver' = [driver EXCEPT !.pc = "mark", !.cur = Head(driver.queue),
                                      !.queue = Tail(@)]
       \/ /\ driver.queue = <<>>
          /\ \E t \in driver.due :
                /\ replayed' = Append(replayed, t)
                /\ driver' = [driver EXCEPT !.pc = "mark", !.cur = t, !.due = @ \ {t}]
    /\ UNCHANGED <<row, pending, memory, buffer, unseen>> /\ DriverUnchanged

DeliverMark ==
    /\ driver.pc = "mark" /\ MarkDelivered(driver.cur)
    /\ driver' = [driver EXCEPT !.pc = "launch"]
    /\ UNCHANGED <<journal, memory, buffer, unseen>> /\ DriverUnchanged

DeliverTurn ==
    /\ driver.pc = "launch" /\ StartTurn("driver", driver.cur)
    /\ driver' = [driver EXCEPT !.pc = "running", !.cur = None]
    /\ UNCHANGED <<row, journal, buffer, sent, counters, unseen>>

\* The turn ran inline: its end, and the end of the tick.
DeliverNext ==
    /\ driver.pc = "running" /\ turn.owner # "driver"
    /\ driver' = [driver EXCEPT !.pc = "deliver"]
    /\ UNCHANGED <<row, journal, memory, buffer, unseen>> /\ DriverUnchanged

TickEnds ==
    /\ driver.pc = "deliver" /\ driver.queue = <<>> /\ driver.due = {}
    /\ driver' = Asleep
    /\ UNCHANGED <<row, journal, memory, buffer, unseen>> /\ DriverUnchanged

(***************************************************************************)
(* session.undo of one message: nothing is recorded, no turn is waited     *)
(* for.  The markers it clears are those of the notifications before the   *)
(* longest common suffix of the old and the new context, which the omitted *)
(* assistant messages decide: at least the removed ones.                   *)
(***************************************************************************)
Undo ==
    /\ ~Resuming /\ MoreFaults /\ undos < MaxUndos /\ undos' = undos + 1
    /\ \E i \in DOMAIN memory :
        /\ IsUser(memory[i]) /\ \A j \in (i+1)..Len(memory) : ~IsUser(memory[j])
        /\ memory' = SubSeq(memory, 1, i - 1)
        /\ LET removed == Keys(SubSeq(memory, i, Len(memory)))
           IN  \E cleared \in SUBSET Keys(memory) :
                 /\ removed \subseteq cleared
                 /\ row' = [t \in Tasks |-> IF t \in cleared
                                THEN [row[t] EXCEPT !.delivered = FALSE] ELSE row[t]]
                 /\ unseen' = unseen \cup removed
    /\ UNCHANGED <<journal, buffer, turn, driver, sent, crashes, aborts, defers, compactions>>

(***************************************************************************)
(* A crash, and the resume: the context and the buffer from the journal,   *)
(* the tasks that ran as stopped; then restore_task_notifications, one     *)
(* task at a time, before the driver is spawned.                           *)
(***************************************************************************)
Crash ==
    /\ MoreFaults /\ crashes < MaxCrashes /\ crashes' = crashes + 1
    /\ memory' = replayed /\ buffer' = pending
    /\ row' = [t \in Tasks |-> [row[t] EXCEPT !.done = TRUE]]
    /\ sent' = [m \in UserMsgs |-> IF sent[m] = "no" THEN "no" ELSE "yes"]
    /\ turn' = NoTurn(turn.steps)
    /\ driver' = [Asleep EXCEPT !.pc = "restore"]
    /\ UNCHANGED <<journal, aborts, defers, undos, compactions, unseen>>

RestoreRecord ==
    /\ driver.pc = "restore"
    /\ \E t \in due_notifications(Keys(memory), Keys(buffer)) :
        /\ replayed' = Append(replayed, t)
        /\ driver' = [driver EXCEPT !.pc = "rappend", !.cur = t]
    /\ UNCHANGED <<row, pending, memory, buffer, unseen>> /\ DriverUnchanged

RestoreAppend ==
    /\ driver.pc = "rappend"
    /\ memory' = Append(memory, driver.cur)
    /\ driver' = [driver EXCEPT !.pc = "rmark"]
    /\ UNCHANGED <<row, journal, buffer, unseen>> /\ DriverUnchanged

RestoreMark ==
    /\ driver.pc = "rmark" /\ MarkDelivered(driver.cur)
    /\ driver' = [driver EXCEPT !.pc = "restore", !.cur = None]
    /\ UNCHANGED <<journal, memory, buffer, unseen>> /\ DriverUnchanged

RestoreEnds ==
    /\ driver.pc = "restore" /\ due_notifications(Keys(memory), Keys(buffer)) = {}
    /\ driver' = Asleep
    /\ UNCHANGED <<row, journal, memory, buffer, unseen>> /\ DriverUnchanged

TurnNext ==
    \/ FlushTake \/ FlushMarker \/ FlushRow \/ FlushAppend \/ StepDone
    \/ StopTake \/ StopRepark \/ StopMarker \/ StopRow \/ StopSteer \/ StopPush

DriverNext ==
    \/ TickScan \/ TickSweep \/ TickDue \/ TickProbe \/ ParkRecord \/ ParkPush
    \/ Wake \/ WakeMark \/ DeliverRecord \/ DeliverMark \/ DeliverTurn
    \/ DeliverNext \/ TickEnds
    \/ RestoreRecord \/ RestoreAppend \/ RestoreMark \/ RestoreEnds

Next ==
    \/ \E t \in Tasks : TaskEnds(t) \/ TaskOutput(t) \/ TaskStop(t)
    \/ \E m \in UserMsgs : SteerRecord(m) \/ SteerPush(m) \/ LaunchRecord(m) \/ LaunchTurn(m)
    \/ TurnNext \/ Compact \/ TurnAborted
    \/ DriverNext \/ TickDefer
    \/ Undo \/ Crash

Spec == Init /\ [][Next]_vars

\* The driver's task and the turn's thread run on; a request that was begun
\* is finished.  Nothing makes a task end, a user write or the engine crash.
FairSpec ==
    /\ Spec /\ WF_vars(TurnNext) /\ WF_vars(DriverNext)
    /\ \A m \in UserMsgs : WF_vars(SteerPush(m)) /\ WF_vars(LaunchTurn(m))

------------------------------------------------------------------------------
Count(t, s) == Cardinality({i \in DOMAIN s : s[i] = t})

\* A task's notification stands twice in the context, or in the journal's,
\* only if the scans lost sight of it: a tick fell between a flush's take and
\* its append or between its own two scans, an undo removed it from a context
\* that the journal keeps, or two pushes crossed.  No crash, park, wakeup or
\* restore adds a second copy, and a compaction folds the first away before
\* another can come (deliver_due_notifications, restore_task_notifications).
RepeatsOnlyUnseen ==
    \A t \in Tasks \ unseen : Count(t, memory) <= 1 /\ Count(t, replayed) <= 1

\* A task carries the delivery marker only when its notification is in the
\* journal, and in the agent's context or about to open its turn, so that no
\* crash and no rebuilt context loses it (mark_notification_delivered).  Only a
\* compaction folds it away, or an undo between the scan and the sweep.
MarkedIsSeen ==
    compactions = 0 /\ undos = 0 =>
        \A t \in Tasks : row[t].delivered =>
            /\ t \in Keys(replayed)
            /\ t \in Keys(memory) \/ (driver.pc = "launch" /\ driver.cur = t)

\* The flush markers consume exactly what was parked: the journal's queue has
\* one record for each message in the buffer, held by a flush that has not
\* recorded its marker yet, or recorded and not pushed, so that the reducer's
\* clamp is never needed (turn.steer, turn.steer_flushed).
PendingBalances ==
    Len(pending) =
        Len(buffer)
        + (IF turn.pc \in {"marker", "stopmarker", "repark"} THEN Len(turn.taken) ELSE 0)
        + (IF turn.pc \in {"stopsteer", "stoppush"} THEN turn.written ELSE 0)
        + (IF driver.pc = "wakemark" THEN Len(driver.queue) ELSE 0)
        + (IF driver.pc = "push" THEN 1 ELSE 0)
        + Cardinality(Steering)

Announced(t) == row[t].suppressed \/ row[t].delivered \/ t \in Keys(memory)

\* Every task that ended is announced, unless its notification waits in the
\* buffer behind a message of the user's for the next turn to flush both
\* (the idle wakeup of deliver_due_notifications).
BehindSteer(t) == turn.pc = "idle" /\ t \in Keys(buffer) /\ \E m \in Range(buffer) : IsUser(m)
DebtSettles == \A t \in Tasks : row[t].done ~> (Announced(t) \/ BehindSteer(t))

\* A task's notification reaches the context at most once (delivered_keys,
\* "The context is the single source of truth").
AnnouncedOnce == \A t \in Tasks : Count(t, memory) <= 1

\* Once a tool result has answered for a task, no notification of it reaches
\* the context (suppress_terminal_notification).
SuppressedStaysSilent ==
    [][\A t \in Tasks : row[t].suppressed => Count(t, memory') <= Count(t, memory)]_vars

\* A message of the user's that was accepted is in the context or parked,
\* whenever no turn runs and no resume is under way (the resume's re-park).
SteerNotSwallowed ==
    turn.pc = "idle" /\ ~Resuming =>
        \A m \in UserMsgs : sent[m] = "yes" => m \in Range(memory) \cup Range(buffer)

\* What a resume would park is what is parked, whenever nobody is between a
\* record and its push (should_continue_after_stop, "live = replay").
ReparksLiveSet ==
    turn.pc = "idle" /\ driver.pc = "sleep" /\ Unpushed = {} =>
        Range(pending) = Range(buffer)

\* Every task that ended is announced (task_driver, "nothing strands").
NothingStrands == \A t \in Tasks : row[t].done ~> Announced(t)

=============================================================================
