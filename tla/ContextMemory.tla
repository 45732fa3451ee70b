--------------------------- MODULE ContextMemory ---------------------------
(***************************************************************************)
(* The message history of one agent (context_memory/mod.rs) under the turn *)
(* loop that feeds it (loop_engine/run_turn.rs, turn_step.rs) and the      *)
(* other writers that lock the same Arc<Mutex<ContextMemory>>: reminders,  *)
(* task notifications, undo, clear and compaction.                         *)
(*                                                                         *)
(* One action is one critical section of the mutex; the sections that make *)
(* several appends (the results of a batch, the closure of an interrupted  *)
(* turn) are spelled out as several actions during which the lock is held. *)
(*                                                                         *)
(* Positions are 1-based.  Texts are abstracted to whether there is        *)
(* anything but white space, token sums to which messages they count.      *)
(***************************************************************************)
EXTENDS Integers, Sequences, FiniteSets, SequencesExt, SeqPick

CONSTANTS
    MaxHistory,      \* max_history_messages
    MaxDeferred,     \* max_deferred_messages
    MaxCalls,        \* bound: tool calls of one step
    MaxSteps,        \* bound: steps begun
    MaxArrivals,     \* bound: messages with the user role
    MaxCompactions   \* bound: compactions applied

ASSUME MemoryAssumption ==
    /\ MaxHistory \in Nat /\ MaxDeferred \in Nat
    /\ MaxCalls \in Nat /\ MaxSteps \in Nat
    /\ MaxArrivals \in Nat /\ MaxCompactions \in Nat

Steps   == 1..MaxSteps
CallIds == Steps \X (1..MaxCalls)
NoCall  == <<0, 0>>
Origins == {"user", "injection", "hook", "marker", "summary", "none"}

Message == [role : {"user", "assistant", "tool"}, origin : Origins,
            id : Nat,                           \* order of arrival, or the step
            call : CallIds \cup {NoCall},       \* tool_call_id of a result
            calls : SUBSET CallIds,             \* tool_calls of an assistant
            content : BOOLEAN, partial : BOOLEAN,
            seq : Nat]                          \* entry_seq

VARIABLES
    pc,           \* where the turn is; "idle" or "failed" between turns
    history, openSteps, pendingIds, deferred,
    covered,      \* token_count_covered_message_count
    nextSeq,      \* next_entry_seq_counter
    step,         \* the last step begun
    dispatched,   \* tool calls dispatched in this step
    recorded,     \* results recorded in this step
    snapshot,     \* pending_snapshot: the history a compaction began with
    planned,      \* the length of the prefix handed to its summarizer
    arrivals, compactions,
    counted,      \* history: the entries whose tokens token_count includes
    lastSent,     \* history: the messages of the last request to the model
    rejected,     \* history: a message was refused at a ceiling
    abandoned     \* history: a step failed and was left open

loop == <<pc, step, dispatched, recorded>>
memory == <<history, openSteps, pendingIds, deferred, covered, nextSeq>>
compaction == <<snapshot, planned, compactions>>
ghosts == <<counted, lastSent, abandoned>>
vars == <<loop, memory, compaction, arrivals, ghosts, rejected>>

TypeOK ==
    /\ pc \in {"idle", "failed", "hooked", "prompt", "blocked", "before", "llm", "content",
               "tools", "results", "inject", "end", "after", "closing", "auto",
               "manual"}
    /\ history \in Seq(Message) /\ deferred \in Seq(Message)
    /\ DOMAIN openSteps \subseteq Steps
    /\ \A s \in DOMAIN openSteps : openSteps[s] \in Nat \ {0}
    /\ pendingIds \subseteq CallIds
    /\ covered \in Nat /\ nextSeq \in Nat
    /\ step \in 0..MaxSteps
    /\ dispatched \in 0..MaxCalls /\ recorded \in 0..dispatched
    /\ snapshot \in Seq(Message) /\ planned \in 0..Len(snapshot)
    /\ arrivals \in 0..MaxArrivals /\ compactions \in 0..MaxCompactions
    /\ counted \subseteq Nat /\ lastSent \in Seq(Message)
    /\ rejected \in BOOLEAN /\ abandoned \in BOOLEAN

Init ==
    /\ pc = "idle" /\ step = 0 /\ dispatched = 0 /\ recorded = 0
    /\ history = <<>> /\ openSteps = <<>> /\ pendingIds = {} /\ deferred = <<>>
    /\ covered = 0 /\ nextSeq = 0
    /\ snapshot = <<>> /\ planned = 0
    /\ arrivals = 0 /\ compactions = 0
    /\ counted = {} /\ lastSent = <<>> /\ rejected = FALSE /\ abandoned = FALSE

-----------------------------------------------------------------------------
(* Messages and the append primitives. *)

User(origin) ==
    [role |-> "user", origin |-> origin, id |-> arrivals + 1, call |-> NoCall,
     calls |-> {}, content |-> TRUE, partial |-> FALSE, seq |-> 0]
Assistant(s) ==
    [role |-> "assistant", origin |-> "none", id |-> s, call |-> NoCall,
     calls |-> {}, content |-> FALSE, partial |-> TRUE, seq |-> 0]
Result(c) ==
    [role |-> "tool", origin |-> "none", id |-> 0, call |-> c,
     calls |-> {}, content |-> TRUE, partial |-> FALSE, seq |-> 0]

Smaller(a, b) == IF a < b THEN a ELSE b

(* push_history, once or in a row: a message takes the next entry number;  *)
(* at the ceiling the rest is refused and takes none.                      *)
Fitting(base, msgs) ==
    IF Len(base) >= MaxHistory THEN 0 ELSE Smaller(Len(msgs), MaxHistory - Len(base))
NumberedMutantSame(msgs, k) == [i \in 1..k |-> [msgs[i] EXCEPT !.seq = nextSeq]]
Numbered(msgs, k) == [i \in 1..k |-> [msgs[i] EXCEPT !.seq = nextSeq + (i - 1)]]
Push(base, msgs) ==
    LET k == Fitting(base, msgs)
    IN  /\ history' = base \o Numbered(msgs, k)
        /\ nextSeq' = nextSeq + k
        /\ rejected' = (rejected \/ k < Len(msgs))

(* append_message: deferred while a tool exchange is open. *)
AppendMessageMutantSpills(m) ==
    IF pendingIds # {} /\ Len(deferred) < MaxDeferred
    THEN deferred' = Append(deferred, m) /\ UNCHANGED <<history, nextSeq, rejected>>
    ELSE Push(history, <<m>>) /\ UNCHANGED deferred
AppendMessage(m) ==
    IF pendingIds # {}
    THEN /\ deferred' = IF Len(deferred) < MaxDeferred THEN Append(deferred, m) ELSE deferred
         /\ rejected' = (rejected \/ Len(deferred) >= MaxDeferred)
         /\ UNCHANGED <<history, nextSeq>>
    ELSE Push(history, <<m>>) /\ UNCHANGED deferred

AppendUser(origin) ==
    /\ arrivals < MaxArrivals
    /\ arrivals' = arrivals + 1
    /\ AppendMessage(User(origin))
    /\ UNCHANGED <<openSteps, pendingIds, covered, compaction, ghosts>>

(* A step of the turn that leaves the memory alone. *)
Move(from, to) ==
    /\ pc \in from /\ pc' \in to
    /\ UNCHANGED <<step, dispatched, recorded, memory, compaction, arrivals, ghosts, rejected>>

(* LoopEvent::ToolResult: dropped unless awaited; the last one of the      *)
(* exchange lets the deferred messages in behind it.                       *)
RecordToolResultMutantAll(c) ==
    /\ Push(history, <<Result(c)>> \o deferred)
    /\ pendingIds' = {} /\ deferred' = <<>>
RecordToolResult(c) ==
    IF c \notin pendingIds
    THEN UNCHANGED <<history, nextSeq, rejected, pendingIds, deferred>>
    ELSE LET closes == pendingIds = {c}
         IN  /\ Push(history, <<Result(c)>> \o (IF closes THEN deferred ELSE <<>>))
             /\ pendingIds' = pendingIds \ {c}
             /\ deferred' = IF closes THEN <<>> ELSE deferred

Vacuous(m) == m.calls = {} /\ ~ m.content
EntriesOf(h, from, to) == {h[i].seq : i \in from..to}

(* LoopEvent::StepEnd: a vacuous assistant is removed, any other is sealed;*)
(* then the coverage point moves to the step's position.                   *)
Sealed(i) == [history EXCEPT ![i].partial = FALSE]
SettleMutantOffByOne(i) == IF Vacuous(history[i]) THEN RemoveAt(history, i - 1) ELSE Sealed(i)
Settle(i) == IF Vacuous(history[i]) THEN RemoveAt(history, i) ELSE Sealed(i)
StepEnd(s, usage) ==
    LET isOpen == s \in DOMAIN openSteps
        i      == openSteps[s]
        base   == IF isOpen /\ i <= Len(history) THEN Settle(i) ELSE history
        cover  == IF isOpen THEN Smaller(i, Len(base)) ELSE Len(base)
    IN  /\ openSteps' = [t \in DOMAIN openSteps \ {s} |-> openSteps[t]]
        /\ counted' = IF usage THEN EntriesOf(base, 1, cover)
                      ELSE counted \cup EntriesOf(base, covered + 1, cover)
        /\ covered' = cover
        /\ Push(base, IF pendingIds = {} THEN deferred ELSE <<>>)
        /\ deferred' = IF pendingIds = {} THEN <<>> ELSE deferred

(* The coverage point is drawn back when the history got shorter. *)
RetractedMutantKept(h) == covered
RetractedMutantReset(h) == IF covered > Len(h) THEN 0 ELSE covered
Retracted(h) == Smaller(covered, Len(h))

-----------------------------------------------------------------------------
(* The turn (run_one_turn, run_turn, execute_loop_step, finalize_step). *)

Between == pc \in {"idle", "failed"}

(* What a prompt hook has to say goes in ahead of the prompt: the result   *)
(* it renders, then its additional context.                                *)
HookResult ==
    /\ Between /\ pc' = "hooked"
    /\ AppendUser("hook")
    /\ UNCHANGED <<step, dispatched, recorded>>

HookContext ==
    /\ Between \/ pc = "hooked"
    /\ pc' = "prompt"
    /\ AppendUser("hook")
    /\ UNCHANGED <<step, dispatched, recorded>>

Prompt ==
    /\ Between \/ pc \in {"hooked", "prompt"}
    /\ pc' \in {"before", "blocked"}
    /\ AppendUser("user")
    /\ UNCHANGED <<step, dispatched, recorded>>

(* A hook that blocks the prompt answers in the model's place. *)
Blocked ==
    /\ pc = "blocked" /\ pc' = "idle"
    /\ AppendMessage([Assistant(0) EXCEPT !.origin = "hook", !.content = TRUE, !.partial = FALSE])
    /\ UNCHANGED <<step, dispatched, recorded, openSteps, pendingIds, covered, compaction,
                   arrivals, ghosts>>

(* The retry of a failed turn: its prompt is in the history already. *)
RetryTurn == Move({"failed"}, {"before"})

(* Steers are flushed at the step boundaries. *)
Steer == pc \in {"before", "after"} /\ AppendUser("user") /\ UNCHANGED loop

(* What the projection keeps: a partial assistant is dropped from it. *)
Whole(m) == ~ m.partial
Sent == Pick(history, {m \in Range(history) : Whole(m)})

(* The request is built, then StepBegin.  (Its call of                     *)
(* close_pending_tool_results finds nothing: QuietBetweenSteps.)           *)
BeginStep ==
    /\ pc = "before" /\ pc' = "llm"
    /\ step < MaxSteps
    /\ step' = step + 1
    /\ lastSent' = Sent
    /\ Push(history, <<Assistant(step + 1)>>)
    /\ openSteps' = IF Len(history) < MaxHistory
                    THEN [t \in DOMAIN openSteps \cup {step + 1} |->
                            IF t = step + 1 THEN Len(history) + 1 ELSE openSteps[t]]
                    ELSE openSteps
    /\ UNCHANGED <<dispatched, recorded, pendingIds, deferred, covered, compaction, arrivals,
                   counted, abandoned>>

(* The request fails, or the answer is empty: the step is tried again, or  *)
(* the turn fails.  Nothing closes the step that was begun.                *)
StepFails ==
    /\ pc = "llm" /\ pc' \in {"before", "failed"}
    /\ abandoned' = (abandoned \/ step \in DOMAIN openSteps)
    /\ UNCHANGED <<step, dispatched, recorded, memory, compaction, arrivals, counted,
                   lastSent, rejected>>

(* close_empty_response_turn leaves a reminder in front of the next turn. *)
EmptyAnswer ==
    /\ pc = "llm" /\ pc' = "failed"
    /\ arrivals < MaxArrivals /\ arrivals' = arrivals + 1
    /\ AppendMessage(User("injection"))
    /\ abandoned' = (abandoned \/ step \in DOMAIN openSteps)
    /\ UNCHANGED <<step, dispatched, recorded, openSteps, pendingIds, covered, compaction,
                   counted, lastSent>>

(* The answer's text and thinking, if any, are recorded. *)
StepIsStored == step \in DOMAIN openSteps /\ openSteps[step] <= Len(history)
Answer(hasText) ==
    /\ pc = "llm" /\ pc' = "content"
    /\ history' = IF hasText /\ StepIsStored
                  THEN [history EXCEPT ![openSteps[step]].content = TRUE]
                  ELSE history
    /\ UNCHANGED <<openSteps, pendingIds, deferred, covered, nextSeq, step, dispatched,
                   recorded, compaction, arrivals, ghosts, rejected>>

(* A tool batch follows, or none. *)
ToTools == dispatched = 0 /\ Move({"content"}, {"tools"})
NoTools == Move({"content"}, {"end"})

(* LoopEvent::ToolCall for the next call of the batch: the id is awaited   *)
(* even if the step's message is gone.                                     *)
NextCall == <<step, dispatched + 1>>
WithCall(c) ==
    IF StepIsStored THEN [history EXCEPT ![openSteps[step]].calls = @ \cup {c}] ELSE history

Dispatch ==
    /\ pc = "tools" /\ dispatched < MaxCalls
    /\ dispatched' = dispatched + 1
    /\ history' = WithCall(NextCall)
    /\ pendingIds' = pendingIds \cup {NextCall}
    /\ UNCHANGED <<pc, openSteps, deferred, covered, nextSeq, step, recorded, compaction,
                   arrivals, ghosts, rejected>>

(* The model stopped before tool execution: a call and its result at once  *)
(* (nothing is awaited then, so nothing is deferred either).               *)
Unexecuted ==
    /\ pc = "content" /\ pc' \in {"content", "end"}
    /\ dispatched < MaxCalls
    /\ dispatched' = dispatched + 1 /\ recorded' = recorded + 1
    /\ Push(WithCall(NextCall), <<Result(NextCall)>>)
    /\ UNCHANGED <<openSteps, pendingIds, deferred, covered, step, compaction, arrivals,
                   ghosts>>

(* The batch is done; its results are recorded under one lock.  A result   *)
(* may carry an injection, which is appended right behind it.              *)
BatchDone == dispatched > 0 /\ Move({"tools"}, {"results"})

RecordResultMutantBound ==
    /\ pc = "results" /\ recorded <= dispatched /\ pc' = "results"
    /\ recorded' = recorded + 1
    /\ RecordToolResult(<<step, recorded + 1>>)
    /\ UNCHANGED <<openSteps, covered, step, dispatched, compaction, arrivals, ghosts>>
RecordResult ==
    /\ pc = "results" /\ recorded < dispatched
    /\ recorded' = recorded + 1
    /\ RecordToolResult(<<step, recorded + 1>>)
    /\ pc' \in {"results"} \cup (IF arrivals < MaxArrivals THEN {"inject"} ELSE {})
    /\ UNCHANGED <<openSteps, covered, step, dispatched, compaction, arrivals, ghosts>>

Inject ==
    /\ pc = "inject" /\ pc' = "results"
    /\ AppendUser("injection")
    /\ UNCHANGED <<step, dispatched, recorded>>

ResultsDone == recorded = dispatched /\ Move({"results"}, {"end"})

EndStep ==
    /\ pc = "end" /\ pc' = "after"
    /\ \E usage \in BOOLEAN : StepEnd(step, usage)
    /\ dispatched' = 0 /\ recorded' = 0
    /\ UNCHANGED <<step, pendingIds, compaction, arrivals, lastSent,
                   abandoned>>

(* The next step, or the end of the turn (a stop, an error, the maximum of *)
(* steps, a blocking hook).                                                *)
Continue == Move({"after"}, {"before", "idle"})
GiveUp   == Move({"before"}, {"idle"})

-----------------------------------------------------------------------------
(* Interruptions: a cancel or the abort guard at their check points, and   *)
(* the stall watchdog, which drops the turn at any await.                  *)

Locked == pc \in {"results", "inject", "closing"}

Interrupt ==
    /\ ~ Locked /\ ~ Between /\ pc # "manual" /\ pc' = "closing"
    /\ dispatched' = 0 /\ recorded' = 0
    /\ snapshot' = <<>> /\ planned' = 0
    /\ UNCHANGED <<step, memory, compactions, arrivals, ghosts, rejected>>

(* close_interrupted: a result for every awaited call, in any order ... *)
CloseResult(c) ==
    /\ pc = "closing" /\ c \in pendingIds
    /\ RecordToolResult(c)
    /\ UNCHANGED <<loop, openSteps, covered, compaction, arrivals, ghosts>>

(* ... then a StepEnd without usage for every open step, in the order of   *)
(* the HashMap's keys, which is any order.                                 *)
CloseStep(s) ==
    /\ pc = "closing" /\ pendingIds = {} /\ s \in DOMAIN openSteps
    /\ StepEnd(s, FALSE)
    /\ UNCHANGED <<loop, pendingIds, compaction, arrivals, lastSent, abandoned>>

ClosedMutantEarly == DOMAIN openSteps = {} /\ Move({"closing"}, {"idle"})
Closed == pendingIds = {} /\ DOMAIN openSteps = {} /\ Move({"closing"}, {"idle"})

-----------------------------------------------------------------------------
(* The other writers, which ask for the lock at any time. *)

(* A reminder or a task notification. *)
Deliver == ~ Locked /\ AppendUser("injection") /\ UNCHANGED loop

(* compute_undo_cut: the count-th real user input from the end, not beyond *)
(* a compaction.                                                           *)
Anchors ==
    {i \in 1..Len(history) :
       /\ history[i].origin = "user"
       /\ \A j \in (i + 1)..Len(history) : history[j].origin # "summary"}
IsUndoCut(cut, count) ==
    /\ cut \in Anchors
    /\ Cardinality({i \in Anchors : i >= cut}) = count

(* undo_count.  The handler of session.undo does not ask whether a turn is *)
(* running.  Hook messages left at the head go too.                        *)
UndoneTo(cut) ==
    \E lead \in 0..(cut - 1) :
      /\ \A i \in 1..lead : history[i].origin = "hook"
      /\ lead < cut - 1 => history[lead + 1].origin # "hook"
      /\ history' = SubSeq(history, lead + 1, cut - 1)
DropExchangeMutantDeferred == pendingIds' = {} /\ UNCHANGED deferred
DropExchange == pendingIds' = {} /\ deferred' = <<>>
Undo(cut, count) ==
    /\ ~ Locked
    /\ IsUndoCut(cut, count)
    /\ UndoneTo(cut) /\ DropExchange
    /\ openSteps' = [t \in {s \in DOMAIN openSteps : openSteps[s] < cut} |-> openSteps[t]]
    /\ covered' = Retracted(history')
    /\ counted' = IF covered > Len(history') THEN EntriesOf(history', 1, Len(history'))
                                             ELSE counted
    /\ lastSent' = <<>>
    /\ UNCHANGED <<loop, nextSeq, compaction, arrivals, rejected, abandoned>>

Clear ==
    /\ ~ Locked
    /\ history' = <<>> /\ openSteps' = <<>> /\ DropExchange
    /\ covered' = 0 /\ nextSeq' = 0
    /\ counted' = {} /\ lastSent' = <<>> /\ abandoned' = FALSE
    /\ UNCHANGED <<loop, compaction, arrivals, rejected>>

(* Swarm-mode exit retracts its reminder while that is the newest message. *)
PopReminder ==
    /\ ~ Locked
    /\ history # <<>> /\ Last(history).origin = "injection"
    /\ history' = Front(history)
    /\ covered' = Retracted(history')
    /\ lastSent' = <<>>
    /\ UNCHANGED <<openSteps, pendingIds, deferred, nextSeq, loop, compaction, arrivals,
                   counted, abandoned, rejected>>

-----------------------------------------------------------------------------
(* Compaction: between turns on request, before a step by itself.  The     *)
(* summarizer is a request to the model; the lock is not held meanwhile.   *)

(* can_split_after: where the compacted prefix may end. *)
CanSplitAfter(i) ==
    /\ i \in 1..Len(history)
    /\ history[i].role # "user"
    /\ history[i].role = "assistant" => history[i].calls = {}
    /\ i < Len(history) => history[i + 1].role # "tool"
    /\ history[i].role = "tool" =>
         \A a \in 1..(i - 1) :
           (\A j \in (a + 1)..i : history[j].role = "tool") /\ history[a].role = "assistant"
             => Cardinality(history[a].calls) <= i - a

BeginCompaction(last) ==
    /\ \/ Between /\ pc' = "manual"
       \/ pc = "before" /\ pc' = "auto"
    /\ compactions < MaxCompactions /\ compactions' = compactions + 1
    /\ CanSplitAfter(last)
    /\ snapshot' = history /\ planned' = last
    /\ UNCHANGED <<step, dispatched, recorded, memory, arrivals, ghosts, rejected>>

(* prefix_race_check: the snapshot still stands, with nothing but real     *)
(* user input behind it.  Entry numbers are not compared.                  *)
SameMessage(m, n) == [m EXCEPT !.seq = 0] = [n EXCEPT !.seq = 0]
PrefixRaceCheckMutantAppends ==
    /\ Len(history) >= Len(snapshot)
    /\ \A i \in 1..Len(snapshot) : SameMessage(snapshot[i], history[i])
PrefixRaceCheck ==
    /\ Len(history) >= Len(snapshot)
    /\ \A i \in 1..Len(snapshot) : SameMessage(snapshot[i], history[i])
    /\ \A i \in (Len(snapshot) + 1)..Len(history) : history[i].origin = "user"

(* The cut is made anew in the live history; the same history is cut at    *)
(* the same place.                                                         *)
LiveCut(last) == CanSplitAfter(last) /\ (Len(history) = Len(snapshot) => last = planned)

RoundOver ==
    /\ pc' = IF pc = "manual" THEN "idle" ELSE "before"
    /\ snapshot' = <<>> /\ planned' = 0
    /\ UNCHANGED <<step, dispatched, recorded, compactions, arrivals, rejected>>

(* select_head_user_messages keeps the first of these, within a budget. *)
RealInput(prefix) == Pick(prefix, {m \in Range(prefix) : m.origin = "user"})

(* apply_compaction: the oldest user messages, a marker if some were left  *)
(* out, the summary, and the tail as it was.  The markers are the only new *)
(* entries.                                                                *)
ApplyCompaction(last, kept) ==
    /\ pc \in {"auto", "manual"}
    /\ PrefixRaceCheck /\ LiveCut(last)
    /\ LET users  == RealInput(SubSeq(history, 1, last))
           elided == kept < Len(users)
           new(origin, n) == [User(origin) EXCEPT !.id = 0, !.seq = n]
           notes  == IF elided THEN <<new("marker", nextSeq), new("summary", nextSeq + 1)>>
                               ELSE <<new("summary", nextSeq)>>
       IN  /\ kept \in 0..Len(users)
           /\ history' = SubSeq(users, 1, kept) \o notes \o SubSeq(history, last + 1, Len(history))
           /\ nextSeq' = nextSeq + Len(notes)
    /\ openSteps' = <<>> /\ DropExchange
    /\ covered' = Len(history')
    /\ counted' = EntriesOf(history', 1, Len(history'))
    /\ lastSent' = <<>> /\ abandoned' = FALSE
    /\ RoundOver

(* The history diverged, no cut is left, or the summary is not smaller. *)
RefuseCompaction ==
    /\ pc \in {"auto", "manual"}
    /\ RoundOver
    /\ UNCHANGED <<memory, ghosts>>

(* The summarizer fails or is cancelled; before a step that fails the turn.*)
LoseCompaction ==
    /\ pc \in {"auto", "manual"}
    /\ pc' = IF pc = "manual" THEN "idle" ELSE "failed"
    /\ snapshot' = <<>> /\ planned' = 0
    /\ UNCHANGED <<step, dispatched, recorded, memory, compactions, arrivals, ghosts, rejected>>

Turn ==
    \/ HookResult \/ HookContext \/ Prompt \/ Blocked \/ RetryTurn \/ Steer
    \/ BeginStep \/ StepFails \/ EmptyAnswer
    \/ \E hasText \in BOOLEAN : Answer(hasText)
    \/ ToTools \/ NoTools \/ Dispatch \/ Unexecuted \/ BatchDone \/ RecordResult \/ Inject
    \/ ResultsDone \/ EndStep \/ Continue \/ GiveUp
    \/ Interrupt \/ Closed
    \/ \E c \in CallIds : CloseResult(c)
    \/ \E s \in Steps : CloseStep(s)

Others ==
    \/ Deliver \/ Clear \/ PopReminder
    \/ \E cut, count \in 1..Len(history) : Undo(cut, count)
    \/ \E last \in 1..Len(history) : BeginCompaction(last)
    \/ \E last \in 1..Len(history) : \E kept \in 0..last : ApplyCompaction(last, kept)
    \/ RefuseCompaction \/ LoseCompaction

Next == Turn \/ Others

Spec == Init /\ [][Next]_vars

-----------------------------------------------------------------------------
(* Properties. *)

(* "any history-shortening path that misses the coverage counter would     *)
(* otherwise panic" (token_count_with_pending): none does.                 *)
CoveredInRange == covered <= Len(history)

(* Session-cumulative numbering (ADR-007): no two entries of the history   *)
(* share a number, the counter is beyond them all, and 0 is only ever at   *)
(* the head (the assertion of replaced_entry_range), through removals,     *)
(* compaction, undo and clear.                                             *)
EntryNumbersUnique ==
    /\ \A i, j \in 1..Len(history) : history[i].seq = history[j].seq => i = j
    /\ \A i \in 1..Len(history) : history[i].seq < nextSeq
    /\ \A i \in 2..Len(history) : history[i].seq > 0

(* A message is deferred only while an exchange is open: none is left      *)
(* behind in the buffer with nothing to flush it.                          *)
DeferredOnlyWhileOpen == deferred # <<>> => pendingIds # {}

(* Outside a tool batch and its closure nothing is awaited, so the next    *)
(* prompt is not deferred and StepBegin finds no exchange to close ("the   *)
(* invariant guarantees this never happens live").                         *)
QuietBetweenSteps ==
    pc \notin {"tools", "results", "inject", "closing"} => pendingIds = {}

(* As long as no ceiling refused a message, a call without its result is   *)
(* still awaited: every exchange is closed in the end, by the batch or by  *)
(* the closure of the turn, whatever undo, clear and compaction remove.    *)
Resolved(c) == \E j \in 1..Len(history) : history[j].call = c
UnresolvedIsAwaited ==
    ~ rejected =>
      \A i \in 1..Len(history) : \A c \in history[i].calls : Resolved(c) \/ c \in pendingIds

(* Messages keep their order of arrival, deferred ones included, also      *)
(* through compaction and undo.                                            *)
Arrived(m) == m.role = "user" /\ m.id > 0
InArrivalOrder ==
    LET all == history \o deferred
    IN  \A i, j \in 1..Len(all) : i < j /\ Arrived(all[i]) /\ Arrived(all[j]) => all[i].id < all[j].id

(* "How many messages token_count covers": a message behind the coverage   *)
(* point, which is estimated on top, is not in token_count already, unless *)
(* a failed step was left open.                                            *)
NoMessageCountedTwice ==
    ~ abandoned => \A i \in (covered + 1)..Len(history) : history[i].seq \notin counted

(* "the next request is a pure extension of what the model already saw"    *)
(* (close_interrupted): unless the history was rewritten in between (undo, *)
(* clear, compaction, a retracted reminder), a request begins with the     *)
(* whole previous one.                                                     *)
RequestsExtend == [][pc = "before" /\ pc' = "llm" => IsPrefix(lastSent, lastSent')]_vars

(* "applying it would silently drop the divergent content" (prefix race):  *)
(* whatever an applied compaction takes out of the history was in the      *)
(* prefix handed to its summarizer, also if reminders, undo or clear came  *)
(* in between.                                                             *)
Entries(h) == {h[i].seq : i \in 1..Len(h)}
Applied == snapshot # <<>> /\ snapshot' = <<>> /\ history' # history
SummaryCoversDropped ==
    [][Applied => Entries(history) \ Entries(history') \subseteq EntriesOf(snapshot, 1, planned)]_vars

(* "StepEnd with zero usage seals a step that carried delivered output     *)
(* (its content survives projection)" (close_interrupted): after the       *)
(* closure of an interrupted turn no assistant with content or calls is    *)
(* still partial.                                                          *)
ClosureSeals ==
    pc = "closing" /\ pendingIds = {} /\ DOMAIN openSteps = {}
      => \A i \in 1..Len(history) : history[i].partial => Vacuous(history[i])
=============================================================================
