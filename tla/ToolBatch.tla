----------------------------- MODULE ToolBatch -----------------------------
(***************************************************************************)
(* One batch of tool calls, as mirri-core runs it: every call of a model   *)
(* response is prepared in provider order (tool_registry/execution.rs),    *)
(* the calls that are ready are executed by the conflict-aware scheduler   *)
(* (tool_registry/scheduler.rs, tool.rs), every result goes through the    *)
(* finalize hook, and the results are put back in provider order           *)
(* (loop_engine/tool_call_batch.rs).                                       *)
(*                                                                         *)
(* A path is the sequence of its components between slashes: "/a/b" is     *)
(* <<"", "a", "b">>, and a trailing slash leaves a last empty component.   *)
(***************************************************************************)
EXTENDS Integers, Sequences, FiniteSets, SequencesExt

CONSTANTS
    N,      \* the number of tool calls of the batch
    Id,     \* Id[c]: the tool_call_id the provider gave to call c
    Names,  \* the path components; "" is the empty one
    Lower,  \* Lower[n]: str::to_lowercase of a component
    Plans,  \* the execution plans a tool may resolve to
    Places  \* the places of the file system the properties look at

Calls  == 1..N
NoPath == <<>>

Access == [kind : {"All", "File", "Search"},
           path : Seq(Names),
           operation : {"Read", "Write", "ReadWrite"}]

ASSUME BatchAssumption ==
    /\ N \in Nat
    /\ "" \in Names
    /\ Lower \in [Names -> Names]
    /\ \A n \in Names : Lower[n] = "" <=> n = ""
    /\ \A p \in Plans : p.accesses \subseteq Access /\ p.stop \in BOOLEAN
    /\ \A x \in Places : /\ x \in Seq(Names) /\ x # <<>>
                         /\ \A i \in 2..Len(x) : x[i] # ""

VARIABLES
    pc,       \* where the pipeline is
    next,     \* the call being prepared
    fate,     \* what the preparation made of each call
    plan,     \* the execution plan of each call that resolved to one
    cancel,   \* the turn's CancelToken has fired
    pending,  \* ready calls the scheduler has not started
    held,     \* still_pending of the scan under way
    active,   \* calls being executed
    stopped,  \* batch_stopped
    result,   \* the result of each call, before and after finalizing
    out,      \* the finalized results, grouped by category
    sorted    \* the results in provider order

prep  == <<next, fate, plan>>
sched == <<pending, held, active, stopped>>
vars  == <<pc, next, fate, plan, cancel, pending, held, active, stopped, result,
           out, sorted>>

NoPlan  == [accesses |-> {}, stop |-> FALSE]
Fates   == {"none", "authorizing", "blocked", "synthetic", "ready"}
Results == {"none", "error", "output", "panic", "skipped", "unstarted"}

TypeOK ==
    /\ pc \in {"prepare", "early", "scan", "serial", "wait", "late", "sort", "done"}
    /\ next \in 1..(N + 1)
    /\ fate \in [Calls -> Fates]
    /\ plan \in [Calls -> Plans \cup {NoPlan}]
    /\ cancel \in BOOLEAN /\ stopped \in BOOLEAN
    /\ pending \in Seq(Calls) /\ held \in Seq(Calls)
    /\ active \subseteq Calls
    /\ result \in [Calls -> Results]
    /\ out \in Seq(Calls) /\ sorted \in Seq(Calls)

Init ==
    /\ pc = "prepare" /\ next = 1
    /\ fate = [c \in Calls |-> "none"]
    /\ plan = [c \in Calls |-> NoPlan]
    /\ cancel = FALSE
    /\ pending = <<>> /\ held = <<>> /\ active = {} /\ stopped = FALSE
    /\ result = [c \in Calls |-> "none"]
    /\ out = <<>> /\ sorted = <<>>

-----------------------------------------------------------------------------
(* Conflicts between declared accesses (tool.rs). *)

(* to_lowercase, then trim_end_matches('/'). *)
Trimmed(p) ==
    LET k == CHOOSE k \in 1..Len(p) :
               /\ \A i \in (k + 1)..Len(p) : p[i] = ""
               /\ k > 1 => p[k] # ""
    IN  [i \in 1..k |-> Lower[p[i]]]

(* `a.starts_with("{b}/")`: b's components, then at least one more. *)
StartsWithDir(a, b) == Len(b) < Len(a) /\ \A i \in 1..Len(b) : a[i] = b[i]

(* A definition named "Mutant" is the next one with a plausible bug put    *)
(* in; no specification uses it.  Mutant: only one of the two directions.  *)
paths_overlapMutantOneWay(p, q) ==
    LET a == Trimmed(p)
        b == Trimmed(q)
    IN  a = b \/ StartsWithDir(a, b)

paths_overlap(p, q) ==
    LET a == Trimmed(p)
        b == Trimmed(q)
    IN  a = b \/ StartsWithDir(a, b) \/ StartsWithDir(b, a)

Writes(a) == a.operation \in {"Write", "ReadWrite"}

conflicts_pair(l, r) ==
    \/ l.kind = "All" \/ r.kind = "All"
    \/ /\ l.kind = "File" /\ r.kind = "File"
       /\ Writes(l) \/ Writes(r)
       /\ l.path = NoPath \/ r.path = NoPath \/ paths_overlap(l.path, r.path)

Conflicts(c, d) ==
    \E l \in plan[c].accesses, r \in plan[d].accesses : conflicts_pair(l, r)

-----------------------------------------------------------------------------
(* Preparation, one call at a time in provider order. *)

(* Mutant: a call that goes on to the permission gate is counted already. *)
PrepareMutantCounts(c) ==
    /\ pc = "prepare" /\ c = next /\ fate[c] = "none"
    /\ next' = next + 1
    /\ \/ \E f \in {"blocked", "synthetic"} : fate' = [fate EXCEPT ![c] = f] /\ UNCHANGED plan
       \/ /\ ~ cancel
          /\ fate' = [fate EXCEPT ![c] = "authorizing"]
          /\ \E p \in Plans : plan' = [plan EXCEPT ![c] = p]
    /\ UNCHANGED <<pc, cancel, sched, result, out, sorted>>

(* Preflight, the prepare hook, the input rewrite, resolve_execution and   *)
(* the cancellation check: rejected, answered by a hook, failed or         *)
(* cancelled calls are settled here, the others go to the permission gate. *)
Prepare(c) ==
    /\ pc = "prepare" /\ c = next /\ fate[c] = "none"
    /\ \/ \E f \in {"blocked", "synthetic"} :
            /\ fate' = [fate EXCEPT ![c] = f]
            /\ next' = next + 1
            /\ UNCHANGED plan
       \/ /\ ~ cancel
          /\ fate' = [fate EXCEPT ![c] = "authorizing"]
          /\ \E p \in Plans : plan' = [plan EXCEPT ![c] = p]
          /\ UNCHANGED next
    /\ UNCHANGED <<pc, cancel, sched, result, out, sorted>>

(* Mutant: a refused call is queued for the scheduler all the same. *)
AuthorizeMutantQueuesAll(c) ==
    /\ pc = "prepare" /\ fate[c] = "authorizing"
    /\ \E f \in {"blocked", "synthetic", "ready"} : fate' = [fate EXCEPT ![c] = f]
    /\ pending' = Append(pending, c)
    /\ next' = next + 1
    /\ UNCHANGED <<pc, plan, cancel, held, active, stopped, result, out, sorted>>

(* The answer of the permission gate, which may come after a cancel. *)
Authorize(c) ==
    /\ pc = "prepare" /\ fate[c] = "authorizing"
    /\ \E f \in {"blocked", "synthetic", "ready"} :
         /\ fate' = [fate EXCEPT ![c] = f]
         /\ pending' = IF f = "ready" THEN Append(pending, c) ELSE pending
    /\ next' = next + 1
    /\ UNCHANGED <<pc, plan, cancel, held, active, stopped, result, out, sorted>>

EndPrepare ==
    /\ pc = "prepare" /\ next = N + 1
    /\ pc' = "early"
    /\ UNCHANGED <<prep, cancel, sched, result, out, sorted>>

-----------------------------------------------------------------------------
(* Execution and finalizing (execute_tool_batch, schedule_and_execute). *)

(* finalize_result: the hook keeps the result or fails, which replaces it. *)
Finalize(c, r) ==
    /\ out' = Append(out, c)
    /\ \E hookFails \in BOOLEAN :
         result' = [result EXCEPT ![c] = IF hookFails THEN "error" ELSE r]

Unfinalized(S) == {c \in S : c \notin Range(out)}
IsFirst(c, S) == c \in S /\ \A d \in S : c <= d

With(f) == {c \in Calls : fate[c] = f}

(* The blocked results are finalized first, then the synthetic ones. *)
FinalizeEarly(c) ==
    /\ pc = "early"
    /\ \/ IsFirst(c, Unfinalized(With("blocked")))
       \/ Unfinalized(With("blocked")) = {} /\ IsFirst(c, Unfinalized(With("synthetic")))
    /\ Finalize(c, "error")
    /\ UNCHANGED <<pc, prep, cancel, sched, sorted>>

(* Mutant: no look-out for AccessKind::All. *)
SerialMutantNoAll == Cardinality(With("ready")) <= 1

(* `accesses.any(kind == All)` over the batch; one task alone is the same. *)
Serial ==
    \/ Cardinality(With("ready")) <= 1
    \/ \E c \in With("ready") : \E a \in plan[c].accesses : a.kind = "All"

StartScheduler ==
    /\ pc = "early"
    /\ Unfinalized(With("blocked") \cup With("synthetic")) = {}
    /\ pc' = IF Serial THEN "serial" ELSE "scan"
    /\ UNCHANGED <<prep, cancel, sched, result, out, sorted>>

(* One turn of the scan over the pending tasks: a task that conflicts with *)
(* no active one is started, the others are kept for the next scan.        *)
Scan ==
    /\ pc = "scan" /\ ~ stopped /\ pending # <<>>
    /\ LET c == Head(pending)
       IN  IF \E d \in active : Conflicts(c, d)
           THEN held' = Append(held, c) /\ UNCHANGED active
           ELSE active' = active \cup {c} /\ UNCHANGED held
    /\ pending' = Tail(pending)
    /\ UNCHANGED <<pc, prep, cancel, stopped, result, out, sorted>>

(* Mutant: the loop goes on as long as tasks are pending. *)
EndScanMutantAwaits ==
    /\ pc = "scan"
    /\ stopped \/ pending = <<>>
    /\ pending' = IF stopped THEN pending ELSE held
    /\ held' = <<>>
    /\ pc' = IF active # {} \/ pending' # <<>> THEN "wait" ELSE "late"
    /\ UNCHANGED <<prep, cancel, active, stopped, result, out, sorted>>

(* The scan is over: wait for a task, or leave the loop.  What was never   *)
(* started gets the `scheduler anomaly` result when the results are        *)
(* assembled.                                                              *)
EndScan ==
    /\ pc = "scan"
    /\ stopped \/ pending = <<>>
    /\ pending' = IF stopped THEN pending ELSE held
    /\ held' = <<>>
    /\ IF active # {}
       THEN pc' = "wait" /\ UNCHANGED result
       ELSE /\ pc' = "late"
            /\ result' = [c \in Calls |-> IF c \in Range(pending')
                                          THEN "unstarted" ELSE result[c]]
    /\ UNCHANGED <<prep, cancel, active, stopped, out, sorted>>

(* Mutants: each completion sets the flag anew; a panic stops the batch. *)
StopAfterMutantResets(c) == plan[c].stop
StopAfterMutantPanic(c)  == stopped \/ plan[c].stop \/ result'[c] = "panic"

(* `if stop_batch_after_this { batch_stopped = true }`. *)
StopAfter(c) == stopped \/ plan[c].stop

(* An active task ends; a panic is caught and becomes a result. *)
TaskEnds(c) ==
    /\ pc = "wait"
    /\ c \in active
    /\ \E r \in {"output", "panic"} : result' = [result EXCEPT ![c] = r]
    /\ active' = active \ {c}
    /\ stopped' = StopAfter(c)
    /\ pc' = "scan"
    /\ UNCHANGED <<prep, cancel, pending, held, out, sorted>>

(* The serial loop: execute the next task, or skip it after a stop. *)
SerialStart ==
    /\ pc = "serial" /\ active = {} /\ pending # <<>>
    /\ pending' = Tail(pending)
    /\ IF stopped
       THEN /\ result' = [result EXCEPT ![Head(pending)] = "skipped"]
            /\ UNCHANGED active
       ELSE active' = {Head(pending)} /\ UNCHANGED result
    /\ UNCHANGED <<pc, prep, cancel, held, stopped, out, sorted>>

SerialEnds(c) ==
    /\ pc = "serial"
    /\ c \in active
    /\ \E r \in {"output", "panic"} : result' = [result EXCEPT ![c] = r]
    /\ active' = active \ {c}
    /\ stopped' = StopAfter(c)
    /\ UNCHANGED <<pc, prep, cancel, pending, held, out, sorted>>

EndSerial ==
    /\ pc = "serial" /\ active = {} /\ pending = <<>>
    /\ pc' = "late"
    /\ UNCHANGED <<prep, cancel, sched, result, out, sorted>>

FinalizeLate(c) ==
    /\ pc = "late"
    /\ IsFirst(c, Unfinalized(With("ready")))
    /\ Finalize(c, result[c])
    /\ UNCHANGED <<pc, prep, cancel, sched, sorted>>

EndLate ==
    /\ pc = "late" /\ Unfinalized(With("ready")) = {}
    /\ pc' = "sort"
    /\ UNCHANGED <<prep, cancel, sched, result, out, sorted>>

-----------------------------------------------------------------------------
(* Back to provider order (execute_tool_calls). *)

(* Mutant: the result is copied instead of taken out. *)
SwapRemoveMutantCopies(s, i) == s

SwapRemove(s, i) ==
    [j \in 1..(Len(s) - 1) |-> IF j = i THEN s[Len(s)] ELSE s[j]]

(* The result with the id of call k = Len(sorted) + 1: the first position. *)
(* (An id without a result would be passed over; every call has one.)      *)
SortStep(i) ==
    /\ pc = "sort" /\ Len(sorted) < N
    /\ LET k == Len(sorted) + 1
       IN  /\ i \in 1..Len(out)
           /\ Id[out[i]] = Id[k]
           /\ \A j \in 1..(i - 1) : Id[out[j]] # Id[k]
    /\ sorted' = Append(sorted, out[i])
    /\ out' = SwapRemove(out, i)
    /\ UNCHANGED <<pc, prep, cancel, sched, result>>

EndSort ==
    /\ pc = "sort" /\ Len(sorted) = N
    /\ pc' = "done"
    /\ sorted' = sorted \o out
    /\ out' = <<>>
    /\ UNCHANGED <<prep, cancel, sched, result>>

-----------------------------------------------------------------------------
(* The turn is cancelled. *)
Cancel ==
    /\ ~ cancel /\ pc # "done"
    /\ cancel' = TRUE
    /\ UNCHANGED <<pc, prep, sched, result, out, sorted>>

Returned == pc = "done" /\ UNCHANGED vars

Pipeline ==
    \/ \E c \in Calls : Prepare(c) \/ Authorize(c) \/ FinalizeEarly(c)
                          \/ TaskEnds(c) \/ SerialEnds(c) \/ FinalizeLate(c)
    \/ EndPrepare \/ StartScheduler \/ Scan \/ EndScan \/ SerialStart \/ EndSerial
    \/ EndLate \/ EndSort
    \/ \E i \in 1..Len(out) : SortStep(i)

Next == Pipeline \/ Cancel \/ Returned

Spec == Init /\ [][Next]_vars

(* The pipeline is one task that is polled while it can move: its hooks    *)
(* answer and the tools it executes end, as the code awaits both.          *)
FairSpec == Spec /\ WF_vars(Pipeline)

-----------------------------------------------------------------------------
(* Properties. *)

(* What an access may touch, independently of how conflicts are computed:  *)
(* a path stands for itself and all that lies below it, its case and its   *)
(* trailing slashes mean nothing, no path stands for every place.          *)
Covers(p, x) ==
    \/ p = NoPath
    \/ \E k \in 1..Len(p) :
         /\ k <= Len(x)
         /\ \A i \in 1..k : Lower[p[i]] = Lower[x[i]]
         /\ \A i \in (k + 1)..Len(p) : p[i] = ""

Touches(c, x) ==
    \E a \in plan[c].accesses : a.kind = "File" /\ Covers(a.path, x)
WritesTo(c, x) ==
    \E a \in plan[c].accesses : a.kind = "File" /\ Writes(a) /\ Covers(a.path, x)

(* Two tools that run at the same time never have one writing a file, or a *)
(* tree, the other reads or writes through a File access.                  *)
NoWriteRace ==
    \A c, d \in active : c # d => \A x \in Places : ~ (WritesTo(c, x) /\ Touches(d, x))

(* `A task with AccessKind::All acts as a global mutex`: in a batch with   *)
(* one, a call starts only when every earlier ready call has its result.   *)
AllSerializesBatch ==
    [][\A c \in active' \ active :
         (\E d \in With("ready") : \E a \in plan[d].accesses : a.kind = "All")
           => /\ active = {}
              /\ \A d \in With("ready") : d < c => result[d] # "none"]_vars

(* A call is executed only once, only after the permission gate let it     *)
(* through, and never after its result was finalized.                      *)
ExecutedOnceAuthorized ==
    [][\A c \in active' \ active :
         fate[c] = "ready" /\ result[c] = "none" /\ c \notin Range(out)]_vars

(* Once a call that stops the batch has ended, no further call starts.     *)
NothingStartsAfterStop ==
    [][(\E d \in Calls : plan[d].stop /\ result[d] \in {"output", "panic"})
         => active' \subseteq active]_vars

(* A ready call is left unexecuted only because a call that stops the      *)
(* batch was executed: the `scheduler anomaly` result needs that cause.    *)
SkippedForAStop ==
    \A c \in Calls : result[c] \in {"skipped", "unstarted"} =>
      \E d \in With("ready") :
        plan[d].stop /\ result[d] \notin {"none", "skipped", "unstarted"}

(* The step gets one result per tool call, each once, in provider order,   *)
(* however the calls were blocked, answered, executed or skipped.          *)
OneResultPerCall ==
    pc = "done" =>
      /\ Len(sorted) = N /\ IsInjective(sorted)
      /\ \A i \in Calls : Id[sorted[i]] = Id[i] /\ result[i] # "none"

(* The batch ends, whatever the hooks decide and the tools conflict on.    *)
BatchReturns == <>(pc = "done")

(* `queued in submission order, the later one waits until the earlier one  *)
(* is done` (docs/specs/tool-calling-requirements.md, US2.3): a call does  *)
(* not start before an earlier call it conflicts with.                     *)
LaterWaitsForEarlier ==
    [][\A c \in active' \ active : \A d \in With("ready") :
         d < c /\ Conflicts(d, c) => result[d] # "none"]_vars

(* `Whether to stop scheduling later tool calls in this batch` (scheduler  *)
(* and tool.rs, stop_batch_after_this): only later calls are left out.     *)
OnlyLaterSkipped ==
    \A c \in Calls : result[c] \in {"skipped", "unstarted"} =>
      \E d \in With("ready") : d < c /\ plan[d].stop
=============================================================================
