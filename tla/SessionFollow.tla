---------------------------- MODULE SessionFollow ----------------------------
(***************************************************************************)
(* Several engine processes with the same session open: each appends its   *)
(* turns to one wire.jsonl and follows what the others append.             *)
(*                                                                         *)
(* A process keeps an anchor, the number of bytes it takes to be folded    *)
(* into its memory.  Its own appends add their length to it; its follow    *)
(* driver drains the file from it on while no turn is in flight; the       *)
(* commit fence and the turn-abort guard compare it with the file's size.  *)
(* There is no lock between processes: appends are atomic (O_APPEND), and  *)
(* everything else is one action between two awaits.                       *)
(***************************************************************************)
EXTENDS WireLog

CONSTANTS
    Node,          \* the processes
    MaxTurns,      \* bound: turns started
    MaxSteps,      \* bound: records of steps, over all turns
    MaxResumes,    \* bound: session.resume calls
    MaxFaults,     \* bound: the next three together
    MaxNodeCrashes,  \* bound: crashes
    MaxAppendErrors, \* bound: appends that report an error
    MaxRebuilds    \* bound: external truncations

ASSUME FollowAssumption ==
    /\ MaxTurns \in Nat /\ MaxSteps \in Nat /\ MaxResumes \in Nat
    /\ MaxFaults \in Nat /\ MaxNodeCrashes \in Nat
    /\ MaxAppendErrors \in Nat /\ MaxRebuilds \in Nat

\* A turn records its prompt, its message and its end, and what its steps do:
\* there are ops for all of them.
ASSUME EnoughOps == 3 * MaxTurns + MaxSteps <= MaxOps

VARIABLES
    file,          \* wire.jsonl
    phase,         \* where each process's session or turn is
    anchor,        \* known_size
    mem,           \* the ops folded into the memory, in order
    truncated,     \* the stop signal of reset_anchor
    driver,        \* the follow driver: off, between ticks, in a pass
    nextOp, turns, steps, resumes, nodeCrashes, appendErrors, rebuilds,
    skew           \* history: what came between anchor, memory and file

followBounds == <<nextOp, turns, steps, resumes, nodeCrashes, appendErrors, rebuilds>>
followVars == <<file, phase, anchor, mem, truncated, driver, followBounds, skew>>

Phases == {"closed", "replayed", "idle", "fenced", "prompted", "turn", "step", "ending"}
Resident == Phases \ {"closed", "replayed"}
\* The turn is in in_flight_turns only once its prompt has been recorded.
InFlight == {"turn", "step", "ending"}
Skews == {"raced", "failed", "spliced", "resumed", "rebuilt"}

FollowTypeOK ==
    /\ file \in Seq(Byte)
    /\ phase \in [Node -> Phases]
    /\ anchor \in [Node -> Nat]
    /\ mem \in [Node -> Seq(Op)]
    /\ truncated \in [Node -> BOOLEAN]
    /\ driver \in [Node -> {"off", "waiting", "checked"}]
    /\ nextOp \in 1..MaxOps + 1 /\ turns \in 0..MaxTurns /\ steps \in 0..MaxSteps
    /\ resumes \in 0..MaxResumes /\ nodeCrashes \in 0..MaxNodeCrashes
    /\ appendErrors \in 0..MaxAppendErrors /\ rebuilds \in 0..MaxRebuilds
    /\ skew \in [Node -> SUBSET Skews]

MoreFaults == nodeCrashes + appendErrors + rebuilds < MaxFaults

\* Every process has resumed the session before its first record.
FollowInit ==
    /\ file = <<>>
    /\ phase = [n \in Node |-> "idle"]
    /\ anchor = [n \in Node |-> 0]
    /\ mem = [n \in Node |-> <<>>]
    /\ truncated = [n \in Node |-> FALSE]
    /\ driver = [n \in Node |-> "waiting"]
    /\ nextOp = 1 /\ turns = 0 /\ steps = 0 /\ resumes = 0 /\ nodeCrashes = 0
    /\ appendErrors = 0 /\ rebuilds = 0
    /\ skew = [n \in Node |-> {}]

\* check_version of the file against a process's anchor, by size alone.
check_version(n) ==
    CASE Len(file) = anchor[n] -> "Fresh"
      [] Len(file) > anchor[n] -> "Divergent"
      [] OTHER -> "Truncated"

(***************************************************************************)
(* record_op: the memory has the op already; the bytes land at the end of  *)
(* the file, wherever that is by then; the anchor grows by their number,   *)
(* unless the append reports an error, whose bytes may have landed.        *)
(***************************************************************************)
OwnAdvanceMutantNone(n, o) == anchor
OwnAdvance(n, o) == [anchor EXCEPT ![n] = @ + RecordLen[o]]

NodeOp(kind) == [n |-> nextOp, kind |-> kind]

\* skew: the writer's anchor was not at the end; a torn last line is now a
\* broken one, for every reader.
record_op(n, o) ==
    /\ nextOp <= MaxOps /\ nextOp' = nextOp + 1
    /\ mem' = [mem EXCEPT ![n] = Append(@, o)]
    /\ \E why \in SUBSET {"raced", "failed"} :
        /\ \/ /\ file' = file \o Record(o) /\ anchor' = OwnAdvance(n, o)
              /\ why = IF anchor[n] = Len(file) THEN {} ELSE {"raced"}
              /\ UNCHANGED appendErrors
           \/ /\ MoreFaults /\ appendErrors < MaxAppendErrors
              /\ appendErrors' = appendErrors + 1 /\ why = {"failed"}
              /\ file' \in {file, file \o Record(o)}
              /\ UNCHANGED anchor
        /\ skew' = [m \in Node |-> skew[m]
                        \cup (IF m = n THEN why ELSE {})
                        \cup (IF file' # file /\ TornTail(file) # <<>>
                              THEN {"spliced"} ELSE {})]
    /\ UNCHANGED <<truncated, driver, resumes, nodeCrashes, rebuilds>>

Goto(n, from, to) == phase[n] = from /\ phase' = [phase EXCEPT ![n] = to]

(***************************************************************************)
(* A turn.                                                                 *)
(***************************************************************************)
FenceMutantFloor(n) == check_version(n) # "Truncated"

\* journal_tail_verdict_fresh at the commit fence of a send.
FencePasses(n) == check_version(n) = "Fresh"

\* A send that fails the fence is rejected and changes nothing.
Fence(n) ==
    /\ Goto(n, "idle", "fenced")
    /\ turns < MaxTurns /\ turns' = turns + 1
    /\ FencePasses(n)
    /\ UNCHANGED <<file, anchor, mem, truncated, driver, nextOp, steps, resumes,
                   nodeCrashes, appendErrors, rebuilds, skew>>

RecordPrompt(n) ==
    Goto(n, "fenced", "prompted") /\ record_op(n, NodeOp("prompt")) /\ UNCHANGED <<turns, steps>>

\* The message, after which the turn is registered as in flight.
RecordMessage(n) ==
    Goto(n, "prompted", "turn") /\ record_op(n, NodeOp("event")) /\ UNCHANGED <<turns, steps>>

\* The turn-abort guard, before each step and each tool batch: a tail that
\* is not ours ends the turn.  A turn may also end by itself.
Guard(n) ==
    /\ \/ check_version(n) = "Fresh" /\ Goto(n, "turn", "step")
       \/ Goto(n, "turn", "ending")
    /\ UNCHANGED <<file, anchor, mem, truncated, driver, followBounds, skew>>

RecordStep(n) ==
    /\ Goto(n, "step", "turn") /\ record_op(n, NodeOp("event"))
    /\ steps < MaxSteps /\ steps' = steps + 1
    /\ UNCHANGED turns

\* The bound on steps is reached: the turn ends.
LastStep(n) ==
    /\ Goto(n, "step", "ending") /\ steps = MaxSteps
    /\ UNCHANGED <<file, anchor, mem, truncated, driver, followBounds, skew>>

\* An aborted turn records its end too.
RecordEnd(n) ==
    Goto(n, "ending", "idle") /\ record_op(n, NodeOp("ended")) /\ UNCHANGED <<turns, steps>>

(***************************************************************************)
(* The follow driver.                                                      *)
(***************************************************************************)

\* follow_pass up to its first await: skip the tick while a turn is in
\* flight, exit when the session is gone or its journal was truncated.
FollowGoesOnMutantDeaf(n) == phase[n] \in Resident
FollowGoesOnMutantOnce(n) ==
    phase[n] \in Resident /\ ~truncated[n] /\ check_version(n) # "Fresh"
FollowGoesOn(n) == phase[n] \in Resident /\ ~truncated[n]

PassBegin(n) ==
    /\ driver[n] = "waiting" /\ phase[n] \notin InFlight
    /\ driver' = [driver EXCEPT ![n] = IF FollowGoesOn(n) THEN "checked" ELSE "off"]
    /\ UNCHANGED <<file, phase, anchor, mem, truncated, followBounds, skew>>

\* drain_foreign_ops, under the writer's lock: the anchor is read again.
Absorbed(n) == Drain(file, anchor[n])

\* absorb_session_foreign_updates: a turn may have begun meanwhile.
Absorb(n) ==
    /\ driver[n] = "checked" /\ driver' = [driver EXCEPT ![n] = "waiting"]
    /\ IF check_version(n) = "Truncated"
       THEN /\ anchor' = [anchor EXCEPT ![n] = 0]
            /\ truncated' = [truncated EXCEPT ![n] = TRUE]
            /\ UNCHANGED mem
       ELSE /\ mem' = [mem EXCEPT ![n] = @ \o Absorbed(n).ops]
            /\ anchor' = [anchor EXCEPT ![n] = @ + Absorbed(n).consumed]
            /\ UNCHANGED truncated
    /\ UNCHANGED <<file, phase, followBounds, skew>>

(***************************************************************************)
(* Leaving and coming back.                                                *)
(***************************************************************************)

\* The driver notices at its next tick.
CloseAt(n) ==
    /\ Goto(n, "idle", "closed")
    /\ driver' = [driver EXCEPT ![n] = IF @ = "checked" THEN "waiting" ELSE @]
    /\ UNCHANGED <<file, anchor, mem, truncated, followBounds, skew>>

CrashAt(n) ==
    /\ phase[n] # "closed" /\ phase' = [phase EXCEPT ![n] = "closed"]
    /\ MoreFaults /\ nodeCrashes < MaxNodeCrashes /\ nodeCrashes' = nodeCrashes + 1
    /\ driver' = [driver EXCEPT ![n] = "off"]
    /\ \/ UNCHANGED <<file, nextOp>>
       \/ /\ phase[n] \in {"fenced", "step"} /\ nextOp <= MaxOps /\ nextOp' = nextOp + 1
          /\ LET o == NodeOp(IF phase[n] = "fenced" THEN "prompt" ELSE "event")
             IN  \E k \in 1..RecordLen[o] - 1 : file' = file \o SubSeq(Record(o), 1, k)
    /\ UNCHANGED <<anchor, mem, truncated, turns, steps, resumes, appendErrors, rebuilds, skew>>

\* resume_session: the replay folds the whole log into a new memory.
Replay(n) ==
    /\ Goto(n, "closed", "replayed") /\ ~Corrupted(file)
    /\ resumes < MaxResumes /\ resumes' = resumes + 1
    /\ mem' = [mem EXCEPT ![n] = ReadAll(file)]
    /\ UNCHANGED <<file, anchor, truncated, driver, nextOp, turns, steps, nodeCrashes,
                   appendErrors, rebuilds, skew>>

InstalledAnchorMutantOffByOne == Len(file) - 1
InstalledAnchor == Len(file)

\* install: the anchor is the file's length by now; a driver is spawned.
Install(n) ==
    /\ Goto(n, "replayed", "idle")
    /\ anchor' = [anchor EXCEPT ![n] = InstalledAnchor]
    /\ truncated' = [truncated EXCEPT ![n] = FALSE]
    /\ driver' = [driver EXCEPT ![n] = "waiting"]
    /\ skew' = [skew EXCEPT ![n] = IF mem[n] = ReadAll(file) THEN {} ELSE {"resumed"}]
    /\ UNCHANGED <<file, mem, followBounds>>

\* Something else rewrites the file: the only way it becomes shorter.
Rebuild ==
    /\ MoreFaults /\ rebuilds < MaxRebuilds /\ rebuilds' = rebuilds + 1
    /\ file # <<>> /\ file' = <<>>
    /\ skew' = [n \in Node |-> skew[n] \cup {"rebuilt"}]
    /\ UNCHANGED <<phase, anchor, mem, truncated, driver, nextOp, turns, steps,
                   resumes, nodeCrashes, appendErrors>>

Turn(n) == RecordPrompt(n) \/ RecordMessage(n) \/ Guard(n) \/ RecordStep(n)
              \/ LastStep(n) \/ RecordEnd(n)

FollowNext ==
    \/ \E n \in Node : \/ Fence(n) \/ Turn(n) \/ PassBegin(n) \/ Absorb(n)
                       \/ CloseAt(n) \/ CrashAt(n) \/ Replay(n) \/ Install(n)
    \/ Rebuild

FollowSpec == FollowInit /\ [][FollowNext]_followVars

(***************************************************************************)
(* Fairness: the interval of the driver ticks, a pass that has begun comes *)
(* to its end (Absorb, or the session is closed), and so does a turn (the  *)
(* stall watchdog sees to that).  Nobody has to send, close or resume.     *)
(***************************************************************************)
PassEnds(n) == driver[n] = "checked" /\ driver' = [driver EXCEPT ![n] = "waiting"]

FollowFairSpec ==
    /\ FollowSpec
    /\ \A n \in Node :
            WF_followVars(PassBegin(n)) /\ WF_driver(PassEnds(n)) /\ WF_followVars(Turn(n))

(***************************************************************************)
(* Properties.                                                             *)
(***************************************************************************)

\* While every append of a process met the file as its anchor said, its
\* memory is exactly what a replay of the file up to its anchor folds: own
\* and foreign records are folded once, in file order, none is passed over.
MemoryIsPrefix ==
    \A n \in Node :
        phase[n] \in Resident /\ skew[n] = {} =>
            /\ anchor[n] <= Len(file)
            /\ mem[n] = ReadAll(SubSeq(file, 1, anchor[n]))

\* A turn begins on a memory that holds all the session's records, those of
\* the other processes too.
TurnStartsCurrent ==
    [][\A n \in Node :
        phase[n] = "idle" /\ phase'[n] = "fenced" /\ skew[n] = {} =>
            mem[n] = ReadAll(file)]_followVars

\* After a truncation was noticed nothing foreign is folded until a full
\* resume: the rebuilt file would be read from its beginning.
NoFoldAfterTruncation ==
    [][\A n \in Node :
        truncated[n] /\ phase'[n] = phase[n] => mem'[n] = mem[n]]_followVars

CaughtUp(n) == anchor[n] >= LastNewline(file)

\* A process that has the session open catches up with the others' records,
\* whatever they did, as long as its anchor can be trusted and the file read.
FollowersCatchUp ==
    \A n \in Node :
        []<>(\/ phase[n] \notin Resident \/ truncated[n] \/ skew[n] # {}
             \/ Corrupted(file) \/ CaughtUp(n))

(***************************************************************************)
(* What comments and the design say and the code does not do.              *)
(***************************************************************************)

\* The anchor never passes a record that was not folded, although appends of
\* two processes may race.
AnchorIsFloor ==
    \A n \in Node :
        phase[n] \in Resident /\ skew[n] = {"raced"} =>
            Range(Ops(SubSeq(file, 1, anchor[n]))) \subseteq Range(mem[n])

\* An anchor that took foreign bytes for its own heals: following goes on.
SelfHeals ==
    \A n \in Node :
        []<>(phase[n] \notin Resident \/ skew[n] # {"raced"} \/ CaughtUp(n))

\* A resumed session has folded everything its anchor says it has.
ResumeMissesNothing ==
    \A n \in Node :
        phase[n] \in Resident /\ skew[n] = {"resumed"} =>
            Range(Ops(SubSeq(file, 1, anchor[n]))) \subseteq Range(mem[n])

=============================================================================
