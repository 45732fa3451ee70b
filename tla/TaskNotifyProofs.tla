-------------------------- MODULE TaskNotifyProofs --------------------------
(***************************************************************************)
(* Proofs about task notifications: the flush markers consume exactly what *)
(* was parked, a task carries the delivery marker only when its            *)
(* notification is in the journal and in the context, and a notification   *)
(* is delivered again only if the scans lost sight of its task, for any    *)
(* number of tasks, messages, turns, ticks, crashes and undos.             *)
(***************************************************************************)
EXTENDS TaskNotify, QueueLemmas, FiniteSetTheorems, TLAPS

RowRecs == [done : BOOLEAN, suppressed : BOOLEAN, delivered : BOOLEAN]
TurnRecs == [pc : TurnPcs, owner : {"none", "user", "driver"}, steps : 0..MaxSteps,
             taken : Seq(Msgs), written : Nat]
DriverRecs == [pc : DriverPcs, seen : SUBSET Tasks, due : SUBSET Tasks,
               cur : Tasks \cup {None}, queue : Seq(Tasks)]

\* What a turn's flush holds, and how far it got, at each of its steps.
TurnShape ==
    /\ turn.pc \in {"idle", "before", "step", "stop"} => turn.taken = <<>>
    /\ turn.pc \in {"idle", "before", "step", "stop", "marker", "stopmarker", "repark"}
         => turn.written = 0
    /\ turn.pc = "marker" => 0 < Len(turn.taken)
    /\ turn.pc = "rows" => turn.written < Len(turn.taken)
    /\ turn.pc = "append" => turn.written = Len(turn.taken)
    /\ turn.pc = "stopmarker" => 0 < Len(UserSteers(turn.taken))
    /\ turn.pc = "stoprows" => turn.written < Len(UserSteers(turn.taken))
    /\ turn.pc = "stopsteer" => turn.written <= Len(Notifications(turn.taken))
    /\ turn.pc = "stoppush" => turn.written = Len(Notifications(turn.taken))

\* The task the driver is busy with.
DriverShape ==
    driver.pc \in {"push", "mark", "launch", "rappend", "rmark"} => driver.cur \in Tasks

Typed == TypeOK /\ TurnShape /\ DriverShape

\* While nothing was folded away or undone, the live context has no
\* notification that the journal has not, and what a flush, the driver or the
\* resume is about to show or to mark is recorded already.
Recorded ==
    /\ Keys(memory) \subseteq Keys(replayed)
    /\ turn.pc = "rows" => \A i \in 1..turn.written : turn.taken[i] \in Range(replayed)
    /\ turn.pc = "append" => Keys(turn.taken) \subseteq Keys(replayed)
    /\ driver.pc \in {"mark", "launch", "rappend", "rmark"} => driver.cur \in Keys(replayed)
    /\ driver.pc = "rmark" => driver.cur \in Keys(memory)
    /\ driver.pc = "sweep" => driver.seen \subseteq Keys(memory)

-----------------------------------------------------------------------------
(* The bounds and the messages. *)
LEMMA NotifyConstants ==
    /\ Tasks \subseteq Msgs /\ UserMsgs \subseteq Msgs /\ None \notin Msgs
    /\ Tasks \cap UserMsgs = {} /\ Msgs = Tasks \cup UserMsgs
    /\ Msgs \cap Tasks = Tasks /\ Msgs \cap UserMsgs = UserMsgs
    /\ IsFiniteSet(Msgs) /\ IsFiniteSet(UserMsgs)
    /\ MaxSteps \in Nat /\ MaxCrashes \in Nat /\ MaxAborts \in Nat
    /\ MaxDefers \in Nat /\ MaxUndos \in Nat /\ MaxCompactions \in Nat
<1>1. /\ Tasks \subseteq Msgs /\ UserMsgs \subseteq Msgs /\ None \notin Msgs
      /\ Tasks \cap UserMsgs = {} /\ Msgs = Tasks \cup UserMsgs
      /\ Msgs \cap Tasks = Tasks /\ Msgs \cap UserMsgs = UserMsgs
      /\ IsFiniteSet(Msgs)
      /\ MaxSteps \in Nat /\ MaxCrashes \in Nat /\ MaxAborts \in Nat
      /\ MaxDefers \in Nat /\ MaxUndos \in Nat /\ MaxCompactions \in Nat
  BY NotifyAssumption DEF Msgs
<1> QED
  BY <1>1, FS_Subset

(* The fold of a flush marker, of any number. *)
LEMMA FlushedType ==
    ASSUME NEW n \in Nat, pending \in Seq(Msgs), SteerFlushed(n)
    PROVE  /\ pending' \in Seq(Msgs)
           /\ n <= Len(pending) => Len(pending') = Len(pending) - n
<1> DEFINE k == IF n > Len(pending) THEN Len(pending) ELSE n
<1>1. Len(pending) \in Nat /\ \A i \in 1..Len(pending) : pending[i] \in Msgs
  BY LenProperties, ElementOfSeq
<1>2. k \in 0..Len(pending) /\ (n <= Len(pending) => k = n)
  BY <1>1
<1>3. pending' = SubSeq(pending, 1 + k, Len(pending))
  BY DEF SteerFlushed
<1> HIDE DEF k
<1>4. /\ 1 + k \in Int /\ Len(pending) \in Int
      /\ \A i \in (1 + k)..Len(pending) : pending[i] \in Msgs
  BY <1>1, <1>2
<1>5. /\ SubSeq(pending, 1 + k, Len(pending)) \in Seq(Msgs)
      /\ Len(SubSeq(pending, 1 + k, Len(pending))) =
            IF 1 + k <= Len(pending) THEN Len(pending) - (1 + k) + 1 ELSE 0
  <2> DEFINE a == 1 + k
             b == Len(pending)
  <2>1. a \in Int /\ b \in Int /\ \A i \in a..b : pending[i] \in Msgs
    BY <1>4
  <2> HIDE DEF a, b
  <2>2. /\ SubSeq(pending, a, b) \in Seq(Msgs)
        /\ Len(SubSeq(pending, a, b)) = IF a <= b THEN b - a + 1 ELSE 0
    BY <2>1, SubSeqProperties
  <2> QED
    BY <2>2 DEF a, b
<1> QED
  BY <1>1, <1>2, <1>3, <1>5

(* The parts of a flush: the notifications and the users' messages. *)
LEMMA Partition ==
    ASSUME NEW s \in Seq(Msgs)
    PROVE  /\ Notifications(s) \in Seq(Tasks) /\ Notifications(s) \in Seq(Msgs)
           /\ UserSteers(s) \in Seq(UserMsgs) /\ UserSteers(s) \in Seq(Msgs)
           /\ Len(Notifications(s)) \in 0..Len(s) /\ Len(UserSteers(s)) \in 0..Len(s)
           /\ Range(Notifications(s)) = Keys(s)
           /\ Range(UserSteers(s)) = Range(s) \cap UserMsgs
           /\ Keys(UserSteers(s)) = {}
           /\ (\E m \in Range(s) : IsUser(m)) => 0 < Len(UserSteers(s))
<1> DEFINE a == Notifications(s)
           b == UserSteers(s)
<1>1. /\ a \in Seq(Msgs \cap Tasks) /\ Len(a) \in 0..Len(s) /\ Range(a) = Range(s) \cap Tasks
      /\ b \in Seq(Msgs \cap UserMsgs) /\ Len(b) \in 0..Len(s)
      /\ Range(b) = Range(s) \cap UserMsgs
      /\ Len(b) = 0 <=> Range(s) \cap UserMsgs = {}
  BY PickType DEF Notifications, UserSteers
<1>2. Seq(Tasks) \subseteq Seq(Msgs) /\ Seq(UserMsgs) \subseteq Seq(Msgs)
  BY NotifyConstants, SeqMonotonic
<1>3. Msgs \cap Tasks = Tasks /\ Msgs \cap UserMsgs = UserMsgs /\ Tasks \cap UserMsgs = {}
  BY NotifyConstants
<1>4. Len(s) \in Nat
  BY LenProperties
<1> HIDE DEF a, b
<1>5. (\E m \in Range(s) : IsUser(m)) => 0 < Len(b)
  BY <1>1, <1>4 DEF IsUser
<1> QED
  BY <1>1, <1>2, <1>3, <1>5 DEF a, b, Keys

-----------------------------------------------------------------------------
(* Types, and the shapes of a flush and of a tick. *)
TypedParts ==
    /\ row \in [Tasks -> RowRecs]
    /\ pending \in Seq(Msgs) /\ replayed \in Seq(Msgs)
    /\ memory \in Seq(Msgs) /\ buffer \in Seq(Msgs)
    /\ turn \in TurnRecs /\ turn.written <= Len(turn.taken)
    /\ driver \in DriverRecs
    /\ sent \in [UserMsgs -> {"no", "steering", "launching", "yes"}]
    /\ crashes \in 0..MaxCrashes /\ aborts \in 0..MaxAborts /\ defers \in 0..MaxDefers
    /\ undos \in 0..MaxUndos /\ compactions \in 0..MaxCompactions
    /\ unseen \subseteq Tasks

LEMMA TypeOKParts == TypeOK <=> TypedParts
BY DEF TypeOK, TypedParts, RowRecs, TurnRecs, DriverRecs

(* The sequences a turn or a tick leaves. *)
LEMMA SeqSteps ==
    ASSUME NEW s \in Seq(Msgs)
    PROVE  /\ \A m \in Msgs : Append(s, m) \in Seq(Msgs) /\ Len(Append(s, m)) = Len(s) + 1
           /\ \A m \in Msgs : Range(Append(s, m)) = Range(s) \cup {m}
           /\ \A u \in Seq(Msgs) : s \o u \in Seq(Msgs) /\ Len(s \o u) = Len(s) + Len(u)
           /\ \A u \in Seq(Msgs) : Range(s \o u) = Range(s) \cup Range(u)
           /\ Len(s) \in Nat /\ \A i \in 1..Len(s) : s[i] \in Msgs /\ s[i] \in Range(s)
           /\ (s = <<>> <=> Len(s) = 0)
           /\ <<>> \in Seq(Msgs) /\ Len(<<>>) = 0 /\ Range(<<>>) = {}
<1>1. \A m \in Msgs : Append(s, m) \in Seq(Msgs) /\ Len(Append(s, m)) = Len(s) + 1
  BY AppendProperties
<1>2. \A m \in Msgs : Range(Append(s, m)) = Range(s) \cup {m}
  BY AppendRange
<1>3. \A u \in Seq(Msgs) : s \o u \in Seq(Msgs) /\ Len(s \o u) = Len(s) + Len(u)
  BY ConcatProperties
<1>4. \A u \in Seq(Msgs) : Range(s \o u) = Range(s) \cup Range(u)
  BY ConcatRange
<1>5. Len(s) \in Nat /\ \A i \in 1..Len(s) : s[i] \in Msgs /\ s[i] \in Range(s)
  <2>1. Len(s) \in Nat /\ DOMAIN s = 1..Len(s) /\ \A i \in 1..Len(s) : s[i] \in Msgs
    BY LenProperties, ElementOfSeq
  <2> QED
    BY <2>1 DEF Range
<1>6. s = <<>> <=> Len(s) = 0
  BY EmptySeq
<1>7. <<>> \in Seq(Msgs) /\ Len(<<>>) = 0 /\ Range(<<>>) = {}
  BY DEF Range
<1> QED
  BY <1>1, <1>2, <1>3, <1>4, <1>5, <1>6, <1>7

(* A step that leaves the turn, or the driver, as it was. *)
LEMMA TurnKept ==
    ASSUME TurnShape, turn' = turn
    PROVE  TurnShape'
BY DEF TurnShape, UserSteers, Notifications

LEMMA DriverKept ==
    ASSUME DriverShape, driver' = driver
    PROVE  DriverShape'
BY DEF DriverShape

(* A task ends, or a tool call answers for it. *)
LEMMA TypedTask ==
    ASSUME Typed, NEW t \in Tasks, TaskEnds(t) \/ TaskOutput(t) \/ TaskStop(t)
    PROVE  Typed'
<1>1. TypedParts /\ TurnShape /\ DriverShape
  BY TypeOKParts DEF Typed
<1>2. row' \in [Tasks -> RowRecs]
  <2>1. row \in [Tasks -> RowRecs] /\ row[t] \in RowRecs
    BY <1>1 DEF TypedParts
  <2>2. PICK r \in RowRecs : row' = [row EXCEPT ![t] = r]
    <3>1. /\ [row[t] EXCEPT !.done = TRUE] \in RowRecs
          /\ [row[t] EXCEPT !.suppressed = TRUE] \in RowRecs
          /\ [[row[t] EXCEPT !.suppressed = TRUE] EXCEPT !.done = TRUE] \in RowRecs
      BY <2>1 DEF RowRecs
    <3>2. \/ row' = [row EXCEPT ![t] = [row[t] EXCEPT !.done = TRUE]]
          \/ row' = [row EXCEPT ![t] = [row[t] EXCEPT !.suppressed = TRUE]]
          \/ row' = [row EXCEPT ![t] = [[row[t] EXCEPT !.suppressed = TRUE] EXCEPT !.done = TRUE]]
      BY <2>1 DEF TaskEnds, TaskOutput, TaskStop
    <3> QED
      BY <3>1, <3>2
  <2> QED
    BY <2>1, <2>2
<1>3. UNCHANGED <<journal, memory, buffer, turn, driver, sent, counters, unseen>>
  BY DEF TaskEnds, TaskOutput, TaskStop
<1>4. TurnShape' /\ DriverShape'
  BY <1>1, <1>3, TurnKept, DriverKept
<1>5. TypedParts'
  BY <1>1, <1>2, <1>3 DEF TypedParts, journal, counters
<1> QED
  BY <1>4, <1>5 DEF Typed, TypeOK, TypedParts, RowRecs, TurnRecs, DriverRecs

(* A request of the client's. *)
LEMMA TypedRequest ==
    ASSUME Typed, NEW m \in UserMsgs,
           SteerRecord(m) \/ SteerPush(m) \/ LaunchRecord(m) \/ LaunchTurn(m)
    PROVE  Typed'
<1>1. TypedParts /\ TurnShape /\ DriverShape
  BY TypeOKParts DEF Typed
<1>2. m \in Msgs
  BY NotifyConstants
<1>3. sent' \in [UserMsgs -> {"no", "steering", "launching", "yes"}]
  BY <1>1 DEF TypedParts, SteerRecord, SteerPush, LaunchRecord, LaunchTurn
<1>4. /\ pending' \in Seq(Msgs) /\ replayed' \in Seq(Msgs)
      /\ memory' \in Seq(Msgs) /\ buffer' \in Seq(Msgs)
  <2>1. \A s \in Seq(Msgs) : Append(s, m) \in Seq(Msgs)
    BY <1>2, SeqSteps
  <2> QED
    BY <1>1, <2>1 DEF TypedParts, SteerRecord, SteerPush, LaunchRecord, LaunchTurn, StartTurn,
      journal
<1>5. turn' \in TurnRecs /\ turn'.written <= Len(turn'.taken) /\ TurnShape'
  <2>1. CASE SteerRecord(m) \/ SteerPush(m) \/ LaunchRecord(m)
    <3>1. turn' = turn
      BY <2>1 DEF SteerRecord, SteerPush, LaunchRecord
    <3> QED
      BY <1>1, <3>1, TurnKept DEF TypedParts
  <2>2. CASE LaunchTurn(m)
    <3>1. turn.pc = "idle" /\ turn' = [turn EXCEPT !.pc = "before", !.owner = "user"]
      BY <2>2 DEF LaunchTurn, StartTurn
    <3>2. /\ turn' \in TurnRecs /\ turn'.pc = "before" /\ turn'.written = turn.written
          /\ turn'.taken = turn.taken
      BY <1>1, <3>1 DEF TypedParts, TurnRecs, TurnPcs
    <3> QED
      BY <1>1, <3>1, <3>2 DEF TypedParts, TurnShape
  <2> QED
    BY <2>1, <2>2
<1>6. DriverShape' /\ driver' = driver
  BY <1>1, DriverKept DEF SteerRecord, SteerPush, LaunchRecord, LaunchTurn
<1>7. unseen' \subseteq Tasks
  BY <1>1 DEF TypedParts, SteerRecord, SteerPush, LaunchRecord, LaunchTurn
<1>8. TypedParts'
  BY <1>1, <1>3, <1>4, <1>5, <1>6, <1>7
    DEF TypedParts, SteerRecord, SteerPush, LaunchRecord, LaunchTurn, counters
<1> QED
  BY <1>5, <1>6, <1>8 DEF Typed, TypeOK, TypedParts, RowRecs, TurnRecs, DriverRecs

(* A step of the turn's flush. *)
LEMMA TypedTurn ==
    ASSUME Typed, TurnNext
    PROVE  Typed'
<1>1. TypedParts /\ TurnShape /\ DriverShape
  BY TypeOKParts DEF Typed
<1>0. UNCHANGED <<row, driver, sent, counters>>
  BY DEF TurnNext, FlushTake, FlushMarker, FlushRow, FlushAppend, StepDone, StopTake, StopRepark,
    StopMarker, StopRow, StopSteer, StopPush, TurnUnchanged
<1> DEFINE tk == turn.taken
           wr == turn.written
           Good == /\ pending' \in Seq(Msgs) /\ replayed' \in Seq(Msgs)
                   /\ memory' \in Seq(Msgs) /\ buffer' \in Seq(Msgs)
                   /\ turn' \in TurnRecs /\ turn'.written <= Len(turn'.taken)
                   /\ unseen' \subseteq Tasks /\ TurnShape'
<1>2. /\ tk \in Seq(Msgs) /\ wr \in Nat /\ wr <= Len(tk) /\ Len(tk) \in Nat
      /\ turn.steps \in 0..MaxSteps /\ turn.pc \in TurnPcs /\ turn \in TurnRecs
      /\ turn.owner \in {"none", "user", "driver"}
      /\ pending \in Seq(Msgs) /\ replayed \in Seq(Msgs)
      /\ memory \in Seq(Msgs) /\ buffer \in Seq(Msgs) /\ unseen \subseteq Tasks
  BY <1>1, LenProperties DEF TypedParts, TurnRecs
<1>3. ASSUME FlushTake PROVE Good
  <2>1. turn' = [turn EXCEPT !.pc = IF buffer = <<>> THEN "step" ELSE "marker", !.taken = buffer]
        /\ turn.pc = "before" /\ buffer' = <<>> /\ UNCHANGED <<pending, replayed, memory, unseen>>
    BY <1>3 DEF FlushTake, TurnUnchanged, journal
  <2>2. wr = 0 /\ (buffer = <<>> <=> Len(buffer) = 0) /\ Len(buffer) \in Nat
        /\ <<>> \in Seq(Msgs)
    BY <1>1, <1>2, <2>1, SeqSteps DEF TurnShape
  <2>3. /\ turn' \in TurnRecs /\ turn'.written = 0 /\ turn'.taken = buffer
        /\ turn'.pc = IF buffer = <<>> THEN "step" ELSE "marker"
    BY <1>2, <2>1, <2>2 DEF TurnRecs, TurnPcs
  <2>4. TurnShape'
    BY <2>2, <2>3 DEF TurnShape
  <2> QED
    BY <1>2, <2>1, <2>2, <2>3, <2>4
<1>4. ASSUME FlushMarker PROVE Good
  <2>1. turn' = [turn EXCEPT !.pc = "rows"] /\ turn.pc = "marker" /\ SteerFlushed(Len(tk))
        /\ UNCHANGED <<replayed, memory, buffer, unseen>>
    BY <1>4 DEF FlushMarker, TurnUnchanged
  <2>2. pending' \in Seq(Msgs)
    BY <1>2, <2>1, FlushedType
  <2>3. turn' \in TurnRecs /\ turn'.written = wr /\ turn'.taken = tk /\ turn'.pc = "rows"
    BY <1>2, <2>1 DEF TurnRecs, TurnPcs
  <2>4. wr = 0 /\ 0 < Len(tk)
    BY <1>1, <2>1 DEF TurnShape
  <2>5. TurnShape'
    BY <2>3, <2>4 DEF TurnShape
  <2> QED
    BY <1>2, <2>1, <2>2, <2>3, <2>5
<1>5. ASSUME FlushRow PROVE Good
  <2>1. /\ turn' = [turn EXCEPT !.written = wr + 1,
                                !.pc = IF wr + 1 = Len(tk) THEN "append" ELSE @]
        /\ turn.pc = "rows" /\ replayed' = Append(replayed, tk[wr + 1])
        /\ UNCHANGED <<pending, memory, buffer, unseen>>
    BY <1>5 DEF FlushRow, TurnUnchanged
  <2>2. wr < Len(tk)
    BY <1>1, <2>1 DEF TurnShape
  <2>3. tk[wr + 1] \in Msgs
    BY <1>2, <2>2, SeqSteps
  <2>4. replayed' \in Seq(Msgs)
    BY <1>2, <2>1, <2>3, SeqSteps
  <2>5. /\ turn' \in TurnRecs /\ turn'.written = wr + 1 /\ turn'.taken = tk
        /\ turn'.pc = IF wr + 1 = Len(tk) THEN "append" ELSE "rows"
    <3>1. PICK w \in Nat : w = wr + 1
      BY <1>2
    <3>2. turn' = [turn EXCEPT !.written = w, !.pc = IF w = Len(tk) THEN "append" ELSE @]
      BY <2>1, <3>1
    <3>3. /\ turn' \in TurnRecs /\ turn'.written = w /\ turn'.taken = tk
          /\ turn'.pc = IF w = Len(tk) THEN "append" ELSE "rows"
      BY <1>2, <2>1, <3>2 DEF TurnRecs, TurnPcs
    <3> QED
      BY <3>1, <3>3
  <2>6. TurnShape' /\ wr + 1 <= Len(tk)
    BY <1>2, <2>2, <2>5 DEF TurnShape
  <2> QED
    BY <1>2, <2>1, <2>4, <2>5, <2>6
<1>6. ASSUME FlushAppend PROVE Good
  <2>1. /\ turn' = [turn EXCEPT !.pc = "step", !.taken = <<>>, !.written = 0]
        /\ memory' = memory \o tk /\ UNCHANGED <<pending, replayed, buffer, unseen>>
    BY <1>6 DEF FlushAppend, TurnUnchanged, journal
  <2>2. memory' \in Seq(Msgs) /\ <<>> \in Seq(Msgs) /\ Len(<<>>) = 0
    BY <1>2, <2>1, SeqSteps
  <2>3. turn' \in TurnRecs /\ turn'.written = 0 /\ turn'.taken = <<>> /\ turn'.pc = "step"
    BY <1>2, <2>1, <2>2 DEF TurnRecs, TurnPcs
  <2>4. TurnShape'
    BY <2>3 DEF TurnShape
  <2> QED
    BY <1>2, <2>1, <2>2, <2>3, <2>4
<1>7. ASSUME StepDone PROVE Good
  <2>1. /\ turn.pc = "step" /\ UNCHANGED <<pending, replayed, memory, buffer, unseen>>
        /\ \/ turn.steps < MaxSteps /\ turn' = [turn EXCEPT !.pc = "before", !.steps = @ + 1]
           \/ turn' = [turn EXCEPT !.pc = "stop"]
    BY <1>7 DEF StepDone, TurnUnchanged, journal
  <2>2. turn' \in TurnRecs /\ turn'.written = wr /\ turn'.taken = tk /\ turn'.pc \in {"before", "stop"}
    <3>1. PICK n \in 0..MaxSteps : turn.steps < MaxSteps => n = turn.steps + 1
      BY <1>2, NotifyConstants
    <3>2. turn' = [turn EXCEPT !.pc = "before", !.steps = n] \/ turn' = [turn EXCEPT !.pc = "stop"]
      BY <2>1, <3>1
    <3> QED
      BY <1>2, <3>2 DEF TurnRecs, TurnPcs
  <2>3. TurnShape'
    BY <1>1, <2>1, <2>2 DEF TurnShape
  <2> QED
    BY <1>2, <2>1, <2>2, <2>3
<1>8. ASSUME StopTake PROVE Good
  <2>1. /\ turn.pc = "stop" /\ buffer' = <<>> /\ UNCHANGED <<pending, replayed, memory, unseen>>
        /\ turn' = [turn EXCEPT !.pc = IF \E m \in Range(buffer) : IsUser(m) THEN "stopmarker"
                                       ELSE "repark", !.taken = buffer]
    BY <1>8 DEF StopTake, TurnUnchanged, journal
  <2>2. wr = 0 /\ Len(buffer) \in Nat /\ <<>> \in Seq(Msgs)
        /\ ((\E m \in Range(buffer) : IsUser(m)) => 0 < Len(UserSteers(buffer)))
    BY <1>1, <1>2, <2>1, SeqSteps, Partition DEF TurnShape
  <2>3. /\ turn' \in TurnRecs /\ turn'.written = 0 /\ turn'.taken = buffer
        /\ turn'.pc \in {"stopmarker", "repark"}
        /\ turn'.pc = "stopmarker" => \E m \in Range(buffer) : IsUser(m)
    BY <1>2, <2>1, <2>2 DEF TurnRecs, TurnPcs
  <2>4. TurnShape'
    BY <2>2, <2>3 DEF TurnShape, UserSteers
  <2> QED
    BY <1>2, <2>1, <2>2, <2>3, <2>4
<1>9. ASSUME StopRepark PROVE Good
  <2>1. /\ turn.pc = "repark" /\ buffer' = buffer \o tk
        /\ UNCHANGED <<pending, replayed, memory, unseen>>
        /\ \/ turn' = NoTurn(turn.steps)
           \/ turn.steps < MaxSteps
              /\ turn' = [turn EXCEPT !.pc = "before", !.steps = @ + 1, !.taken = <<>>]
    BY <1>9 DEF StopRepark, TurnUnchanged, journal
  <2>2. wr = 0 /\ buffer' \in Seq(Msgs) /\ <<>> \in Seq(Msgs) /\ Len(<<>>) = 0
    BY <1>1, <1>2, <2>1, SeqSteps DEF TurnShape
  <2>3. turn' \in TurnRecs /\ turn'.written = 0 /\ turn'.taken = <<>> /\ turn'.pc \in {"idle", "before"}
    <3>1. PICK n \in 0..MaxSteps : turn.steps < MaxSteps => n = turn.steps + 1
      BY <1>2, NotifyConstants
    <3>2. \/ turn' = [turn EXCEPT !.pc = "before", !.steps = n, !.taken = <<>>]
          \/ turn' = NoTurn(turn.steps)
      BY <2>1, <3>1
    <3>3. CASE turn' = [turn EXCEPT !.pc = "before", !.steps = n, !.taken = <<>>]
      BY <1>2, <2>2, <3>3 DEF TurnRecs, TurnPcs
    <3>4. CASE turn' = NoTurn(turn.steps)
      BY <1>2, <2>2, <3>4 DEF TurnRecs, TurnPcs, NoTurn
    <3> QED
      BY <3>2, <3>3, <3>4
  <2>4. TurnShape'
    BY <2>3 DEF TurnShape
  <2> QED
    BY <1>2, <2>1, <2>2, <2>3, <2>4
<1>10. ASSUME StopMarker PROVE Good
  <2>1. turn' = [turn EXCEPT !.pc = "stoprows"] /\ turn.pc = "stopmarker" /\ SteerFlushed(Len(tk))
        /\ UNCHANGED <<replayed, memory, buffer, unseen>>
    BY <1>10 DEF StopMarker, TurnUnchanged
  <2>2. pending' \in Seq(Msgs)
    BY <1>2, <2>1, FlushedType
  <2>3. turn' \in TurnRecs /\ turn'.written = wr /\ turn'.taken = tk /\ turn'.pc = "stoprows"
    BY <1>2, <2>1 DEF TurnRecs, TurnPcs
  <2>4. wr = 0 /\ 0 < Len(UserSteers(tk))
    BY <1>1, <2>1 DEF TurnShape
  <2>5. TurnShape'
    BY <2>3, <2>4 DEF TurnShape, UserSteers
  <2> QED
    BY <1>2, <2>1, <2>2, <2>3, <2>5
<1>11. ASSUME StopRow PROVE Good
  <2>1. /\ turn.pc = "stoprows" /\ replayed' = Append(replayed, UserSteers(tk)[wr + 1])
        /\ turn' = [turn EXCEPT !.written = IF wr + 1 = Len(UserSteers(tk)) THEN 0 ELSE wr + 1,
                                !.pc = IF wr + 1 = Len(UserSteers(tk)) THEN "stopsteer" ELSE @]
        /\ UNCHANGED <<pending, memory, buffer, unseen>>
    BY <1>11 DEF StopRow, TurnUnchanged
  <2>2. wr < Len(UserSteers(tk)) /\ UserSteers(tk) \in Seq(Msgs) /\ Len(UserSteers(tk)) \in 0..Len(tk)
        /\ Len(Notifications(tk)) \in Nat
    BY <1>1, <1>2, <2>1, Partition DEF TurnShape
  <2>3. UserSteers(tk)[wr + 1] \in Msgs
    BY <1>2, <2>2, SeqSteps
  <2>4. replayed' \in Seq(Msgs)
    BY <1>2, <2>1, <2>3, SeqSteps
  <2>5. /\ turn' \in TurnRecs /\ turn'.taken = tk
        /\ turn'.written = IF wr + 1 = Len(UserSteers(tk)) THEN 0 ELSE wr + 1
        /\ turn'.pc = IF wr + 1 = Len(UserSteers(tk)) THEN "stopsteer" ELSE "stoprows"
    <3>1. PICK w \in Nat : w = wr + 1
      BY <1>2
    <3>2. CASE w = Len(UserSteers(tk))
      <4>1. turn' = [turn EXCEPT !.written = 0, !.pc = "stopsteer"]
        BY <2>1, <3>1, <3>2
      <4>2. turn' \in TurnRecs /\ turn'.taken = tk /\ turn'.written = 0 /\ turn'.pc = "stopsteer"
        BY <1>2, <4>1 DEF TurnRecs, TurnPcs
      <4> QED
        BY <3>1, <3>2, <4>2
    <3>3. CASE w # Len(UserSteers(tk))
      <4>1. turn' = [turn EXCEPT !.written = w, !.pc = "stoprows"]
        BY <2>1, <3>1, <3>3
      <4>2. turn' \in TurnRecs /\ turn'.taken = tk /\ turn'.written = w /\ turn'.pc = "stoprows"
        BY <1>2, <4>1 DEF TurnRecs, TurnPcs
      <4> QED
        BY <3>1, <3>3, <4>2
    <3> QED
      BY <3>2, <3>3
  <2>6. TurnShape' /\ turn'.written <= Len(tk)
    <3>1. PICK w \in Nat, n \in Nat, l \in Nat : w = wr /\ n = Len(UserSteers(tk)) /\ l = Len(tk)
      BY <1>2, <2>2
    <3>2. w < n /\ n <= l
      BY <2>2, <3>1
    <3>3. /\ turn'.pc \in {"stopsteer", "stoprows"}
          /\ turn'.pc = "stoprows" => turn'.written = w + 1 /\ w + 1 # n
          /\ turn'.pc = "stopsteer" => turn'.written = 0
      BY <2>5, <3>1
    <3>4. (turn'.pc = "stoprows" => turn'.written < n) /\ turn'.written <= l
      BY <3>1, <3>2, <3>3
    <3>5. UserSteers(turn.taken)' = UserSteers(tk) /\ Notifications(turn.taken)' = Notifications(tk)
      BY <2>5 DEF UserSteers, Notifications
    <3>6. turn'.pc = "stopsteer" => turn'.written <= Len(Notifications(tk))
      BY <2>2, <3>3
    <3> QED
      BY <3>1, <3>3, <3>4, <3>5, <3>6 DEF TurnShape
  <2> QED
    BY <1>2, <2>1, <2>4, <2>5, <2>6
<1>12. ASSUME StopSteer PROVE Good
  <2>1. /\ turn.pc = "stopsteer" /\ UNCHANGED <<replayed, memory, buffer, unseen>>
        /\ \/ wr = Len(Notifications(tk)) /\ turn' = [turn EXCEPT !.pc = "stoppush"]
              /\ pending' = pending
           \/ wr < Len(Notifications(tk)) /\ turn' = [turn EXCEPT !.written = wr + 1]
              /\ pending' = Append(pending, Notifications(tk)[wr + 1])
    BY <1>12 DEF StopSteer, TurnUnchanged
  <2>2. Notifications(tk) \in Seq(Msgs) /\ Len(Notifications(tk)) \in 0..Len(tk)
    BY <1>2, Partition
  <2>3. pending' \in Seq(Msgs)
    <3>1. wr < Len(Notifications(tk)) => Notifications(tk)[wr + 1] \in Msgs
      BY <1>2, <2>2, SeqSteps
    <3>2. \A e \in Msgs : Append(pending, e) \in Seq(Msgs)
      BY <1>2, SeqSteps
    <3> QED
      BY <1>2, <2>1, <3>1, <3>2
  <2>4. /\ turn' \in TurnRecs /\ turn'.taken = tk
        /\ \/ wr = Len(Notifications(tk)) /\ turn'.pc = "stoppush" /\ turn'.written = wr
           \/ wr < Len(Notifications(tk)) /\ turn'.pc = "stopsteer" /\ turn'.written = wr + 1
    <3>1. PICK w \in Nat : w = wr + 1
      BY <1>2
    <3>2. CASE wr = Len(Notifications(tk)) /\ turn' = [turn EXCEPT !.pc = "stoppush"]
      <4>1. turn' \in TurnRecs /\ turn'.taken = tk /\ turn'.written = wr /\ turn'.pc = "stoppush"
        BY <1>2, <3>2 DEF TurnRecs, TurnPcs
      <4> QED
        BY <3>2, <4>1
    <3>3. CASE wr < Len(Notifications(tk)) /\ turn' = [turn EXCEPT !.written = w]
      <4>1. turn' \in TurnRecs /\ turn'.taken = tk /\ turn'.written = w /\ turn'.pc = "stopsteer"
        BY <1>2, <2>1, <3>3 DEF TurnRecs, TurnPcs
      <4> QED
        BY <3>1, <3>3, <4>1
    <3> QED
      BY <2>1, <3>1, <3>2, <3>3
  <2>5. TurnShape' /\ turn'.written <= Len(tk)
    BY <1>2, <2>2, <2>4 DEF TurnShape, Notifications
  <2> QED
    BY <1>2, <2>1, <2>3, <2>4, <2>5
<1>13. ASSUME StopPush PROVE Good
  <2>1. /\ buffer' = buffer \o Notifications(tk) /\ memory' = memory \o UserSteers(tk)
        /\ unseen' = unseen \cup Crossed(Keys(tk), driver.pc = "push" \/ Steering # {})
        /\ UNCHANGED <<pending, replayed>>
        /\ turn' = [turn EXCEPT !.pc = "before", !.taken = <<>>, !.written = 0]
    BY <1>13 DEF StopPush, journal
  <2>2. buffer' \in Seq(Msgs) /\ memory' \in Seq(Msgs) /\ <<>> \in Seq(Msgs) /\ Len(<<>>) = 0
    BY <1>2, <2>1, SeqSteps, Partition
  <2>3. turn' \in TurnRecs /\ turn'.written = 0 /\ turn'.taken = <<>> /\ turn'.pc = "before"
    BY <1>2, <2>1, <2>2 DEF TurnRecs, TurnPcs
  <2>4. TurnShape' /\ unseen' \subseteq Tasks
    BY <1>2, <2>1, <2>3 DEF TurnShape, Crossed, Keys
  <2> QED
    BY <1>2, <2>1, <2>2, <2>3, <2>4
<1>14. Good
  <2> HIDE DEF Good
  <2> QED
    BY <1>3, <1>4, <1>5, <1>6, <1>7, <1>8, <1>9, <1>10, <1>11, <1>12, <1>13 DEF TurnNext
<1>15. TypedParts' /\ TurnShape'
  BY <1>0, <1>1, <1>14 DEF TypedParts, counters
<1>16. DriverShape'
  BY <1>0, <1>1, DriverKept
<1> QED
  BY <1>15, <1>16 DEF Typed, TypeOK, TypedParts, RowRecs, TurnRecs, DriverRecs

(* The idle records. *)
LEMMA Resting ==
    /\ \A n \in 0..MaxSteps :
          /\ NoTurn(n) \in TurnRecs /\ NoTurn(n).pc = "idle" /\ NoTurn(n).written = 0
          /\ NoTurn(n).taken = <<>> /\ NoTurn(n).steps = n /\ NoTurn(n).owner = "none"
    /\ Asleep \in DriverRecs /\ Asleep.pc = "sleep" /\ Asleep.queue = <<>> /\ Asleep.due = {}
    /\ [Asleep EXCEPT !.pc = "restore"] \in DriverRecs
    /\ [Asleep EXCEPT !.pc = "restore"].pc = "restore"
    /\ [Asleep EXCEPT !.pc = "restore"].queue = <<>>
    /\ \A d \in SUBSET Tasks :
          /\ [Asleep EXCEPT !.pc = "probe", !.due = d] \in DriverRecs
          /\ [Asleep EXCEPT !.pc = "probe", !.due = d].pc = "probe"
          /\ [Asleep EXCEPT !.pc = "probe", !.due = d].queue = <<>>
<1>1. <<>> \in Seq(Msgs) /\ <<>> \in Seq(Tasks) /\ None \in Tasks \cup {None}
  OBVIOUS
<1>2. ASSUME NEW n \in 0..MaxSteps
      PROVE  /\ NoTurn(n) \in TurnRecs /\ NoTurn(n).pc = "idle" /\ NoTurn(n).written = 0
             /\ NoTurn(n).taken = <<>> /\ NoTurn(n).steps = n /\ NoTurn(n).owner = "none"
  BY <1>1 DEF TurnRecs, TurnPcs, NoTurn
<1>3. Asleep \in DriverRecs /\ Asleep.pc = "sleep" /\ Asleep.queue = <<>> /\ Asleep.due = {}
  BY <1>1 DEF DriverRecs, DriverPcs, Asleep
<1>4. /\ [Asleep EXCEPT !.pc = "restore"] \in DriverRecs
      /\ [Asleep EXCEPT !.pc = "restore"].pc = "restore"
      /\ [Asleep EXCEPT !.pc = "restore"].queue = <<>>
  BY <1>3 DEF DriverRecs, DriverPcs
<1>5. ASSUME NEW d \in SUBSET Tasks
      PROVE  /\ [Asleep EXCEPT !.pc = "probe", !.due = d] \in DriverRecs
             /\ [Asleep EXCEPT !.pc = "probe", !.due = d].pc = "probe"
             /\ [Asleep EXCEPT !.pc = "probe", !.due = d].queue = <<>>
  BY <1>3 DEF DriverRecs, DriverPcs
<1> QED
  BY <1>2, <1>3, <1>4, <1>5

(* A row that is marked, or one of several. *)
LEMMA MarkedRow ==
    ASSUME row \in [Tasks -> RowRecs], NEW t \in Tasks, MarkDelivered(t)
    PROVE  /\ row' \in [Tasks -> RowRecs]
           /\ \A u \in Tasks \ {t} : row'[u] = row[u]
<1>1. row[t] \in RowRecs
  OBVIOUS
<1>2. PICK r : r = [row[t] EXCEPT !.delivered = TRUE]
  OBVIOUS
<1>3. r \in RowRecs
  BY <1>1, <1>2 DEF RowRecs
<1>4. row' = [row EXCEPT ![t] = r]
  BY <1>2 DEF MarkDelivered
<1> QED
  BY <1>3, <1>4

(* A step of the driver's tick or of the resume. *)
LEMMA TypedDriver ==
    ASSUME Typed, DriverNext
    PROVE  Typed'
<1>1. TypedParts /\ TurnShape /\ DriverShape
  BY TypeOKParts DEF Typed
<1> DEFINE Still == UNCHANGED <<turn, sent, counters>>
           Good == /\ row' \in [Tasks -> RowRecs]
                   /\ pending' \in Seq(Msgs) /\ replayed' \in Seq(Msgs)
                   /\ memory' \in Seq(Msgs) /\ buffer' \in Seq(Msgs)
                   /\ driver' \in DriverRecs /\ unseen' \subseteq Tasks
                   /\ driver'.pc \in {"push", "mark", "launch", "rappend", "rmark"}
                        => driver'.cur \in Tasks
<1>2. /\ driver \in DriverRecs /\ driver.pc \in DriverPcs /\ driver.seen \subseteq Tasks
      /\ driver.due \subseteq Tasks /\ driver.cur \in Tasks \cup {None}
      /\ driver.queue \in Seq(Tasks)
      /\ row \in [Tasks -> RowRecs] /\ pending \in Seq(Msgs) /\ replayed \in Seq(Msgs)
      /\ memory \in Seq(Msgs) /\ buffer \in Seq(Msgs) /\ unseen \subseteq Tasks
  BY <1>1 DEF TypedParts, DriverRecs
<1>3. \A s \in Seq(Msgs) : \A t \in Tasks : Append(s, t) \in Seq(Msgs)
  BY SeqSteps, NotifyConstants
<1>4. ASSUME TickScan PROVE Good
  <2>1. driver' = [driver EXCEPT !.pc = "sweep", !.seen = Keys(memory)]
        /\ UNCHANGED <<row, pending, replayed, memory, buffer, unseen>>
    BY <1>4 DEF TickScan, journal
  <2>2. driver' \in DriverRecs /\ driver'.pc = "sweep"
    BY <1>2, <2>1 DEF DriverRecs, DriverPcs, Keys
  <2> QED
    BY <1>2, <2>1, <2>2
<1>5. ASSUME TickSweep PROVE Good
  <2>1. /\ driver' = [driver EXCEPT !.pc = "due"]
        /\ UNCHANGED <<pending, replayed, memory, buffer, unseen>>
        /\ row' = [t \in Tasks |-> IF is_notification_candidate(t) /\ t \in driver.seen
                                   THEN [row[t] EXCEPT !.delivered = TRUE] ELSE row[t]]
    BY <1>5 DEF TickSweep, journal
  <2>2. \A t \in Tasks : [row[t] EXCEPT !.delivered = TRUE] \in RowRecs /\ row[t] \in RowRecs
    BY <1>2 DEF RowRecs
  <2>3. row' \in [Tasks -> RowRecs]
    BY <2>1, <2>2
  <2>4. driver' \in DriverRecs /\ driver'.pc = "due"
    BY <1>2, <2>1 DEF DriverRecs, DriverPcs
  <2> QED
    BY <1>2, <2>1, <2>3, <2>4
<1>6. ASSUME TickDue PROVE Good
  <2>1. PICK due : due = due_notifications(driver.seen, Keys(buffer))
    OBVIOUS
  <2>2. /\ driver' = IF due = {} /\ ~Stranded THEN Asleep
                     ELSE [Asleep EXCEPT !.pc = "probe", !.due = due]
        /\ unseen' = unseen \cup (due \cap (Keys(turn.taken) \cup Keys(memory)))
        /\ UNCHANGED <<row, pending, replayed, memory, buffer>>
    BY <1>6, <2>1 DEF TickDue, journal
  <2>3. due \in SUBSET Tasks
    BY <2>1 DEF due_notifications
  <2>4. driver' \in DriverRecs /\ driver'.pc \in {"sleep", "probe"}
    BY <2>2, <2>3, Resting
  <2>5. unseen' \subseteq Tasks
    BY <1>2, <2>2, <2>3
  <2> QED
    BY <1>2, <2>2, <2>4, <2>5
<1>7. ASSUME TickProbe PROVE Good
  <2>1. /\ driver' = IF turn.pc = "idle" THEN [driver EXCEPT !.pc = "wake"]
                     ELSE IF driver.due = {} THEN Asleep ELSE [driver EXCEPT !.pc = "park"]
        /\ UNCHANGED <<row, pending, replayed, memory, buffer, unseen>>
    BY <1>7 DEF TickProbe, journal
  <2>2. /\ [driver EXCEPT !.pc = "wake"] \in DriverRecs /\ [driver EXCEPT !.pc = "park"] \in DriverRecs
        /\ [driver EXCEPT !.pc = "wake"].pc = "wake" /\ [driver EXCEPT !.pc = "park"].pc = "park"
    BY <1>2 DEF DriverRecs, DriverPcs
  <2>3. driver' \in DriverRecs /\ driver'.pc \in {"wake", "park", "sleep"}
    BY <2>1, <2>2, Resting
  <2> QED
    BY <1>2, <2>1, <2>3
<1>8. ASSUME ParkRecord PROVE Good
  <2>1. PICK t \in driver.due :
          /\ pending' = Append(pending, t)
          /\ driver' = [driver EXCEPT !.pc = "push", !.cur = t, !.due = @ \ {t}]
    BY <1>8 DEF ParkRecord
  <2>2. UNCHANGED <<row, replayed, memory, buffer, unseen>>
    BY <1>8 DEF ParkRecord
  <2>3. driver' \in DriverRecs /\ driver'.cur = t
    BY <1>2, <2>1 DEF DriverRecs, DriverPcs
  <2> QED
    BY <1>2, <1>3, <2>1, <2>2, <2>3
<1>9. ASSUME ParkPush PROVE Good
  <2>1. /\ driver.pc = "push" /\ buffer' = Append(buffer, driver.cur)
        /\ unseen' = unseen \cup Crossed({driver.cur}, Steering # {})
        /\ driver' = IF driver.due = {} THEN Asleep
                     ELSE [driver EXCEPT !.pc = "park", !.cur = None]
        /\ UNCHANGED <<row, pending, replayed, memory>>
    BY <1>9 DEF ParkPush, journal
  <2>2. driver.cur \in Tasks
    BY <1>1, <2>1 DEF DriverShape
  <2>3. [driver EXCEPT !.pc = "park", !.cur = None] \in DriverRecs
        /\ [driver EXCEPT !.pc = "park", !.cur = None].pc = "park"
    BY <1>2 DEF DriverRecs, DriverPcs
  <2>4. driver' \in DriverRecs /\ driver'.pc \in {"sleep", "park"}
    BY <2>1, <2>3, Resting
  <2>5. unseen' \subseteq Tasks
    BY <1>2, <2>1, <2>2 DEF Crossed
  <2> QED
    BY <1>2, <1>3, <2>1, <2>2, <2>4, <2>5
<1>10. ASSUME Wake PROVE Good
  <2>1. UNCHANGED <<row, pending, replayed, memory, unseen>>
    BY <1>10 DEF Wake, journal
  <2>2. CASE Stranded
    <3>1. driver' = [driver EXCEPT !.pc = "wakemark", !.queue = buffer] /\ buffer' = <<>>
      BY <1>10, <2>2 DEF Wake
    <3>2. buffer \in Seq(Tasks)
      <4>1. Len(buffer) \in Nat /\ \A i \in 1..Len(buffer) : buffer[i] \in Msgs /\ buffer[i] \in Range(buffer)
        BY <1>2, SeqSteps
      <4>2. \A i \in 1..Len(buffer) : buffer[i] \in Tasks
        BY <2>2, <4>1, NotifyConstants DEF Stranded, IsUser
      <4>3. buffer \in [1..Len(buffer) -> Tasks]
        <5>1. buffer \in [1..Len(buffer) -> Msgs]
          BY <1>2, LenProperties
        <5> QED
          BY <4>2, <5>1
      <4> QED
        BY <4>1, <4>3, SeqDef
    <3>3. driver' \in DriverRecs /\ driver'.pc = "wakemark"
      BY <1>2, <3>1, <3>2 DEF DriverRecs, DriverPcs
    <3>4. buffer' \in Seq(Msgs)
      BY <3>1
    <3> QED
      BY <1>2, <2>1, <3>3, <3>4
  <2>3. CASE ~Stranded
    <3>1. driver' = [driver EXCEPT !.pc = "deliver"] /\ buffer' = buffer
      BY <1>10, <2>3 DEF Wake
    <3>2. driver' \in DriverRecs /\ driver'.pc = "deliver"
      BY <1>2, <3>1 DEF DriverRecs, DriverPcs
    <3> QED
      BY <1>2, <2>1, <3>1, <3>2
  <2> QED
    BY <2>2, <2>3
<1>11. ASSUME WakeMark PROVE Good
  <2>1. SteerFlushed(Len(driver.queue)) /\ driver' = [driver EXCEPT !.pc = "deliver"]
        /\ UNCHANGED <<row, replayed, memory, buffer, unseen>>
    BY <1>11 DEF WakeMark
  <2>2. Len(driver.queue) \in Nat
    BY <1>2, LenProperties
  <2>3. pending' \in Seq(Msgs)
    BY <1>2, <2>1, <2>2, FlushedType
  <2>4. driver' \in DriverRecs /\ driver'.pc = "deliver"
    BY <1>2, <2>1 DEF DriverRecs, DriverPcs
  <2> QED
    BY <1>2, <2>1, <2>3, <2>4
<1>12. ASSUME DeliverRecord PROVE Good
  <2>1. UNCHANGED <<row, pending, memory, buffer, unseen>>
    BY <1>12 DEF DeliverRecord
  <2>2. CASE driver.queue # <<>>
    <3>1. replayed' = Append(replayed, Head(driver.queue))
          /\ driver' = [driver EXCEPT !.pc = "mark", !.cur = Head(driver.queue), !.queue = Tail(@)]
      BY <1>12, <2>2 DEF DeliverRecord
    <3>2. Head(driver.queue) \in Tasks /\ Tail(driver.queue) \in Seq(Tasks)
      BY <1>2, <2>2, HeadTailProperties
    <3>3. driver' \in DriverRecs /\ driver'.cur = Head(driver.queue)
      BY <1>2, <3>1, <3>2 DEF DriverRecs, DriverPcs
    <3> QED
      BY <1>2, <1>3, <2>1, <3>1, <3>2, <3>3
  <2>3. CASE driver.queue = <<>>
    <3>1. PICK t \in driver.due :
            /\ replayed' = Append(replayed, t)
            /\ driver' = [driver EXCEPT !.pc = "mark", !.cur = t, !.due = @ \ {t}]
      BY <1>12, <2>3 DEF DeliverRecord
    <3>2. driver' \in DriverRecs /\ driver'.cur = t
      BY <1>2, <3>1 DEF DriverRecs, DriverPcs
    <3> QED
      BY <1>2, <1>3, <2>1, <3>1, <3>2
  <2> QED
    BY <2>2, <2>3
<1>13. ASSUME DeliverMark PROVE Good
  <2>1. driver.pc = "mark" /\ MarkDelivered(driver.cur) /\ driver' = [driver EXCEPT !.pc = "launch"]
        /\ UNCHANGED <<pending, replayed, memory, buffer, unseen>>
    BY <1>13 DEF DeliverMark, journal
  <2>2. driver.cur \in Tasks
    BY <1>1, <2>1 DEF DriverShape
  <2>3. row' \in [Tasks -> RowRecs]
    BY <1>2, <2>1, <2>2, MarkedRow
  <2>4. driver' \in DriverRecs /\ driver'.cur = driver.cur
    BY <1>2, <2>1 DEF DriverRecs, DriverPcs
  <2> QED
    BY <1>2, <2>1, <2>2, <2>3, <2>4
<1>14. ASSUME DeliverTurn PROVE Good
  <2>1. driver.pc = "launch" /\ memory' = Append(memory, driver.cur)
        /\ driver' = [driver EXCEPT !.pc = "running", !.cur = None]
        /\ UNCHANGED <<row, pending, replayed, buffer, unseen>>
    BY <1>14 DEF DeliverTurn, StartTurn, journal
  <2>2. driver.cur \in Tasks
    BY <1>1, <2>1 DEF DriverShape
  <2>3. driver' \in DriverRecs /\ driver'.pc = "running"
    BY <1>2, <2>1 DEF DriverRecs, DriverPcs
  <2> QED
    BY <1>2, <1>3, <2>1, <2>2, <2>3
<1>15. ASSUME DeliverNext PROVE Good
  <2>1. driver' = [driver EXCEPT !.pc = "deliver"]
        /\ UNCHANGED <<row, pending, replayed, memory, buffer, unseen>>
    BY <1>15 DEF DeliverNext, journal
  <2>2. driver' \in DriverRecs /\ driver'.pc = "deliver"
    BY <1>2, <2>1 DEF DriverRecs, DriverPcs
  <2> QED
    BY <1>2, <2>1, <2>2
<1>16. ASSUME TickEnds \/ RestoreEnds PROVE Good
  <2>1. driver' = Asleep /\ UNCHANGED <<row, pending, replayed, memory, buffer, unseen>>
    BY <1>16 DEF TickEnds, RestoreEnds, journal
  <2> QED
    BY <1>2, <2>1, Resting
<1>17. ASSUME RestoreRecord PROVE Good
  <2>1. PICK t \in Tasks :
          /\ replayed' = Append(replayed, t)
          /\ driver' = [driver EXCEPT !.pc = "rappend", !.cur = t]
    BY <1>17 DEF RestoreRecord, due_notifications
  <2>2. UNCHANGED <<row, pending, memory, buffer, unseen>>
    BY <1>17 DEF RestoreRecord
  <2>3. driver' \in DriverRecs /\ driver'.cur = t
    BY <1>2, <2>1 DEF DriverRecs, DriverPcs
  <2> QED
    BY <1>2, <1>3, <2>1, <2>2, <2>3
<1>18. ASSUME RestoreAppend PROVE Good
  <2>1. driver.pc = "rappend" /\ memory' = Append(memory, driver.cur)
        /\ driver' = [driver EXCEPT !.pc = "rmark"]
        /\ UNCHANGED <<row, pending, replayed, buffer, unseen>>
    BY <1>18 DEF RestoreAppend, journal
  <2>2. driver.cur \in Tasks
    BY <1>1, <2>1 DEF DriverShape
  <2>3. driver' \in DriverRecs /\ driver'.cur = driver.cur
    BY <1>2, <2>1 DEF DriverRecs, DriverPcs
  <2> QED
    BY <1>2, <1>3, <2>1, <2>2, <2>3
<1>19. ASSUME RestoreMark PROVE Good
  <2>1. driver.pc = "rmark" /\ MarkDelivered(driver.cur)
        /\ driver' = [driver EXCEPT !.pc = "restore", !.cur = None]
        /\ UNCHANGED <<pending, replayed, memory, buffer, unseen>>
    BY <1>19 DEF RestoreMark, journal
  <2>2. driver.cur \in Tasks
    BY <1>1, <2>1 DEF DriverShape
  <2>3. row' \in [Tasks -> RowRecs]
    BY <1>2, <2>1, <2>2, MarkedRow
  <2>4. driver' \in DriverRecs /\ driver'.pc = "restore"
    BY <1>2, <2>1 DEF DriverRecs, DriverPcs
  <2> QED
    BY <1>2, <2>1, <2>3, <2>4
<1>20. Good
  <2> HIDE DEF Good
  <2> QED
    BY <1>4, <1>5, <1>6, <1>7, <1>8, <1>9, <1>10, <1>11, <1>12, <1>13, <1>14, <1>15, <1>16,
      <1>17, <1>18, <1>19 DEF DriverNext
<1>21. /\ sent' = sent /\ UNCHANGED <<crashes, aborts, defers, undos, compactions>>
       /\ turn' = turn \/ (turn.pc = "idle" /\ turn' = [turn EXCEPT !.pc = "before", !.owner = "driver"])
  BY DEF DriverNext, TickScan, TickSweep, TickDue, TickProbe, ParkRecord, ParkPush, Wake, WakeMark,
    DeliverRecord, DeliverMark, DeliverTurn, DeliverNext, TickEnds, RestoreRecord, RestoreAppend,
    RestoreMark, RestoreEnds, DriverUnchanged, StartTurn, counters
<1>22. turn' \in TurnRecs /\ turn'.written <= Len(turn'.taken) /\ TurnShape'
  <2>1. CASE turn' = turn
    BY <1>1, <2>1, TurnKept DEF TypedParts
  <2>2. CASE turn.pc = "idle" /\ turn' = [turn EXCEPT !.pc = "before", !.owner = "driver"]
    <3>1. /\ turn' \in TurnRecs /\ turn'.pc = "before" /\ turn'.written = turn.written
          /\ turn'.taken = turn.taken
      BY <1>1, <2>2 DEF TypedParts, TurnRecs, TurnPcs
    <3> QED
      BY <1>1, <2>2, <3>1 DEF TypedParts, TurnShape
  <2> QED
    BY <1>21, <2>1, <2>2
<1>23. DriverShape'
  BY <1>20 DEF DriverShape
<1>24. TypedParts'
  BY <1>1, <1>20, <1>21, <1>22 DEF TypedParts
<1> QED
  BY <1>22, <1>23, <1>24 DEF Typed, TypeOK, TypedParts, RowRecs, TurnRecs, DriverRecs

(* The start of a list is a list. *)
LEMMA PrefixType ==
    ASSUME NEW s \in Seq(Msgs), NEW i \in DOMAIN s
    PROVE  SubSeq(s, 1, i - 1) \in Seq(Msgs)
<1>1. Len(s) \in Nat /\ DOMAIN s = 1..Len(s) /\ \A k \in 1..Len(s) : s[k] \in Msgs
  BY LenProperties, ElementOfSeq
<1>2. PICK j \in Int : j = i - 1
  BY <1>1
<1>3. 1 \in Int /\ \A k \in 1..j : s[k] \in Msgs
  BY <1>1, <1>2
<1>4. SubSeq(s, 1, j) \in Seq(Msgs)
  BY <1>2, <1>3, SubSeqProperties
<1> QED
  BY <1>2, <1>4

(* A fault: a compaction, an abort, no provider, an undo, a crash. *)
LEMMA TypedFault ==
    ASSUME Typed, Compact \/ TurnAborted \/ TickDefer \/ Undo \/ Crash
    PROVE  Typed'
<1>1. TypedParts /\ TurnShape /\ DriverShape
  BY TypeOKParts DEF Typed
<1>2. /\ crashes' \in 0..MaxCrashes /\ aborts' \in 0..MaxAborts /\ defers' \in 0..MaxDefers
      /\ undos' \in 0..MaxUndos /\ compactions' \in 0..MaxCompactions
  <2>1. /\ crashes \in 0..MaxCrashes /\ aborts \in 0..MaxAborts /\ defers \in 0..MaxDefers
        /\ undos \in 0..MaxUndos /\ compactions \in 0..MaxCompactions
    BY <1>1 DEF TypedParts
  <2>2. /\ crashes' = crashes \/ (crashes < MaxCrashes /\ crashes' = crashes + 1)
        /\ aborts' = aborts \/ (aborts < MaxAborts /\ aborts' = aborts + 1)
        /\ defers' = defers \/ (defers < MaxDefers /\ defers' = defers + 1)
        /\ undos' = undos \/ (undos < MaxUndos /\ undos' = undos + 1)
        /\ compactions' = compactions
           \/ (compactions < MaxCompactions /\ compactions' = compactions + 1)
    BY Zenon DEF Compact, TurnAborted, TickDefer, Undo, Crash
  <2> QED
    BY <2>1, <2>2, NotifyConstants
<1>3. row' \in [Tasks -> RowRecs]
  <2>1. \A t \in Tasks : /\ row[t] \in RowRecs
                         /\ [row[t] EXCEPT !.delivered = FALSE] \in RowRecs
                         /\ [row[t] EXCEPT !.done = TRUE] \in RowRecs
    BY <1>1 DEF TypedParts, RowRecs
  <2>2. CASE Compact \/ TurnAborted \/ TickDefer
    BY <1>1, <2>2 DEF TypedParts, Compact, TurnAborted, TickDefer
  <2>3. CASE Undo
    <3>1. PICK cleared : row' = [t \in Tasks |-> IF t \in cleared
                                   THEN [row[t] EXCEPT !.delivered = FALSE] ELSE row[t]]
      BY <2>3 DEF Undo
    <3> QED
      BY <2>1, <3>1
  <2>4. CASE Crash
    BY <2>1, <2>4 DEF Crash
  <2> QED
    BY <2>2, <2>3, <2>4
<1>4. /\ pending' \in Seq(Msgs) /\ replayed' \in Seq(Msgs)
      /\ memory' \in Seq(Msgs) /\ buffer' \in Seq(Msgs)
  <2>1. CASE Compact
    <3>1. \A P : \A s \in Seq(Msgs) : Pick(s, P) \in Seq(Msgs)
      <4> SUFFICES ASSUME NEW P, NEW s \in Seq(Msgs) PROVE Pick(s, P) \in Seq(Msgs)
        OBVIOUS
      <4>1. Pick(s, P) \in Seq(Msgs \cap P) /\ Msgs \cap P \subseteq Msgs
        BY PickType
      <4> QED
        BY <4>1, SeqMonotonic
    <3> QED
      BY <1>1, <2>1, <3>1 DEF TypedParts, Compact
  <2>2. CASE TurnAborted \/ TickDefer \/ Crash
    BY <1>1, <2>2 DEF TypedParts, TurnAborted, TickDefer, Crash, journal
  <2>3. CASE Undo
    <3>1. PICK i \in DOMAIN memory : memory' = SubSeq(memory, 1, i - 1)
      BY <2>3 DEF Undo
    <3>2. memory' \in Seq(Msgs)
      BY <1>1, <3>1, PrefixType DEF TypedParts
    <3> QED
      BY <1>1, <2>3, <3>2 DEF TypedParts, Undo, journal
  <2> QED
    BY <2>1, <2>2, <2>3
<1>5. turn' \in TurnRecs /\ turn'.written <= Len(turn'.taken) /\ TurnShape'
  <2>1. CASE Compact \/ TickDefer \/ Undo
    <3>1. turn' = turn
      BY <2>1 DEF Compact, TickDefer, Undo
    <3> QED
      BY <1>1, <3>1, TurnKept DEF TypedParts
  <2>2. CASE TurnAborted \/ Crash
    <3>1. turn' = NoTurn(turn.steps) /\ turn.steps \in 0..MaxSteps
      BY <1>1, <2>2 DEF TypedParts, TurnRecs, TurnAborted, Crash
    <3>2. turn' \in TurnRecs /\ turn'.pc = "idle" /\ turn'.written = 0 /\ turn'.taken = <<>>
      BY <3>1, Resting
    <3>3. Len(turn'.taken) = 0
      BY <3>2
    <3> QED
      BY <3>2, <3>3 DEF TurnShape
  <2> QED
    BY <2>1, <2>2
<1>6. driver' \in DriverRecs /\ DriverShape'
  <2>1. CASE Compact \/ TurnAborted \/ Undo
    BY <1>1, <2>1, DriverKept DEF TypedParts, Compact, TurnAborted, Undo
  <2>2. CASE TickDefer
    <3>1. driver' = Asleep
      BY <2>2 DEF TickDefer
    <3> QED
      BY <3>1, Resting DEF DriverShape
  <2>3. CASE Crash
    <3>1. driver' = [Asleep EXCEPT !.pc = "restore"]
      BY <2>3 DEF Crash
    <3>2. driver' \in DriverRecs /\ driver'.pc = "restore"
      BY <3>1, Resting
    <3> QED
      BY <3>2 DEF DriverShape
  <2> QED
    BY <2>1, <2>2, <2>3
<1>7. unseen' \subseteq Tasks
  <2>1. CASE Undo
    <3>1. PICK x : unseen' = unseen \cup Keys(x)
      BY <2>1 DEF Undo
    <3> QED
      BY <1>1, <3>1 DEF TypedParts, Keys
  <2>2. CASE Compact \/ TurnAborted \/ TickDefer \/ Crash
    BY <1>1, <2>2 DEF TypedParts, Compact, TurnAborted, TickDefer, Crash, Keys
  <2> QED
    BY <2>1, <2>2
<1>8. sent' \in [UserMsgs -> {"no", "steering", "launching", "yes"}]
  <2>1. CASE Compact \/ TurnAborted \/ TickDefer \/ Undo
    BY <1>1, <2>1 DEF TypedParts, Compact, TurnAborted, TickDefer, Undo
  <2>2. CASE Crash
    BY <1>1, <2>2 DEF TypedParts, Crash
  <2> QED
    BY <2>1, <2>2
<1>9. TypedParts'
  BY <1>2, <1>3, <1>4, <1>5, <1>6, <1>7, <1>8 DEF TypedParts
<1> QED
  BY <1>5, <1>6, <1>9 DEF Typed, TypeOK, TypedParts, RowRecs, TurnRecs, DriverRecs

LEMMA TypedInit == Init => Typed
<1> SUFFICES ASSUME Init PROVE Typed
  OBVIOUS
<1>1. row \in [Tasks -> RowRecs]
  <2>1. [done |-> FALSE, suppressed |-> FALSE, delivered |-> FALSE] \in RowRecs
    BY DEF RowRecs
  <2> QED
    BY <2>1 DEF Init
<1>2. <<>> \in Seq(Msgs) /\ Len(<<>>) = 0 /\ 0 \in 0..MaxSteps
  BY NotifyConstants
<1>3. /\ turn \in TurnRecs /\ turn.pc = "idle" /\ turn.written = 0 /\ turn.taken = <<>>
      /\ driver \in DriverRecs /\ driver.pc = "sleep"
  BY <1>2, Resting DEF Init
<1>4. TurnShape /\ DriverShape
  BY <1>3 DEF TurnShape, DriverShape
<1>5. TypedParts
  BY <1>1, <1>2, <1>3, NotifyConstants DEF TypedParts, Init
<1> QED
  BY <1>4, <1>5, TypeOKParts DEF Typed

LEMMA TypedStep == Typed /\ [Next]_vars => Typed'
<1> SUFFICES ASSUME Typed, [Next]_vars PROVE Typed'
  OBVIOUS
<1>1. CASE Next
  BY <1>1, TypedTask, TypedRequest, TypedTurn, TypedDriver, TypedFault DEF Next
<1>2. CASE UNCHANGED vars
  <2>1. TurnShape' /\ DriverShape'
    BY <1>2, TurnKept, DriverKept DEF Typed, vars
  <2>2. TypeOK'
    BY <1>2 DEF Typed, TypeOK, vars, journal, counters
  <2> QED
    BY <2>1, <2>2 DEF Typed
<1> QED
  BY <1>1, <1>2

-----------------------------------------------------------------------------
(* The balance of the journal's queue: who holds what was recorded. *)
Held == IF turn.pc \in {"marker", "stopmarker", "repark"} THEN Len(turn.taken) ELSE 0
Rerecorded == IF turn.pc \in {"stopsteer", "stoppush"} THEN turn.written ELSE 0
Woken == IF driver.pc = "wakemark" THEN Len(driver.queue) ELSE 0
Pushing == IF driver.pc = "push" THEN 1 ELSE 0
Steered == Cardinality(Steering)
Total == Len(buffer) + Held + Rerecorded + Woken + Pushing + Steered

LEMMA BalanceParts ==
    /\ PendingBalances <=> Len(pending) = Total
    /\ (PendingBalances <=> Len(pending) = Total)'
BY DEF PendingBalances, Total, Held, Rerecorded, Woken, Pushing, Steered, Steering

LEMMA BalanceTypes ==
    ASSUME Typed
    PROVE  /\ Len(buffer) \in Nat /\ Len(pending) \in Nat
           /\ Held \in Nat /\ Rerecorded \in Nat /\ Woken \in Nat /\ Pushing \in Nat
           /\ Steered \in Nat /\ IsFiniteSet(Steering)
<1>1. TypedParts
  BY TypeOKParts DEF Typed
<1>2. Len(buffer) \in Nat /\ Len(pending) \in Nat
  BY <1>1, LenProperties DEF TypedParts
<1>3. Len(turn.taken) \in Nat /\ turn.written \in Nat /\ Len(driver.queue) \in Nat
  BY <1>1, LenProperties DEF TypedParts, TurnRecs, DriverRecs
<1>4. IsFiniteSet(Steering)
  <2>1. Steering \subseteq UserMsgs
    BY DEF Steering
  <2> QED
    BY <2>1, NotifyConstants, FS_Subset
<1>5. Steered \in Nat
  BY <1>4, FS_CardinalityType DEF Steered
<1> QED
  BY <1>2, <1>3, <1>4, <1>5 DEF Held, Rerecorded, Woken, Pushing

LEMMA BalanceRequest ==
    ASSUME Typed, PendingBalances, NEW m \in UserMsgs,
           SteerRecord(m) \/ SteerPush(m) \/ LaunchRecord(m) \/ LaunchTurn(m)
    PROVE  PendingBalances'
<1>1. TypedParts /\ m \in Msgs
  BY TypeOKParts, NotifyConstants DEF Typed
<1>2. /\ Len(buffer) \in Nat /\ Len(pending) \in Nat /\ Held \in Nat /\ Rerecorded \in Nat
      /\ Woken \in Nat /\ Pushing \in Nat /\ Steered \in Nat /\ IsFiniteSet(Steering)
  BY BalanceTypes
<1>3. Len(pending) = Total
  BY BalanceParts
<1>4. sent \in [UserMsgs -> {"no", "steering", "launching", "yes"}]
      /\ buffer \in Seq(Msgs) /\ pending \in Seq(Msgs)
  BY <1>1 DEF TypedParts
<1> SUFFICES Len(pending)' = Total'
  BY BalanceParts
<1>5. Woken' = Woken /\ Pushing' = Pushing
  BY DEF SteerRecord, SteerPush, LaunchRecord, LaunchTurn, Woken, Pushing
<1>6. CASE SteerRecord(m)
  <2>1. Len(pending)' = Len(pending) + 1 /\ Len(buffer)' = Len(buffer)
    BY <1>1, <1>4, <1>6, SeqSteps DEF SteerRecord
  <2>2. Held' = Held /\ Rerecorded' = Rerecorded
    BY <1>6 DEF SteerRecord, Held, Rerecorded
  <2>3. Steering' = Steering \cup {m} /\ m \notin Steering
    BY <1>4, <1>6 DEF SteerRecord, Steering
  <2>4. Steered' = Steered + 1
    BY <1>2, <2>3, FS_AddElement DEF Steered
  <2> QED
    BY <1>2, <1>3, <1>5, <2>1, <2>2, <2>4 DEF Total
<1>7. CASE SteerPush(m)
  <2>1. Len(pending)' = Len(pending) /\ Len(buffer)' = Len(buffer) + 1
    BY <1>1, <1>4, <1>7, SeqSteps DEF SteerPush, journal
  <2>2. Held' = Held /\ Rerecorded' = Rerecorded
    BY <1>7 DEF SteerPush, Held, Rerecorded
  <2>3. Steering' = Steering \ {m} /\ m \in Steering
    BY <1>4, <1>7 DEF SteerPush, Steering
  <2>4. Steered' = Steered - 1
    BY <1>2, <2>3, FS_RemoveElement DEF Steered
  <2> QED
    BY <1>2, <1>3, <1>5, <2>1, <2>2, <2>4 DEF Total
<1>8. CASE LaunchRecord(m) \/ LaunchTurn(m)
  <2>1. Len(pending)' = Len(pending) /\ Len(buffer)' = Len(buffer)
    BY <1>8 DEF LaunchRecord, LaunchTurn, journal
  <2>2. Held' = Held /\ Rerecorded' = Rerecorded
    <3>1. CASE LaunchRecord(m)
      BY <3>1 DEF LaunchRecord, Held, Rerecorded
    <3>2. CASE LaunchTurn(m)
      <4>1. turn.pc = "idle" /\ turn'.pc = "before"
        BY <1>1, <3>2 DEF LaunchTurn, StartTurn, TypedParts, TurnRecs
      <4> QED
        BY <4>1 DEF Held, Rerecorded
    <3> QED
      BY <1>8, <3>1, <3>2
  <2>3. Steering' = Steering
    BY <1>4, <1>8 DEF LaunchRecord, LaunchTurn, Steering
  <2> QED
    BY <1>2, <1>3, <1>5, <2>1, <2>2, <2>3 DEF Total, Steered
<1> QED
  BY <1>6, <1>7, <1>8

LEMMA BalanceTurn ==
    ASSUME Typed, PendingBalances, TurnNext
    PROVE  PendingBalances'
<1>1. TypedParts /\ TurnShape
  BY TypeOKParts DEF Typed
<1>2. /\ Len(buffer) \in Nat /\ Len(pending) \in Nat /\ Held \in Nat /\ Rerecorded \in Nat
      /\ Woken \in Nat /\ Pushing \in Nat /\ Steered \in Nat
  BY BalanceTypes
<1>3. Len(pending) = Total
  BY BalanceParts
<1>4. /\ buffer \in Seq(Msgs) /\ pending \in Seq(Msgs) /\ turn \in TurnRecs
      /\ turn.taken \in Seq(Msgs) /\ turn.written \in Nat /\ Len(turn.taken) \in Nat
  BY <1>1, LenProperties DEF TypedParts, TurnRecs
<1>14. turn.written \in Nat /\ Len(turn.taken) \in Nat
  BY <1>4
<1> SUFFICES Len(pending)' = Total'
  BY BalanceParts
<1>5. Woken' = Woken /\ Pushing' = Pushing /\ Steered' = Steered
  <2>1. driver' = driver /\ sent' = sent
    BY DEF TurnNext, FlushTake, FlushMarker, FlushRow, FlushAppend, StepDone, StopTake, StopRepark,
      StopMarker, StopRow, StopSteer, StopPush, TurnUnchanged
  <2> QED
    BY <2>1 DEF Woken, Pushing, Steered, Steering
<1>6. CASE FlushTake
  <2>1. /\ turn.pc = "before" /\ buffer' = <<>> /\ pending' = pending
        /\ turn'.taken = buffer
        /\ turn'.pc = IF buffer = <<>> THEN "step" ELSE "marker"
    BY <1>4, <1>6 DEF FlushTake, journal, TurnRecs
  <2>2. Held = 0 /\ Rerecorded = 0 /\ Rerecorded' = 0 /\ Len(buffer') = 0
    BY <2>1 DEF Held, Rerecorded
  <2>3. Held' = Len(buffer)
    BY <1>4, <2>1, SeqSteps DEF Held
  <2> QED
    BY <1>2, <1>3, <1>5, <2>1, <2>2, <2>3 DEF Total
<1>7. CASE FlushMarker \/ StopMarker
  <2>1. /\ turn.pc \in {"marker", "stopmarker"} /\ SteerFlushed(Len(turn.taken)) /\ buffer' = buffer
        /\ turn'.pc \in {"rows", "stoprows"}
    BY <1>4, <1>7 DEF FlushMarker, StopMarker, TurnRecs
  <2>2. Held = Len(turn.taken) /\ Rerecorded = 0 /\ Held' = 0 /\ Rerecorded' = 0
    BY <2>1 DEF Held, Rerecorded
  <2>3. Len(turn.taken) <= Len(pending)
    BY <1>2, <1>3, <1>4, <2>2 DEF Total
  <2>4. Len(pending') = Len(pending) - Len(turn.taken)
    BY <1>4, <2>1, <2>3, FlushedType
  <2>5. PICK b \in Nat : b = Len(buffer)
    BY <1>2
  <2>6. Total = b + Held + Woken + Pushing + Steered /\ Total' = b + Woken + Pushing + Steered
    BY <1>2, <1>5, <2>1, <2>2, <2>5 DEF Total
  <2>7. Total - Held = Total'
    BY <1>2, <2>6
  <2> QED
    BY <1>3, <2>2, <2>4, <2>7
<1>8. CASE FlushRow \/ FlushAppend \/ StepDone
  <2>1. /\ turn.pc \in {"rows", "append", "step"} /\ buffer' = buffer /\ pending' = pending
        /\ turn'.pc \in {"rows", "append", "step", "before", "stop"}
    BY <1>4, <1>8 DEF FlushRow, FlushAppend, StepDone, TurnRecs, journal
  <2>2. Held = 0 /\ Rerecorded = 0 /\ Held' = 0 /\ Rerecorded' = 0
    BY <2>1 DEF Held, Rerecorded
  <2> QED
    BY <1>2, <1>3, <1>5, <2>1, <2>2 DEF Total
<1>9. CASE StopTake
  <2>1. /\ turn.pc = "stop" /\ buffer' = <<>> /\ pending' = pending
        /\ turn'.taken = buffer /\ turn'.pc \in {"stopmarker", "repark"}
    BY <1>4, <1>9 DEF StopTake, journal, TurnRecs
  <2>2. Held = 0 /\ Rerecorded = 0 /\ Rerecorded' = 0 /\ Len(buffer') = 0 /\ Held' = Len(buffer)
    BY <2>1 DEF Held, Rerecorded
  <2> QED
    BY <1>2, <1>3, <1>5, <2>1, <2>2 DEF Total
<1>10. CASE StopRepark
  <2>1. /\ turn.pc = "repark" /\ buffer' = buffer \o turn.taken /\ pending' = pending
        /\ turn'.pc \in {"idle", "before"}
    <3>1. PICK n : n = turn.steps + 1
      OBVIOUS
    <3>2. /\ turn.pc = "repark" /\ buffer' = buffer \o turn.taken /\ pending' = pending
          /\ \/ turn' = NoTurn(turn.steps)
             \/ turn' = [turn EXCEPT !.pc = "before", !.steps = n, !.taken = <<>>]
      BY <1>10, <3>1 DEF StopRepark, journal
    <3>3. NoTurn(turn.steps).pc = "idle"
          /\ [turn EXCEPT !.pc = "before", !.steps = n, !.taken = <<>>].pc = "before"
      BY <1>4 DEF NoTurn, TurnRecs
    <3> QED
      BY <3>2, <3>3
  <2>2. Held = Len(turn.taken) /\ Rerecorded = 0 /\ Held' = 0 /\ Rerecorded' = 0
    BY <2>1 DEF Held, Rerecorded
  <2>3. Len(buffer') = Len(buffer) + Len(turn.taken)
    BY <1>4, <2>1, SeqSteps
  <2> QED
    BY <1>2, <1>3, <1>4, <1>5, <2>1, <2>2, <2>3 DEF Total
<1>11. CASE StopRow
  <2>1. /\ turn.pc = "stoprows" /\ buffer' = buffer /\ pending' = pending
        /\ turn'.pc = "stoprows" \/ (turn'.pc = "stopsteer" /\ turn'.written = 0)
    <3>1. turn.written + 1 = Len(UserSteers(turn.taken))
            => turn' = [turn EXCEPT !.written = 0, !.pc = "stopsteer"]
      BY <1>11 DEF StopRow
    <3>2. PICK w : w = turn.written + 1
      OBVIOUS
    <3>3. turn.written + 1 # Len(UserSteers(turn.taken))
            => turn' = [turn EXCEPT !.written = w]
      BY <1>4, <1>11, <3>2 DEF StopRow, TurnRecs
    <3>4. turn.pc = "stoprows" /\ buffer' = buffer /\ pending' = pending
      BY <1>11 DEF StopRow
    <3> QED
      BY <1>4, <3>1, <3>3, <3>4 DEF TurnRecs
  <2>2. Held = 0 /\ Rerecorded = 0 /\ Held' = 0 /\ Rerecorded' = 0
    BY <2>1 DEF Held, Rerecorded
  <2> QED
    BY <1>2, <1>3, <1>5, <2>1, <2>2 DEF Total
<1>12. CASE StopSteer
  <2>1. turn.pc = "stopsteer" /\ buffer' = buffer
    BY <1>12 DEF StopSteer
  <2>2. Held = 0 /\ Rerecorded = turn.written
    BY <2>1 DEF Held, Rerecorded
  <2>3. CASE turn' = [turn EXCEPT !.pc = "stoppush"] /\ pending' = pending
    <3>1. turn'.pc = "stoppush" /\ turn'.written = turn.written
      BY <1>4, <2>3 DEF TurnRecs
    <3>2. Held' = 0 /\ Rerecorded' = turn.written
      BY <3>1 DEF Held, Rerecorded
    <3> QED
      BY <1>2, <1>3, <1>5, <2>1, <2>2, <2>3, <3>2 DEF Total
  <2>4. CASE /\ turn.written < Len(Notifications(turn.taken))
             /\ pending' = Append(pending, Notifications(turn.taken)[turn.written + 1])
             /\ turn' = [turn EXCEPT !.written = @ + 1]
    <3>1. turn'.pc = "stopsteer" /\ turn'.written = turn.written + 1
      <4>1. PICK w : w = turn.written + 1
        OBVIOUS
      <4>2. turn' = [turn EXCEPT !.written = w]
        BY <2>4, <4>1
      <4> QED
        BY <1>4, <2>1, <4>1, <4>2 DEF TurnRecs
    <3>2. Held' = 0 /\ Rerecorded' = turn.written + 1
      BY <3>1 DEF Held, Rerecorded
    <3>3. Len(pending') = Len(pending) + 1
      <4>1. Notifications(turn.taken) \in Seq(Msgs)
        BY <1>4, Partition
      <4>2. Notifications(turn.taken)[turn.written + 1] \in Msgs
        BY <1>4, <2>4, <4>1, SeqSteps
      <4>3. \A e \in Msgs : Len(Append(pending, e)) = Len(pending) + 1
        BY <1>4, SeqSteps
      <4> QED
        BY <2>4, <4>2, <4>3
    <3>4. Total = Len(buffer) + turn.written + Woken + Pushing + Steered
          /\ Total' = Len(buffer) + (turn.written + 1) + Woken + Pushing + Steered
      BY <1>2, <1>14, <1>5, <2>1, <2>2, <3>2 DEF Total
    <3>5. PICK b \in Nat, w \in Nat : b = Len(buffer) /\ w = turn.written
      BY <1>2, <1>14
    <3>6. PICK k \in Nat, l \in Nat, m \in Nat : k = Woken /\ l = Pushing /\ m = Steered
      BY <1>2
    <3>7. Total = b + w + k + l + m /\ Total' = b + (w + 1) + k + l + m
      BY <3>4, <3>5, <3>6, Zenon
    <3>8. b + (w + 1) + k + l + m = (b + w + k + l + m) + 1
      BY SMT
    <3>9. Total' = Total + 1
      BY <3>7, <3>8, Zenon
    <3> QED
      BY <1>3, <3>3, <3>9, Zenon
  <2> QED
    BY <1>12, <2>3, <2>4 DEF StopSteer
<1>13. CASE StopPush
  <2>1. /\ turn.pc = "stoppush" /\ buffer' = buffer \o Notifications(turn.taken)
        /\ pending' = pending /\ turn'.pc = "before"
    BY <1>4, <1>13 DEF StopPush, journal, TurnRecs
  <2>2. Held = 0 /\ Rerecorded = turn.written /\ Held' = 0 /\ Rerecorded' = 0
    BY <2>1 DEF Held, Rerecorded
  <2>3. Notifications(turn.taken) \in Seq(Msgs)
    BY <1>4, Partition
  <2>4. Len(buffer') = Len(buffer) + Len(Notifications(turn.taken))
    BY <1>4, <2>1, <2>3, SeqSteps
  <2>5. turn.written = Len(Notifications(turn.taken))
    BY <1>1, <2>1 DEF TurnShape
  <2> QED
    BY <1>2, <1>3, <1>4, <1>5, <2>1, <2>2, <2>4, <2>5 DEF Total
<1> QED
  BY <1>6, <1>7, <1>8, <1>9, <1>10, <1>11, <1>12, <1>13 DEF TurnNext

LEMMA BalanceDriver ==
    ASSUME Typed, PendingBalances, DriverNext
    PROVE  PendingBalances'
<1>1. TypedParts /\ DriverShape
  BY TypeOKParts DEF Typed
<1>2. /\ Len(buffer) \in Nat /\ Len(pending) \in Nat /\ Held \in Nat /\ Rerecorded \in Nat
      /\ Woken \in Nat /\ Pushing \in Nat /\ Steered \in Nat
  BY BalanceTypes
<1>3. Len(pending) = Total
  BY BalanceParts
<1>4. buffer \in Seq(Msgs) /\ pending \in Seq(Msgs) /\ driver \in DriverRecs /\ turn \in TurnRecs
      /\ driver.queue \in Seq(Tasks)
  BY <1>1 DEF TypedParts, DriverRecs
<1> SUFFICES Len(pending)' = Total'
  BY BalanceParts
<1>5. Held' = Held /\ Rerecorded' = Rerecorded /\ Steered' = Steered
  <2>1. /\ sent' = sent
        /\ turn' = turn
           \/ (turn.pc = "idle" /\ turn' = [turn EXCEPT !.pc = "before", !.owner = "driver"])
    BY DEF DriverNext, TickScan, TickSweep, TickDue, TickProbe, ParkRecord, ParkPush, Wake, WakeMark,
      DeliverRecord, DeliverMark, DeliverTurn, DeliverNext, TickEnds, RestoreRecord, RestoreAppend,
      RestoreMark, RestoreEnds, DriverUnchanged, StartTurn
  <2>2. turn' = turn \/ (turn.pc = "idle" /\ turn'.pc = "before")
    BY <1>4, <2>1 DEF TurnRecs
  <2> QED
    BY <2>1, <2>2 DEF Held, Rerecorded, Steered, Steering
<1>6. CASE ParkRecord
  <2>1. PICK t \in driver.due :
          /\ pending' = Append(pending, t)
          /\ driver' = [driver EXCEPT !.pc = "push", !.cur = t, !.due = @ \ {t}]
    BY <1>6 DEF ParkRecord
  <2>2. driver.pc = "park" /\ driver'.pc = "push" /\ buffer' = buffer /\ t \in Msgs
    BY <1>4, <1>6, <2>1, NotifyConstants DEF ParkRecord, DriverRecs
  <2>3. Woken = 0 /\ Pushing = 0 /\ Woken' = 0 /\ Pushing' = 1
    BY <2>2 DEF Woken, Pushing
  <2>4. Len(pending') = Len(pending) + 1
    BY <1>4, <2>1, <2>2, SeqSteps
  <2>5. Total' = Total + 1
    BY <1>2, <1>5, <2>2, <2>3 DEF Total
  <2> QED
    BY <1>3, <2>4, <2>5
<1>7. CASE ParkPush
  <2>1. /\ driver.pc = "push" /\ buffer' = Append(buffer, driver.cur) /\ pending' = pending
        /\ driver' = IF driver.due = {} THEN Asleep
                     ELSE [driver EXCEPT !.pc = "park", !.cur = None]
    BY <1>7 DEF ParkPush, journal
  <2>2. driver'.pc \in {"sleep", "park"} /\ driver.cur \in Msgs
    <3>1. [driver EXCEPT !.pc = "park", !.cur = None].pc = "park"
      BY <1>4 DEF DriverRecs
    <3> QED
      BY <1>1, <2>1, <3>1, Resting, NotifyConstants DEF DriverShape
  <2>3. Woken = 0 /\ Pushing = 1 /\ Woken' = 0 /\ Pushing' = 0
    BY <2>1, <2>2 DEF Woken, Pushing
  <2>4. Len(buffer)' = Len(buffer) + 1
    BY <1>4, <2>1, <2>2, SeqSteps
  <2> QED
    BY <1>2, <1>3, <1>5, <2>1, <2>3, <2>4 DEF Total
<1>8. CASE Wake
  <2>1. driver.pc = "wake" /\ pending' = pending
    BY <1>8 DEF Wake, journal
  <2>2. CASE Stranded
    <3>1. driver' = [driver EXCEPT !.pc = "wakemark", !.queue = buffer] /\ buffer' = <<>>
      BY <1>8, <2>2 DEF Wake
    <3>2. driver'.pc = "wakemark" /\ driver'.queue = buffer
      BY <1>4, <3>1 DEF DriverRecs
    <3>3. Woken = 0 /\ Pushing = 0 /\ Woken' = Len(buffer) /\ Pushing' = 0 /\ Len(buffer)' = 0
      BY <2>1, <3>1, <3>2 DEF Woken, Pushing
    <3> QED
      BY <1>2, <1>3, <1>5, <2>1, <3>3 DEF Total
  <2>3. CASE ~Stranded
    <3>1. driver' = [driver EXCEPT !.pc = "deliver"] /\ buffer' = buffer
      BY <1>8, <2>3 DEF Wake
    <3>2. driver'.pc = "deliver"
      BY <1>4, <3>1 DEF DriverRecs
    <3>3. Woken = 0 /\ Pushing = 0 /\ Woken' = 0 /\ Pushing' = 0
      BY <2>1, <3>2 DEF Woken, Pushing
    <3> QED
      BY <1>2, <1>3, <1>5, <2>1, <3>1, <3>3 DEF Total
  <2> QED
    BY <2>2, <2>3
<1>9. CASE WakeMark
  <2>1. /\ driver.pc = "wakemark" /\ SteerFlushed(Len(driver.queue)) /\ buffer' = buffer
        /\ driver' = [driver EXCEPT !.pc = "deliver"]
    BY <1>9 DEF WakeMark
  <2>2. driver'.pc = "deliver" /\ Len(driver.queue) \in Nat
    BY <1>4, <2>1, LenProperties DEF DriverRecs
  <2>3. Woken = Len(driver.queue) /\ Pushing = 0 /\ Woken' = 0 /\ Pushing' = 0
    BY <2>1, <2>2 DEF Woken, Pushing
  <2>4. Len(driver.queue) <= Len(pending)
    <3>1. Woken <= Total
      BY <1>2 DEF Total
    <3> QED
      BY <1>3, <2>3, <3>1
  <2>5. Len(pending') = Len(pending) - Len(driver.queue)
    BY <1>4, <2>1, <2>2, <2>4, FlushedType
  <2>6. PICK b \in Nat : b = Len(buffer)
    BY <1>2
  <2>7. Total = b + Held + Rerecorded + Woken + Steered /\ Total' = b + Held + Rerecorded + Steered
    BY <1>2, <1>5, <2>1, <2>3, <2>6 DEF Total
  <2>8. Total - Woken = Total'
    BY <1>2, <2>7
  <2> QED
    BY <1>3, <2>3, <2>5, <2>8
<1>10. CASE \/ TickScan \/ TickSweep \/ TickDue \/ TickProbe \/ DeliverRecord \/ DeliverMark
            \/ DeliverTurn \/ DeliverNext \/ TickEnds \/ RestoreRecord \/ RestoreAppend
            \/ RestoreMark \/ RestoreEnds
  <2>1. buffer' = buffer /\ pending' = pending
    BY <1>10 DEF TickScan, TickSweep, TickDue, TickProbe, DeliverRecord, DeliverMark, DeliverTurn,
      DeliverNext, TickEnds, RestoreRecord, RestoreAppend, RestoreMark, RestoreEnds, journal
  <2>2. driver.pc \notin {"push", "wakemark"}
    BY <1>10 DEF TickScan, TickSweep, TickDue, TickProbe, DeliverRecord, DeliverMark, DeliverTurn,
      DeliverNext, TickEnds, RestoreRecord, RestoreAppend, RestoreMark, RestoreEnds
  <2>3. driver'.pc \notin {"push", "wakemark"}
    <3>1. CASE TickDue \/ TickEnds \/ RestoreEnds
      <4>1. PICK d \in SUBSET Tasks :
              driver' = Asleep \/ driver' = [Asleep EXCEPT !.pc = "probe", !.due = d]
        BY <3>1 DEF TickDue, TickEnds, RestoreEnds, due_notifications
      <4> QED
        BY <4>1, Resting
    <3>2. CASE TickProbe
      <4>1. \/ driver' = Asleep \/ driver' = [driver EXCEPT !.pc = "wake"]
            \/ driver' = [driver EXCEPT !.pc = "park"]
        BY <3>2 DEF TickProbe
      <4>2. driver' = Asleep \/ driver'.pc \in {"wake", "park"}
        BY <1>4, <4>1 DEF DriverRecs
      <4> QED
        BY <4>2, Resting
    <3>3. CASE \/ TickScan \/ TickSweep \/ DeliverMark \/ DeliverTurn \/ DeliverNext
               \/ RestoreAppend \/ RestoreMark
      BY <1>4, <3>3 DEF TickScan, TickSweep, DeliverMark, DeliverTurn, DeliverNext,
        RestoreAppend, RestoreMark, DriverRecs
    <3>4. CASE DeliverRecord \/ RestoreRecord
      BY <1>4, <3>4 DEF DeliverRecord, RestoreRecord, DriverRecs
    <3> QED
      BY <1>10, <3>1, <3>2, <3>3, <3>4
  <2>4. Woken = 0 /\ Pushing = 0 /\ Woken' = 0 /\ Pushing' = 0
    BY <2>2, <2>3 DEF Woken, Pushing
  <2> QED
    BY <1>2, <1>3, <1>5, <2>1, <2>4 DEF Total
<1> QED
  BY <1>6, <1>7, <1>8, <1>9, <1>10 DEF DriverNext

LEMMA BalanceOther ==
    ASSUME Typed, PendingBalances,
           \/ \E t \in Tasks : TaskEnds(t) \/ TaskOutput(t) \/ TaskStop(t)
           \/ Compact \/ TurnAborted \/ TickDefer \/ Undo \/ Crash
    PROVE  PendingBalances'
<1>1. TypedParts
  BY TypeOKParts DEF Typed
<1>2. /\ Len(buffer) \in Nat /\ Len(pending) \in Nat /\ Held \in Nat /\ Rerecorded \in Nat
      /\ Woken \in Nat /\ Pushing \in Nat /\ Steered \in Nat
  BY BalanceTypes
<1>3. Len(pending) = Total
  BY BalanceParts
<1>4. driver \in DriverRecs /\ turn \in TurnRecs /\ turn.steps \in 0..MaxSteps
  BY <1>1 DEF TypedParts, TurnRecs
<1> SUFFICES Len(pending)' = Total'
  BY BalanceParts
<1>5. CASE (\E t \in Tasks : TaskEnds(t) \/ TaskOutput(t) \/ TaskStop(t)) \/ Compact \/ Undo
  <2>1. UNCHANGED <<buffer, pending, turn, driver, sent>>
    BY <1>5 DEF TaskEnds, TaskOutput, TaskStop, Compact, Undo, journal
  <2> QED
    BY <1>3, <2>1 DEF Total, Held, Rerecorded, Woken, Pushing, Steered, Steering
<1>6. CASE TurnAborted
  <2>1. turn.pc \in {"before", "step"} /\ turn' = NoTurn(turn.steps)
        /\ UNCHANGED <<buffer, pending, driver, sent>>
    BY <1>6 DEF TurnAborted, journal
  <2>2. turn'.pc = "idle"
    BY <1>4, <2>1, Resting
  <2>3. Held' = Held /\ Rerecorded' = Rerecorded
    BY <2>1, <2>2 DEF Held, Rerecorded
  <2> QED
    BY <1>3, <2>1, <2>3 DEF Total, Woken, Pushing, Steered, Steering
<1>7. CASE TickDefer
  <2>1. driver.pc = "wake" /\ driver' = Asleep /\ UNCHANGED <<buffer, pending, turn, sent>>
    BY <1>7 DEF TickDefer, journal
  <2>2. driver'.pc = "sleep"
    BY <2>1, Resting
  <2>3. Woken' = Woken /\ Pushing' = Pushing
    BY <2>1, <2>2 DEF Woken, Pushing
  <2> QED
    BY <1>3, <2>1, <2>3 DEF Total, Held, Rerecorded, Steered, Steering
<1>8. CASE Crash
  <2>1. /\ buffer' = pending /\ pending' = pending /\ turn' = NoTurn(turn.steps)
        /\ driver' = [Asleep EXCEPT !.pc = "restore"]
        /\ sent' = [m \in UserMsgs |-> IF sent[m] = "no" THEN "no" ELSE "yes"]
    BY <1>8 DEF Crash, journal
  <2>2. turn'.pc = "idle" /\ driver'.pc = "restore"
    BY <1>4, <2>1, Resting
  <2>3. Held' = 0 /\ Rerecorded' = 0 /\ Woken' = 0 /\ Pushing' = 0
    BY <2>2 DEF Held, Rerecorded, Woken, Pushing
  <2>4. Steering' = {}
    BY <2>1 DEF Steering
  <2>5. Steered' = 0
    BY <2>4, FS_EmptySet DEF Steered
  <2> QED
    BY <1>2, <2>1, <2>3, <2>5 DEF Total
<1> QED
  BY <1>5, <1>6, <1>7, <1>8

LEMMA BalanceStep == Typed /\ PendingBalances /\ [Next]_vars => PendingBalances'
<1> SUFFICES ASSUME Typed, PendingBalances, [Next]_vars PROVE PendingBalances'
  OBVIOUS
<1>1. CASE Next
  BY <1>1, BalanceRequest, BalanceTurn, BalanceDriver, BalanceOther DEF Next
<1>2. CASE UNCHANGED vars
  BY <1>2 DEF PendingBalances, Steering, vars, journal
<1> QED
  BY <1>1, <1>2

LEMMA BalanceInit == Init => PendingBalances
<1> SUFFICES ASSUME Init PROVE PendingBalances
  OBVIOUS
<1>1. turn.pc = "idle" /\ driver.pc = "sleep"
  <2>1. 0 \in 0..MaxSteps
    BY NotifyConstants
  <2>2. turn = NoTurn(0) /\ driver = Asleep
    BY DEF Init
  <2> QED
    BY <2>1, <2>2, Resting
<1>2. Held = 0 /\ Rerecorded = 0 /\ Woken = 0 /\ Pushing = 0
  BY <1>1 DEF Held, Rerecorded, Woken, Pushing
<1>3. Steering = {}
  BY DEF Steering, Init
<1>4. Steered = 0 /\ Len(buffer) = 0 /\ Len(pending) = 0
  BY <1>3, FS_EmptySet DEF Steered, Init
<1>5. Len(pending) = Total
  BY <1>2, <1>4 DEF Total
<1> QED
  BY <1>5, BalanceParts

(***************************************************************************)
(* Types: the records of the turn and of the driver, a flush that never    *)
(* wrote more rows than it took, and a queue of the driver's that holds    *)
(* notifications only (should_continue_after_stop, deliver_due_notifications). *)
(***************************************************************************)
THEOREM NotifyTypeCorrect == Spec => []TypeOK
<1>1. Typed => TypeOK
  BY DEF Typed
<1> QED
  BY <1>1, TypedInit, TypedStep, PTL DEF Spec

(***************************************************************************)
(* The journal's queue of steers holds one record for each message that is *)
(* parked, held by a flush before its marker, or recorded and not pushed,  *)
(* across every order of the client's requests, the turn's flushes, the    *)
(* driver's parks and wakeups, aborts and crashes: the marker of a flush   *)
(* never consumes another message's record (turn.steer_flushed).           *)
(***************************************************************************)
THEOREM QueueBalances == Spec => []PendingBalances
<1>1. Init => Typed /\ PendingBalances
  BY TypedInit, BalanceInit
<1>2. (Typed /\ PendingBalances) /\ [Next]_vars => (Typed /\ PendingBalances)'
  BY TypedStep, BalanceStep
<1> QED
  BY <1>1, <1>2, PTL DEF Spec

-----------------------------------------------------------------------------
(* What the journal and the context show of a marked task. *)
Unshortened == compactions = 0 /\ undos = 0
Marks ==
    \A t \in Tasks : row[t].delivered =>
        /\ t \in Keys(replayed)
        /\ t \in Keys(memory) \/ (driver.pc = "launch" /\ driver.cur = t)
Sighted == Recorded /\ Marks

(* Apart from a compaction and an undo, a step removes no notification. *)
LEMMA NothingRemoved ==
    ASSUME Typed, Recorded, Next, ~Compact, ~Undo
    PROVE  /\ Keys(memory) \subseteq Keys(memory') /\ Keys(replayed) \subseteq Keys(replayed')
           /\ Range(replayed) \subseteq Range(replayed')
<1>1. TypedParts /\ TurnShape /\ DriverShape
  BY TypeOKParts DEF Typed
<1>2. memory \in Seq(Msgs) /\ replayed \in Seq(Msgs) /\ turn.taken \in Seq(Msgs)
      /\ turn.written \in Nat
  BY <1>1 DEF TypedParts, TurnRecs
<1>3. /\ \A e \in Msgs : Range(memory) \subseteq Range(Append(memory, e))
      /\ \A e \in Msgs : Range(replayed) \subseteq Range(Append(replayed, e))
      /\ \A s \in Seq(Msgs) : Range(memory) \subseteq Range(memory \o s)
  BY <1>2, SeqSteps
<1>4. Range(replayed) \subseteq Range(replayed')
  <2>1. CASE replayed' = replayed
    BY <2>1
  <2>2. CASE \E m \in UserMsgs : LaunchRecord(m)
    BY <1>3, <2>2, NotifyConstants DEF LaunchRecord
  <2>3. CASE FlushRow
    <3>1. turn.taken[turn.written + 1] \in Msgs
      BY <1>1, <1>2, <2>3, SeqSteps DEF FlushRow, TurnShape
    <3> QED
      BY <1>3, <2>3, <3>1 DEF FlushRow
  <2>4. CASE StopRow
    <3>1. UserSteers(turn.taken) \in Seq(Msgs) /\ turn.written < Len(UserSteers(turn.taken))
      BY <1>1, <1>2, <2>4, Partition DEF StopRow, TurnShape
    <3>2. UserSteers(turn.taken)[turn.written + 1] \in Msgs
      BY <1>2, <3>1, SeqSteps
    <3> QED
      BY <1>3, <2>4, <3>2 DEF StopRow
  <2>5. CASE DeliverRecord
    <3>1. PICK e \in Tasks : replayed' = Append(replayed, e)
      <4>1. driver.queue \in Seq(Tasks) /\ driver.due \subseteq Tasks
        BY <1>1 DEF TypedParts, DriverRecs
      <4>2. driver.queue # <<>> => Head(driver.queue) \in Tasks
        BY <4>1, HeadTailProperties
      <4> QED
        BY <2>5, <4>1, <4>2 DEF DeliverRecord
    <3> QED
      BY <1>3, <3>1, NotifyConstants
  <2>6. CASE RestoreRecord
    <3>1. PICK e \in Tasks : replayed' = Append(replayed, e)
      BY <2>6 DEF RestoreRecord, due_notifications
    <3> QED
      BY <1>3, <3>1, NotifyConstants
  <2>7. \/ replayed' = replayed \/ \E m \in UserMsgs : LaunchRecord(m)
        \/ FlushRow \/ StopRow \/ DeliverRecord \/ RestoreRecord
    <3>1. CASE \E t \in Tasks : TaskEnds(t) \/ TaskOutput(t) \/ TaskStop(t)
      BY <3>1 DEF TaskEnds, TaskOutput, TaskStop, journal
    <3>2. CASE \E m \in UserMsgs : SteerRecord(m) \/ SteerPush(m) \/ LaunchRecord(m) \/ LaunchTurn(m)
      BY <3>2 DEF SteerRecord, SteerPush, LaunchTurn, journal
    <3>3. CASE TurnNext
      BY <3>3 DEF TurnNext, FlushTake, FlushMarker, FlushAppend, StepDone, StopTake, StopRepark,
        StopMarker, StopSteer, StopPush, journal
    <3>4. CASE DriverNext
      BY <3>4 DEF DriverNext, TickScan, TickSweep, TickDue, TickProbe, ParkRecord, ParkPush, Wake,
        WakeMark, DeliverMark, DeliverTurn, DeliverNext, TickEnds, RestoreAppend, RestoreMark,
        RestoreEnds, journal
    <3>5. CASE TurnAborted \/ TickDefer \/ Crash
      BY <3>5 DEF TurnAborted, TickDefer, Crash, journal
    <3> QED
      BY <3>1, <3>2, <3>3, <3>4, <3>5 DEF Next
  <2> QED
    BY <2>1, <2>2, <2>3, <2>4, <2>5, <2>6, <2>7
<1>5. Keys(memory) \subseteq Keys(memory')
  <2>1. CASE memory' = memory
    BY <2>1
  <2>2. CASE \E m \in UserMsgs : LaunchTurn(m)
    <3>1. PICK m \in Msgs : memory' = Append(memory, m)
      BY <2>2, NotifyConstants DEF LaunchTurn, StartTurn
    <3> QED
      BY <1>3, <3>1 DEF Keys
  <2>3. CASE FlushAppend
    BY <1>2, <1>3, <2>3 DEF FlushAppend, Keys
  <2>4. CASE StopPush
    BY <1>2, <1>3, <2>4, Partition DEF StopPush, Keys
  <2>5. CASE DeliverTurn \/ RestoreAppend
    <3>1. driver.cur \in Msgs /\ memory' = Append(memory, driver.cur)
      BY <1>1, <2>5, NotifyConstants DEF DriverShape, DeliverTurn, StartTurn, RestoreAppend
    <3> QED
      BY <1>3, <3>1 DEF Keys
  <2>6. CASE Crash
    BY <2>6 DEF Crash, Recorded
  <2>7. \/ memory' = memory \/ \E m \in UserMsgs : LaunchTurn(m)
        \/ FlushAppend \/ StopPush \/ DeliverTurn \/ RestoreAppend \/ Crash
    <3>1. CASE \E t \in Tasks : TaskEnds(t) \/ TaskOutput(t) \/ TaskStop(t)
      BY <3>1 DEF TaskEnds, TaskOutput, TaskStop
    <3>2. CASE \E m \in UserMsgs : SteerRecord(m) \/ SteerPush(m) \/ LaunchRecord(m) \/ LaunchTurn(m)
      BY <3>2 DEF SteerRecord, SteerPush, LaunchRecord
    <3>3. CASE TurnNext
      BY <3>3 DEF TurnNext, FlushTake, FlushMarker, FlushRow, StepDone, StopTake, StopRepark,
        StopMarker, StopRow, StopSteer
    <3>4. CASE DriverNext
      BY <3>4 DEF DriverNext, TickScan, TickSweep, TickDue, TickProbe, ParkRecord, ParkPush, Wake,
        WakeMark, DeliverRecord, DeliverMark, DeliverNext, TickEnds, RestoreRecord, RestoreMark,
        RestoreEnds
    <3>5. CASE TurnAborted \/ TickDefer
      BY <3>5 DEF TurnAborted, TickDefer
    <3> QED
      BY <3>1, <3>2, <3>3, <3>4, <3>5 DEF Next
  <2> QED
    BY <2>1, <2>2, <2>3, <2>4, <2>5, <2>6, <2>7
<1> QED
  BY <1>4, <1>5 DEF Keys

(* The turn's part: what a flush appends was written to the journal. *)
LEMMA RecordedTurn ==
    ASSUME Typed, Recorded, Next, ~Compact, ~Undo
    PROVE  /\ (turn.pc = "rows" => \A i \in 1..turn.written : turn.taken[i] \in Range(replayed))'
           /\ (turn.pc = "append" => Keys(turn.taken) \subseteq Keys(replayed))'
<1>1. TypedParts /\ TurnShape /\ DriverShape
  BY TypeOKParts DEF Typed
<1>2. turn \in TurnRecs /\ turn.taken \in Seq(Msgs) /\ turn.written \in Nat /\ Len(turn.taken) \in Nat
      /\ turn.steps \in 0..MaxSteps /\ replayed \in Seq(Msgs)
  BY <1>1, LenProperties DEF TypedParts, TurnRecs
<1>3. Keys(replayed) \subseteq Keys(replayed') /\ Range(replayed) \subseteq Range(replayed')
  BY NothingRemoved
<1>4. CASE turn' = turn
  <2>1. turn.pc = "rows" => \A i \in 1..turn.written : turn.taken[i] \in Range(replayed)
    BY DEF Recorded
  <2>2. turn.pc = "append" => Keys(turn.taken) \subseteq Keys(replayed)
    BY DEF Recorded
  <2> QED
    BY <1>3, <1>4, <2>1, <2>2 DEF Keys
<1>5. CASE FlushMarker
  <2>1. turn.pc = "marker" /\ turn' = [turn EXCEPT !.pc = "rows"]
    BY <1>5 DEF FlushMarker
  <2>2. turn'.pc = "rows" /\ turn'.written = 0
    BY <1>1, <1>2, <2>1 DEF TurnShape, TurnRecs
  <2> QED
    BY <2>2
<1>6. CASE FlushRow
  <2>1. PICK w \in Nat : w = turn.written + 1
    BY <1>2
  <2>2. /\ turn.pc = "rows" /\ replayed' = Append(replayed, turn.taken[w])
        /\ turn' = [turn EXCEPT !.written = w, !.pc = IF w = Len(turn.taken) THEN "append" ELSE @]
    BY <1>6, <2>1 DEF FlushRow
  <2>3. /\ turn'.taken = turn.taken /\ turn'.written = w
        /\ turn'.pc = IF w = Len(turn.taken) THEN "append" ELSE "rows"
    BY <1>2, <2>2 DEF TurnRecs
  <2>4. turn.written < Len(turn.taken)
    BY <1>1, <2>2 DEF TurnShape
  <2>5. turn.taken[w] \in Msgs
    BY <1>2, <2>1, <2>4, SeqSteps
  <2>6. turn.taken[w] \in Range(replayed')
    BY <1>2, <2>2, <2>5, SeqSteps
  <2>7. \A i \in 1..w : turn.taken[i] \in Range(replayed')
    <3>1. \A i \in 1..turn.written : turn.taken[i] \in Range(replayed)
      BY <2>2 DEF Recorded
    <3>2. \A i \in 1..w : i \in 1..turn.written \/ i = w
      BY <1>2, <2>1
    <3> QED
      BY <1>3, <2>6, <3>1, <3>2
  <2>8. w = Len(turn.taken) => Range(turn.taken) \subseteq Range(replayed')
    <3>1. DOMAIN turn.taken = 1..Len(turn.taken)
      BY <1>2, LenProperties
    <3>2. ASSUME w = Len(turn.taken) PROVE \A i \in DOMAIN turn.taken : turn.taken[i] \in Range(replayed')
      BY <2>7, <3>1, <3>2
    <3> QED
      BY <3>2 DEF Range
  <2> QED
    BY <2>3, <2>7, <2>8 DEF Keys
<1>7. CASE turn'.pc \notin {"rows", "append"}
  BY <1>7
<1>8. turn' = turn \/ FlushMarker \/ FlushRow \/ turn'.pc \notin {"rows", "append"}
  <2>1. CASE \E t \in Tasks : TaskEnds(t) \/ TaskOutput(t) \/ TaskStop(t)
    BY <2>1 DEF TaskEnds, TaskOutput, TaskStop
  <2>2. CASE \E m \in UserMsgs : SteerRecord(m) \/ SteerPush(m) \/ LaunchRecord(m) \/ LaunchTurn(m)
    BY <1>2, <2>2 DEF SteerRecord, SteerPush, LaunchRecord, LaunchTurn, StartTurn, TurnRecs
  <2>3. CASE TurnNext
    <3>1. CASE FlushTake \/ FlushAppend \/ StepDone \/ StopTake \/ StopMarker \/ StopPush
      BY <1>2, <3>1 DEF FlushTake, FlushAppend, StepDone, StopTake, StopMarker, StopPush, TurnRecs
    <3>2. CASE StopRepark
      <4>1. PICK n : n = turn.steps + 1
        OBVIOUS
      <4>2. \/ turn' = NoTurn(turn.steps)
            \/ turn' = [turn EXCEPT !.pc = "before", !.steps = n, !.taken = <<>>]
        BY <3>2, <4>1 DEF StopRepark
      <4>3. [turn EXCEPT !.pc = "before", !.steps = n, !.taken = <<>>].pc = "before"
        BY <1>2 DEF TurnRecs
      <4> QED
        BY <1>2, <4>2, <4>3, Resting
    <3>3. CASE StopRow
      <4>1. PICK w : w = IF turn.written + 1 = Len(UserSteers(turn.taken)) THEN 0 ELSE turn.written + 1
        OBVIOUS
      <4>2. PICK p \in {"stopsteer", "stoprows"} : turn' = [turn EXCEPT !.written = w, !.pc = p]
        BY <1>2, <3>3, <4>1 DEF StopRow
      <4> QED
        BY <1>2, <4>2 DEF TurnRecs
    <3>4. CASE StopSteer
      <4>1. PICK w : w = turn.written + 1
        OBVIOUS
      <4>2. turn.pc = "stopsteer"
            /\ (turn' = [turn EXCEPT !.pc = "stoppush"] \/ turn' = [turn EXCEPT !.written = w])
        BY <3>4, <4>1 DEF StopSteer
      <4> QED
        BY <1>2, <4>2 DEF TurnRecs
    <3> QED
      BY <2>3, <3>1, <3>2, <3>3, <3>4 DEF TurnNext
  <2>4. CASE DriverNext
    <3>1. CASE DeliverTurn
      BY <1>2, <3>1 DEF DeliverTurn, StartTurn, TurnRecs
    <3> QED
      BY <2>4, <3>1 DEF DriverNext, TickScan, TickSweep, TickDue, TickProbe, ParkRecord, ParkPush,
        Wake, WakeMark, DeliverRecord, DeliverMark, DeliverNext, TickEnds, RestoreRecord,
        RestoreAppend, RestoreMark, RestoreEnds, DriverUnchanged
  <2>5. CASE TurnAborted \/ Crash
    BY <1>2, <2>5, Resting DEF TurnAborted, Crash
  <2>6. CASE TickDefer
    BY <2>6 DEF TickDefer
  <2> QED
    BY <2>1, <2>2, <2>3, <2>4, <2>5, <2>6 DEF Next
<1> QED
  BY <1>4, <1>5, <1>6, <1>7, <1>8

(* The driver's part: what it marks is recorded, what it swept it had seen. *)
LEMMA RecordedDriver ==
    ASSUME Typed, Recorded, Next, ~Compact, ~Undo
    PROVE  /\ (driver.pc \in {"mark", "launch", "rappend", "rmark"}
                 => driver.cur \in Keys(replayed))'
           /\ (driver.pc = "rmark" => driver.cur \in Keys(memory))'
           /\ (driver.pc = "sweep" => driver.seen \subseteq Keys(memory))'
<1>1. TypedParts /\ DriverShape
  BY TypeOKParts DEF Typed
<1>2. driver \in DriverRecs /\ driver.due \subseteq Tasks /\ driver.queue \in Seq(Tasks)
      /\ replayed \in Seq(Msgs) /\ memory \in Seq(Msgs)
  BY <1>1 DEF TypedParts, DriverRecs
<1>3. Keys(replayed) \subseteq Keys(replayed') /\ Keys(memory) \subseteq Keys(memory')
  BY NothingRemoved
<1>4. \A t \in Tasks : t \in Keys(Append(replayed, t)) /\ t \in Keys(Append(memory, t))
  BY <1>2, SeqSteps, NotifyConstants DEF Keys
<1>5. CASE driver' = driver
  <2>1. /\ driver.pc \in {"mark", "launch", "rappend", "rmark"} => driver.cur \in Keys(replayed)
        /\ driver.pc = "rmark" => driver.cur \in Keys(memory)
        /\ driver.pc = "sweep" => driver.seen \subseteq Keys(memory)
    BY DEF Recorded
  <2> QED
    BY <1>3, <1>5, <2>1 DEF Keys
<1>6. CASE TickScan
  <2>1. memory' = memory /\ driver' = [driver EXCEPT !.pc = "sweep", !.seen = Keys(memory)]
    BY <1>6 DEF TickScan
  <2>2. driver'.pc = "sweep" /\ driver'.seen = Keys(memory)
    BY <1>2, <2>1 DEF DriverRecs
  <2> QED
    BY <2>1, <2>2 DEF Keys
<1>7. CASE DeliverRecord \/ RestoreRecord
  <2>1. PICK t \in Tasks : replayed' = Append(replayed, t) /\ driver'.cur = t
                           /\ driver'.pc \in {"mark", "rappend"}
    <3>1. CASE DeliverRecord /\ driver.queue # <<>>
      <4>1. Head(driver.queue) \in Tasks
        BY <1>2, <3>1, HeadTailProperties
      <4>2. /\ replayed' = Append(replayed, Head(driver.queue))
            /\ driver' = [driver EXCEPT !.pc = "mark", !.cur = Head(driver.queue), !.queue = Tail(@)]
        BY <3>1 DEF DeliverRecord
      <4>3. driver'.cur = Head(driver.queue) /\ driver'.pc = "mark"
        BY <1>2, <4>2 DEF DriverRecs
      <4> QED
        BY <4>1, <4>2, <4>3
    <3>2. CASE DeliverRecord /\ driver.queue = <<>>
      <4>1. PICK t \in driver.due : /\ replayed' = Append(replayed, t)
                 /\ driver' = [driver EXCEPT !.pc = "mark", !.cur = t, !.due = @ \ {t}]
        BY <3>2 DEF DeliverRecord
      <4>2. driver'.cur = t /\ driver'.pc = "mark"
        BY <1>2, <4>1 DEF DriverRecs
      <4> QED
        BY <1>2, <4>1, <4>2
    <3>3. CASE RestoreRecord
      <4>1. PICK t \in Tasks : /\ replayed' = Append(replayed, t)
                               /\ driver' = [driver EXCEPT !.pc = "rappend", !.cur = t]
        BY <3>3 DEF RestoreRecord, due_notifications
      <4>2. driver'.cur = t /\ driver'.pc = "rappend"
        BY <1>2, <4>1 DEF DriverRecs
      <4> QED
        BY <4>1, <4>2
    <3> QED
      BY <1>7, <3>1, <3>2, <3>3
  <2>2. driver'.cur \in Keys(replayed')
    BY <1>4, <2>1
  <2> QED
    BY <2>1, <2>2 DEF Keys
<1>8. CASE DeliverMark
  <2>1. driver.pc = "mark" /\ driver' = [driver EXCEPT !.pc = "launch"]
    BY <1>8 DEF DeliverMark
  <2>2. driver'.pc = "launch" /\ driver'.cur = driver.cur
    BY <1>2, <2>1 DEF DriverRecs
  <2>3. driver.cur \in Keys(replayed)
    BY <2>1 DEF Recorded
  <2> QED
    BY <1>3, <2>2, <2>3 DEF Keys
<1>9. CASE RestoreAppend
  <2>1. driver.pc = "rappend" /\ driver' = [driver EXCEPT !.pc = "rmark"]
        /\ memory' = Append(memory, driver.cur)
    BY <1>9 DEF RestoreAppend
  <2>2. driver'.pc = "rmark" /\ driver'.cur = driver.cur
    BY <1>2, <2>1 DEF DriverRecs
  <2>3. driver.cur \in Keys(replayed) /\ driver.cur \in Tasks
    BY <1>1, <2>1 DEF Recorded, DriverShape
  <2>4. driver'.cur \in Keys(memory')
    BY <1>4, <2>1, <2>2, <2>3
  <2> QED
    BY <1>3, <2>2, <2>3, <2>4 DEF Keys
<1>10. CASE driver'.pc \notin {"mark", "launch", "rappend", "rmark", "sweep"}
  BY <1>10
<1>11. \/ driver' = driver \/ TickScan \/ DeliverRecord \/ RestoreRecord \/ DeliverMark
       \/ RestoreAppend \/ driver'.pc \notin {"mark", "launch", "rappend", "rmark", "sweep"}
  <2>1. CASE \E t \in Tasks : TaskEnds(t) \/ TaskOutput(t) \/ TaskStop(t)
    BY <2>1 DEF TaskEnds, TaskOutput, TaskStop
  <2>2. CASE \E m \in UserMsgs : SteerRecord(m) \/ SteerPush(m) \/ LaunchRecord(m) \/ LaunchTurn(m)
    BY <2>2 DEF SteerRecord, SteerPush, LaunchRecord, LaunchTurn
  <2>3. CASE TurnNext
    BY <2>3 DEF TurnNext, FlushTake, FlushMarker, FlushRow, FlushAppend, StepDone, StopTake,
      StopRepark, StopMarker, StopRow, StopSteer, StopPush, TurnUnchanged
  <2>4. CASE DriverNext
    <3>1. CASE TickDue \/ TickEnds \/ RestoreEnds
      <4>1. PICK d \in SUBSET Tasks :
              driver' = Asleep \/ driver' = [Asleep EXCEPT !.pc = "probe", !.due = d]
        BY <3>1 DEF TickDue, TickEnds, RestoreEnds, due_notifications
      <4> QED
        BY <4>1, Resting
    <3>2. CASE TickProbe \/ ParkPush
      <4>1. \/ driver' = Asleep \/ driver' = [driver EXCEPT !.pc = "wake"]
            \/ driver' = [driver EXCEPT !.pc = "park"]
            \/ driver' = [driver EXCEPT !.pc = "park", !.cur = None]
        BY <3>2 DEF TickProbe, ParkPush
      <4>2. driver' = Asleep \/ driver'.pc \in {"wake", "park"}
        BY <1>2, <4>1 DEF DriverRecs
      <4> QED
        BY <4>2, Resting
    <3>3. CASE TickSweep \/ DeliverTurn \/ DeliverNext \/ RestoreMark \/ WakeMark \/ ParkRecord
      BY <1>2, <3>3 DEF TickSweep, DeliverTurn, DeliverNext, RestoreMark, WakeMark, ParkRecord,
        DriverRecs
    <3>4. CASE Wake
      BY <1>2, <3>4 DEF Wake, DriverRecs
    <3> QED
      BY <2>4, <3>1, <3>2, <3>3, <3>4 DEF DriverNext
  <2>5. CASE TurnAborted
    BY <2>5 DEF TurnAborted
  <2>6. CASE TickDefer \/ Crash
    BY <2>6, Resting DEF TickDefer, Crash
  <2> QED
    BY <2>1, <2>2, <2>3, <2>4, <2>5, <2>6 DEF Next
<1> QED
  BY <1>5, <1>6, <1>7, <1>8, <1>9, <1>10, <1>11

(* The context's part: it shows nothing that is not recorded. *)
LEMMA RecordedMemory ==
    ASSUME Typed, Recorded, Next, ~Compact, ~Undo
    PROVE  (Keys(memory) \subseteq Keys(replayed))'
<1>1. TypedParts /\ DriverShape
  BY TypeOKParts DEF Typed
<1>2. memory \in Seq(Msgs) /\ turn.taken \in Seq(Msgs)
  BY <1>1 DEF TypedParts, TurnRecs
<1>3. Keys(replayed) \subseteq Keys(replayed') /\ Keys(memory) \subseteq Keys(replayed)
  BY NothingRemoved DEF Recorded
<1> SUFFICES Keys(memory') \subseteq Keys(replayed')
  BY DEF Keys
<1>4. CASE memory' = memory
  BY <1>3, <1>4
<1>5. CASE \E m \in UserMsgs : LaunchTurn(m)
  <2>1. PICK m \in UserMsgs : memory' = Append(memory, m)
    BY <1>5 DEF LaunchTurn, StartTurn
  <2>2. Range(memory') = Range(memory) \cup {m} /\ m \notin Tasks
    BY <1>2, <2>1, SeqSteps, NotifyConstants
  <2> QED
    BY <1>3, <2>2 DEF Keys
<1>6. CASE FlushAppend
  <2>1. Range(memory') = Range(memory) \cup Range(turn.taken) /\ turn.pc = "append"
    BY <1>2, <1>6, SeqSteps DEF FlushAppend
  <2>2. Keys(turn.taken) \subseteq Keys(replayed)
    BY <2>1 DEF Recorded
  <2> QED
    BY <1>3, <2>1, <2>2 DEF Keys
<1>7. CASE StopPush
  <2>1. UserSteers(turn.taken) \in Seq(Msgs) /\ Keys(UserSteers(turn.taken)) = {}
    BY <1>2, Partition
  <2>2. Range(memory') = Range(memory) \cup Range(UserSteers(turn.taken))
    BY <1>2, <1>7, <2>1, SeqSteps DEF StopPush
  <2> QED
    BY <1>3, <2>1, <2>2 DEF Keys
<1>8. CASE DeliverTurn \/ RestoreAppend
  <2>1. driver.pc \in {"launch", "rappend"} /\ memory' = Append(memory, driver.cur)
    BY <1>8 DEF DeliverTurn, StartTurn, RestoreAppend
  <2>2. driver.cur \in Keys(replayed) /\ driver.cur \in Msgs
    BY <1>1, <2>1, NotifyConstants DEF Recorded, DriverShape
  <2>3. Range(memory') = Range(memory) \cup {driver.cur}
    BY <1>2, <2>1, <2>2, SeqSteps
  <2> QED
    BY <1>3, <2>2, <2>3 DEF Keys
<1>9. CASE Crash
  BY <1>9 DEF Crash, journal
<1>10. \/ memory' = memory \/ \E m \in UserMsgs : LaunchTurn(m)
       \/ FlushAppend \/ StopPush \/ DeliverTurn \/ RestoreAppend \/ Crash
  <2>1. CASE \E t \in Tasks : TaskEnds(t) \/ TaskOutput(t) \/ TaskStop(t)
    BY <2>1 DEF TaskEnds, TaskOutput, TaskStop
  <2>2. CASE \E m \in UserMsgs : SteerRecord(m) \/ SteerPush(m) \/ LaunchRecord(m) \/ LaunchTurn(m)
    BY <2>2 DEF SteerRecord, SteerPush, LaunchRecord
  <2>3. CASE TurnNext
    BY <2>3 DEF TurnNext, FlushTake, FlushMarker, FlushRow, StepDone, StopTake, StopRepark,
      StopMarker, StopRow, StopSteer
  <2>4. CASE DriverNext
    BY <2>4 DEF DriverNext, TickScan, TickSweep, TickDue, TickProbe, ParkRecord, ParkPush, Wake,
      WakeMark, DeliverRecord, DeliverMark, DeliverNext, TickEnds, RestoreRecord, RestoreMark,
      RestoreEnds
  <2>5. CASE TurnAborted \/ TickDefer
    BY <2>5 DEF TurnAborted, TickDefer
  <2> QED
    BY <2>1, <2>2, <2>3, <2>4, <2>5 DEF Next
<1> QED
  BY <1>4, <1>5, <1>6, <1>7, <1>8, <1>9, <1>10

(* Only the sweep, the delivery and the resume set a marker. *)
LEMMA NewMarks ==
    ASSUME Typed, Next, ~Compact, ~Undo, NEW t \in Tasks, row'[t].delivered
    PROVE  \/ row[t].delivered
           \/ TickSweep /\ t \in driver.seen
           \/ DeliverMark /\ t = driver.cur
           \/ RestoreMark /\ t = driver.cur
<1>1. TypedParts /\ DriverShape
  BY TypeOKParts DEF Typed
<1>2. row \in [Tasks -> RowRecs]
  BY <1>1 DEF TypedParts
<1>3. CASE row' = row
  BY <1>3
<1>4. CASE \E u \in Tasks : TaskEnds(u) \/ TaskOutput(u) \/ TaskStop(u)
  <2>1. PICK u \in Tasks : TaskEnds(u) \/ TaskOutput(u) \/ TaskStop(u)
    BY <1>4
  <2>2. CASE TaskEnds(u)
    BY <1>2, <2>2 DEF TaskEnds, RowRecs
  <2>3. CASE TaskOutput(u)
    BY <1>2, <2>3 DEF TaskOutput, RowRecs
  <2>4. CASE TaskStop(u)
    BY <1>2, <2>4 DEF TaskStop, RowRecs
  <2> QED
    BY <2>1, <2>2, <2>3, <2>4
<1>5. CASE TickSweep
  BY <1>2, <1>5 DEF TickSweep
<1>6. CASE DeliverMark \/ RestoreMark
  <2>1. MarkDelivered(driver.cur) /\ driver.cur \in Tasks
    BY <1>1, <1>6 DEF DeliverMark, RestoreMark, DriverShape
  <2>2. t # driver.cur => row'[t] = row[t]
    BY <1>2, <2>1, MarkedRow
  <2> QED
    BY <1>6, <2>2
<1>7. CASE Crash
  BY <1>2, <1>7 DEF Crash, RowRecs
<1>8. \/ row' = row \/ \E u \in Tasks : TaskEnds(u) \/ TaskOutput(u) \/ TaskStop(u)
      \/ TickSweep \/ DeliverMark \/ RestoreMark \/ Crash
  <2>1. CASE \E m \in UserMsgs : SteerRecord(m) \/ SteerPush(m) \/ LaunchRecord(m) \/ LaunchTurn(m)
    BY <2>1 DEF SteerRecord, SteerPush, LaunchRecord, LaunchTurn
  <2>2. CASE TurnNext
    BY <2>2 DEF TurnNext, FlushTake, FlushMarker, FlushRow, FlushAppend, StepDone, StopTake,
      StopRepark, StopMarker, StopRow, StopSteer, StopPush, TurnUnchanged
  <2>3. CASE DriverNext
    BY <2>3 DEF DriverNext, TickScan, TickDue, TickProbe, ParkRecord, ParkPush, Wake, WakeMark,
      DeliverRecord, DeliverTurn, DeliverNext, TickEnds, RestoreRecord, RestoreAppend, RestoreEnds
  <2>4. CASE TurnAborted \/ TickDefer
    BY <2>4 DEF TurnAborted, TickDefer
  <2> QED
    BY <2>1, <2>2, <2>3, <2>4 DEF Next
<1> QED
  BY <1>3, <1>4, <1>5, <1>6, <1>7, <1>8

(* A launch is left by the turn it launches, or by a crash. *)
LEMMA LaunchLeft ==
    ASSUME Typed, Sighted, Next, ~Compact, ~Undo, driver.pc = "launch"
    PROVE  driver.cur \in Keys(memory') \/ (driver'.pc = "launch" /\ driver'.cur = driver.cur)
<1>1. TypedParts /\ DriverShape
  BY TypeOKParts DEF Typed
<1>2. memory \in Seq(Msgs) /\ driver.cur \in Tasks /\ driver.cur \in Msgs
  BY <1>1, NotifyConstants DEF TypedParts, DriverShape
<1>3. CASE driver' = driver
  BY <1>3
<1>4. CASE DeliverTurn
  <2>1. Range(memory') = Range(memory) \cup {driver.cur}
    BY <1>2, <1>4, SeqSteps DEF DeliverTurn, StartTurn
  <2> QED
    BY <1>2, <2>1 DEF Keys
<1>5. CASE Crash
  BY <1>5 DEF Crash, Sighted, Recorded
<1>6. driver' = driver \/ DeliverTurn \/ Crash
  <2>1. CASE \E t \in Tasks : TaskEnds(t) \/ TaskOutput(t) \/ TaskStop(t)
    BY <2>1 DEF TaskEnds, TaskOutput, TaskStop
  <2>2. CASE \E m \in UserMsgs : SteerRecord(m) \/ SteerPush(m) \/ LaunchRecord(m) \/ LaunchTurn(m)
    BY <2>2 DEF SteerRecord, SteerPush, LaunchRecord, LaunchTurn
  <2>3. CASE TurnNext
    BY <2>3 DEF TurnNext, FlushTake, FlushMarker, FlushRow, FlushAppend, StepDone, StopTake,
      StopRepark, StopMarker, StopRow, StopSteer, StopPush, TurnUnchanged
  <2>4. CASE DriverNext
    BY <2>4 DEF DriverNext, TickScan, TickSweep, TickDue, TickProbe, ParkRecord, ParkPush, Wake,
      WakeMark, DeliverRecord, DeliverMark, DeliverNext, TickEnds, RestoreRecord, RestoreAppend,
      RestoreMark, RestoreEnds
  <2>5. CASE TurnAborted \/ TickDefer
    BY <2>5 DEF TurnAborted, TickDefer
  <2> QED
    BY <2>1, <2>2, <2>3, <2>4, <2>5 DEF Next
<1> QED
  BY <1>3, <1>4, <1>5, <1>6

LEMMA SightedStep ==
    ASSUME Typed, Sighted, Next, ~Compact, ~Undo
    PROVE  Sighted'
<1>1. Recorded'
  BY RecordedTurn, RecordedDriver, RecordedMemory DEF Sighted, Recorded
<1>2. Keys(replayed) \subseteq Keys(replayed') /\ Keys(memory) \subseteq Keys(memory')
  BY NothingRemoved DEF Sighted
<1>3. driver \in DriverRecs
  BY TypeOKParts DEF Typed, TypedParts
<1>4. ASSUME NEW t \in Tasks, row'[t].delivered
      PROVE  /\ t \in Keys(replayed')
             /\ t \in Keys(memory') \/ (driver'.pc = "launch" /\ driver'.cur = t)
  <2>1. CASE row[t].delivered
    <3>1. t \in Keys(replayed) /\ (t \in Keys(memory) \/ (driver.pc = "launch" /\ driver.cur = t))
      BY <2>1 DEF Sighted, Marks
    <3> QED
      BY <1>2, <3>1, LaunchLeft
  <2>2. CASE TickSweep /\ t \in driver.seen
    <3>1. driver.seen \subseteq Keys(memory) /\ Keys(memory) \subseteq Keys(replayed)
      BY <2>2 DEF TickSweep, Sighted, Recorded
    <3> QED
      BY <1>2, <2>2, <3>1
  <2>3. CASE DeliverMark /\ t = driver.cur
    <3>1. driver.pc = "mark" /\ driver' = [driver EXCEPT !.pc = "launch"]
      BY <2>3 DEF DeliverMark
    <3>2. driver'.pc = "launch" /\ driver'.cur = driver.cur
      BY <1>3, <3>1 DEF DriverRecs
    <3>3. driver.cur \in Keys(replayed)
      BY <3>1 DEF Sighted, Recorded
    <3> QED
      BY <1>2, <2>3, <3>2, <3>3
  <2>4. CASE RestoreMark /\ t = driver.cur
    <3>1. driver.cur \in Keys(replayed) /\ driver.cur \in Keys(memory)
      BY <2>4 DEF RestoreMark, Sighted, Recorded
    <3> QED
      BY <1>2, <2>4, <3>1
  <2> QED
    BY <1>4, <2>1, <2>2, <2>3, <2>4, NewMarks
<1>5. Marks'
  BY <1>4 DEF Marks, Keys
<1> QED
  BY <1>1, <1>5 DEF Sighted

(***************************************************************************)
(* A task carries the delivery marker only when its notification is in the *)
(* journal, and in the context or about to open its turn: every mark comes *)
(* after the record, in the tick, in its sweep and in the resume, whatever *)
(* crashes, flushes and requests fall in between, as long as no compaction *)
(* folded the context and no undo shortened it                             *)
(* (mark_notification_delivered, sweep_mark_delivered).                    *)
(***************************************************************************)
THEOREM MarksAreSeen == Spec => []MarkedIsSeen
<1> DEFINE Inv == Typed /\ (Unshortened => Sighted)
<1>1. Init => Inv
  <2> SUFFICES ASSUME Init PROVE Sighted
    BY TypedInit
  <2>1. turn.pc = "idle" /\ driver.pc = "sleep"
    <3>1. 0 \in 0..MaxSteps
      BY NotifyConstants
    <3>2. turn = NoTurn(0) /\ driver = Asleep
      BY DEF Init
    <3> QED
      BY <3>1, <3>2, Resting
  <2>2. \A t \in Tasks : ~row[t].delivered
    BY DEF Init
  <2>3. memory = replayed
    BY DEF Init
  <2> QED
    BY <2>1, <2>2, <2>3 DEF Sighted, Recorded, Marks
<1>2. Inv /\ [Next]_vars => Inv'
  <2> SUFFICES ASSUME Typed, Unshortened => Sighted, [Next]_vars, Unshortened'
               PROVE  Sighted'
    BY TypedStep
  <2>1. compactions \in Nat /\ undos \in Nat
    BY TypeOKParts, NotifyConstants DEF Typed, TypedParts
  <2>2. CASE Next
    <3>1. ~Compact /\ ~Undo
      BY <2>1 DEF Compact, Undo, Unshortened
    <3>2. compactions' \in {compactions, compactions + 1} /\ undos' \in {undos, undos + 1}
      <4>1. CASE \E t \in Tasks : TaskEnds(t) \/ TaskOutput(t) \/ TaskStop(t)
        BY <4>1 DEF TaskEnds, TaskOutput, TaskStop, counters
      <4>2. CASE \E m \in UserMsgs : \/ SteerRecord(m) \/ SteerPush(m)
                                     \/ LaunchRecord(m) \/ LaunchTurn(m)
        BY <4>2 DEF SteerRecord, SteerPush, LaunchRecord, LaunchTurn, counters
      <4>3. CASE TurnNext
        BY <4>3 DEF TurnNext, FlushTake, FlushMarker, FlushRow, FlushAppend, StepDone, StopTake,
          StopRepark, StopMarker, StopRow, StopSteer, StopPush, TurnUnchanged, counters
      <4>4. CASE DriverNext
        BY <4>4 DEF DriverNext, TickScan, TickSweep, TickDue, TickProbe, ParkRecord, ParkPush, Wake,
          WakeMark, DeliverRecord, DeliverMark, DeliverTurn, DeliverNext, TickEnds, RestoreRecord,
          RestoreAppend, RestoreMark, RestoreEnds, DriverUnchanged, counters
      <4>5. CASE TurnAborted \/ TickDefer \/ Crash
        BY <4>5 DEF TurnAborted, TickDefer, Crash
      <4> QED
        BY <2>2, <3>1, <4>1, <4>2, <4>3, <4>4, <4>5 DEF Next
    <3>3. Unshortened
      BY <2>1, <3>2 DEF Unshortened
    <3> QED
      BY <2>2, <3>1, <3>3, SightedStep
  <2>3. CASE UNCHANGED vars
    BY <2>3 DEF vars, journal, counters, Unshortened, Sighted, Recorded, Marks, Keys
  <2> QED
    BY <2>2, <2>3
<1>3. Inv => MarkedIsSeen
  BY DEF Unshortened, Sighted, Marks, MarkedIsSeen
<1> QED
  BY <1>1, <1>2, <1>3, PTL DEF Spec

-----------------------------------------------------------------------------
(***************************************************************************)
(* Repeats.  A task that the scans never lost sight of is in one place at  *)
(* a time: in the context, in the buffer, in a flush's hands or in the     *)
(* driver's.  ReplayedBy and PendingBy say where a task is that the        *)
(* journal has in its context or in its queue, so that a crash, which      *)
(* rebuilds both from the journal, puts it in one place again.  Ahead is   *)
(* about positions: a flush marker takes the oldest records of the queue,  *)
(* and they must be those of the messages the flush took.                  *)
(***************************************************************************)
Once(t, s) == \A i, j \in 1..Len(s) : s[i] = t /\ s[j] = t => i = j

Carried(t) == driver.cur = t /\ driver.pc # "rmark"
DriverHas(t) == t \in driver.due \/ t \in Range(driver.queue) \/ Carried(t)

OneHolder(t) ==
    /\ Once(t, memory) /\ Once(t, buffer) /\ Once(t, turn.taken) /\ Once(t, driver.queue)
    /\ t \in Range(memory) => /\ t \notin Range(buffer) /\ t \notin Range(turn.taken)
                              /\ ~DriverHas(t)
    /\ t \in Range(buffer) => t \notin Range(turn.taken) /\ ~DriverHas(t)
    /\ t \in Range(turn.taken) => ~DriverHas(t)
    /\ t \in driver.due => t \notin Range(driver.queue) /\ ~Carried(t)
    /\ t \in Range(driver.queue) => ~Carried(t)

\* The driver, or a flush, has recorded it and not yet shown it.
Delivering(t) == driver.pc \in {"mark", "launch", "rappend"} /\ driver.cur = t
RowWritten(t) ==
    turn.pc \in {"rows", "append"} /\ \E i \in 1..turn.written : turn.taken[i] = t

ReplayedBy(t) ==
    /\ Once(t, replayed)
    /\ t \in Range(replayed) => t \in Range(memory) \/ Delivering(t) \/ RowWritten(t)

\* Recorded as a steer and not yet pushed, or taken and not yet consumed.
Parking(t) == driver.pc = "push" /\ driver.cur = t
Waking(t) == driver.pc = "wakemark" /\ t \in Range(driver.queue)
Flushing(t) == turn.pc \in {"marker", "stopmarker", "repark"} /\ t \in Range(turn.taken)
Reparking(t) ==
    /\ turn.pc \in {"stopsteer", "stoppush"}
    /\ \E i \in 1..turn.written : Notifications(turn.taken)[i] = t

PendingBy(t) ==
    /\ Once(t, pending)
    /\ t \in Range(pending) => \/ t \in Range(buffer) \/ Parking(t) \/ Waking(t)
                               \/ Flushing(t) \/ Reparking(t)

Ahead(t) ==
    \A p \in 1..Len(pending) : pending[p] = t =>
        /\ t \in Range(buffer) => p <= Len(buffer) + Held + Rerecorded + Woken
        /\ Flushing(t) => p <= Len(turn.taken)
        /\ Waking(t) => p <= Len(driver.queue)

Tracked(t) == OneHolder(t) /\ ReplayedBy(t) /\ PendingBy(t) /\ Ahead(t)

\* What a tick holds at each of its steps.  The resume runs alone; a wakeup
\* that finds notifications in the buffer has no flush beside it.
TickShape ==
    /\ Resuming => turn.pc = "idle" /\ \A m \in UserMsgs : sent[m] \in {"no", "yes"}
    /\ driver.pc \in {"restore", "rappend", "rmark", "sleep", "sweep", "due"} => driver.due = {}
    /\ driver.pc \in {"restore", "rappend", "rmark", "sleep", "sweep", "due", "probe", "park",
                      "push", "wake"} => driver.queue = <<>>
    /\ driver.pc \notin {"push", "mark", "launch", "rappend", "rmark"} => driver.cur = None
    /\ driver.pc = "wake" => turn.taken = <<>> \/ Keys(buffer) = {}
    /\ driver.pc = "wakemark" => Keys(turn.taken) = {} /\ Keys(buffer) = {}

Watched ==
    /\ Typed /\ PendingBalances /\ TickShape
    /\ \A t \in Tasks \ unseen : Tracked(t)

(* An element that a list holds once. *)
LEMMA OnceAppend ==
    ASSUME NEW s \in Seq(Msgs), NEW m \in Msgs, NEW t, Once(t, s), m = t => t \notin Range(s)
    PROVE  Once(t, Append(s, m))
<1>1. /\ Len(s) \in Nat /\ Len(Append(s, m)) = Len(s) + 1
      /\ \A i \in 1..Len(s) : Append(s, m)[i] = s[i] /\ s[i] \in Range(s)
      /\ Append(s, m)[Len(s) + 1] = m
  BY SeqSteps, AppendProperties
<1>2. PICK z : z = Append(s, m)
  OBVIOUS
<1>3. PICK k \in Nat : k = Len(s)
  BY <1>1
<1>4. /\ Len(z) = k + 1 /\ \A i \in 1..k : z[i] = s[i] /\ s[i] \in Range(s)
      /\ z[k + 1] = m
  BY <1>1, <1>2, <1>3
<1>5. \A i, j \in 1..k : s[i] = t /\ s[j] = t => i = j
  BY <1>3 DEF Once
<1>6. ASSUME NEW i \in 1..(k+1), NEW j \in 1..(k+1), z[i] = t, z[j] = t PROVE i = j
  <2>1. CASE i \in 1..k /\ j \in 1..k
    BY <1>4, <1>5, <1>6, <2>1
  <2>2. CASE i = k + 1
    BY <1>4, <1>6, <2>2
  <2>3. CASE j = k + 1
    BY <1>4, <1>6, <2>3
  <2> QED
    BY <2>1, <2>2, <2>3
<1> QED
  BY <1>2, <1>4, <1>6 DEF Once

LEMMA OnceConcat ==
    ASSUME NEW s \in Seq(Msgs), NEW u \in Seq(Msgs), NEW t, Once(t, s), Once(t, u),
           t \in Range(s) => t \notin Range(u)
    PROVE  Once(t, s \o u)
<1>1. /\ Len(s) \in Nat /\ Len(u) \in Nat /\ Len(s \o u) = Len(s) + Len(u)
      /\ \A i \in 1..(Len(s) + Len(u)) : (s \o u)[i] = IF i <= Len(s) THEN s[i] ELSE u[i - Len(s)]
      /\ \A i \in 1..Len(s) : s[i] \in Range(s)
      /\ \A i \in 1..Len(u) : u[i] \in Range(u)
  BY SeqSteps, ConcatProperties
<1>2. PICK z : z = s \o u
  OBVIOUS
<1>3. PICK k \in Nat, n \in Nat : k = Len(s) /\ n = Len(u)
  BY <1>1
<1>4. /\ Len(z) = k + n
      /\ \A i \in 1..(k + n) : z[i] = IF i <= k THEN s[i] ELSE u[i - k]
      /\ \A i \in 1..k : s[i] \in Range(s)
      /\ \A i \in 1..n : u[i] \in Range(u)
  BY <1>1, <1>2, <1>3
<1>5. /\ \A i, j \in 1..k : s[i] = t /\ s[j] = t => i = j
      /\ \A i, j \in 1..n : u[i] = t /\ u[j] = t => i = j
  BY <1>3 DEF Once
<1>6. ASSUME NEW i \in 1..(k+n), NEW j \in 1..(k+n), z[i] = t, z[j] = t PROVE i = j
  <2>1. CASE i <= k
    <3>1. s[i] = t /\ i \in 1..k /\ t \notin Range(u)
      BY <1>4, <1>6, <2>1
    <3>2. j <= k
      <4> SUFFICES ASSUME ~(j <= k) PROVE FALSE
        OBVIOUS
      <4>1. u[j - k] = t /\ j - k \in 1..n
        BY <1>4, <1>6
      <4> QED
        BY <1>4, <3>1, <4>1
    <3> QED
      BY <1>4, <1>5, <1>6, <3>1, <3>2
  <2>2. CASE ~(i <= k)
    <3>1. u[i - k] = t /\ i - k \in 1..n /\ t \in Range(u)
      BY <1>4, <1>6, <2>2
    <3>2. ~(j <= k)
      <4> SUFFICES ASSUME j <= k PROVE FALSE
        OBVIOUS
      <4>1. s[j] = t /\ j \in 1..k
        BY <1>4, <1>6
      <4> QED
        BY <1>4, <3>1, <4>1
    <3>3. u[j - k] = t /\ j - k \in 1..n
      BY <1>4, <1>6, <3>2
    <3>4. i - k = j - k
      BY <1>5, <3>1, <3>3
    <3> QED
      BY <3>4
  <2> QED
    BY <2>1, <2>2
<1> QED
  BY <1>2, <1>4, <1>6 DEF Once

LEMMA OncePick ==
    ASSUME NEW s \in Seq(Msgs), NEW P, NEW t, Once(t, s)
    PROVE  Once(t, Pick(s, P))
<1>1. PICK f \in [1..Len(Pick(s, P)) -> 1..Len(s)] :
             /\ \A i \in 1..Len(Pick(s, P)) : Pick(s, P)[i] = s[f[i]] /\ s[f[i]] \in P
             /\ \A i, j \in 1..Len(Pick(s, P)) : i < j => f[i] < f[j]
  BY PickOrder
<1>2. Len(s) \in Nat /\ Len(Pick(s, P)) \in Nat
  BY LenProperties, PickType
<1> DEFINE z == Pick(s, P)
<1>3. PICK k \in Nat, n \in Nat : k = Len(s) /\ n = Len(z)
  BY <1>2
<1> HIDE DEF z
<1>4. /\ f \in [1..n -> 1..k] /\ \A i \in 1..n : z[i] = s[f[i]]
      /\ \A i, j \in 1..n : i < j => f[i] < f[j]
  BY <1>1, <1>3 DEF z
<1>5. \A i, j \in 1..k : s[i] = t /\ s[j] = t => i = j
  BY <1>3 DEF Once
<1>6. ASSUME NEW i \in 1..n, NEW j \in 1..n, z[i] = t, z[j] = t PROVE i = j
  <2>1. f[i] \in 1..k /\ f[j] \in 1..k /\ s[f[i]] = t /\ s[f[j]] = t
    BY <1>4, <1>6
  <2>2. PICK x \in 1..k : x = f[i]
    BY <2>1
  <2>3. PICK y \in 1..k : y = f[j]
    BY <2>1
  <2>4. x = y
    BY <1>5, <2>1, <2>2, <2>3
  <2>5. (i < j => x < y) /\ (j < i => y < x)
    BY <1>4, <2>2, <2>3
  <2> QED
    BY <2>4, <2>5
<1>7. Once(t, z)
  BY <1>3, <1>6 DEF Once
<1> QED
  BY <1>7 DEF z

LEMMA OnceEmpty == \A t : Once(t, <<>>)
BY DEF Once

LEMMA Slice ==
    ASSUME NEW s \in Seq(Msgs), NEW a \in Nat, NEW b \in Nat, 1 <= a, a <= b + 1, b <= Len(s)
    PROVE  /\ SubSeq(s, a, b) \in Seq(Msgs) /\ Len(SubSeq(s, a, b)) = b - a + 1
           /\ \A k \in 1..(b - a + 1) : SubSeq(s, a, b)[k] = s[a + k - 1]
           /\ \A t : Once(t, s) => Once(t, SubSeq(s, a, b))
           /\ \A t : t \in Range(SubSeq(s, a, b)) <=> \E k \in a..b : s[k] = t
           /\ Range(SubSeq(s, a, b)) \subseteq Range(s)
<1> DEFINE z == SubSeq(s, a, b)
<1>1. /\ Len(s) \in Nat /\ DOMAIN s = 1..Len(s)
      /\ \A i \in 1..Len(s) : s[i] \in Msgs /\ s[i] \in Range(s)
  BY SeqSteps, LenProperties
<1>2. PICK n \in Nat : n = Len(s)
  BY <1>1
<1>3. \A i \in a..b : s[i] \in Msgs /\ i \in 1..n /\ s[i] \in Range(s)
  BY <1>1, <1>2
<1>4. /\ z \in Seq(Msgs) /\ Len(z) = IF a <= b THEN b - a + 1 ELSE 0
      /\ \A i \in 1..(b - a + 1) : z[i] = s[a + i - 1]
  <2>1. a \in Int /\ b \in Int /\ \A i \in a..b : s[i] \in Msgs
    BY <1>3
  <2> QED
    BY <2>1, SubSeqProperties
<1> HIDE DEF z
<1>5. Len(z) = b - a + 1 /\ DOMAIN z = 1..(b - a + 1)
  BY <1>4, LenProperties
<1>6. ASSUME NEW t, Once(t, s) PROVE Once(t, z)
  <2>1. \A i, j \in 1..n : s[i] = t /\ s[j] = t => i = j
    BY <1>2, <1>6 DEF Once
  <2>2. ASSUME NEW i \in 1..(b - a + 1), NEW j \in 1..(b - a + 1), z[i] = t, z[j] = t
        PROVE  i = j
    <3>1. a + i - 1 \in a..b /\ a + j - 1 \in a..b
      OBVIOUS
    <3>2. s[a + i - 1] = t /\ s[a + j - 1] = t
      BY <1>4, <2>2
    <3>3. a + i - 1 = a + j - 1
      BY <1>3, <2>1, <3>1, <3>2
    <3> QED
      BY <3>3
  <2> QED
    BY <1>5, <2>2 DEF Once
<1>7. ASSUME NEW t PROVE t \in Range(z) <=> \E k \in a..b : s[k] = t
  <2>1. ASSUME t \in Range(z) PROVE \E k \in a..b : s[k] = t
    <3>1. PICK i \in 1..(b - a + 1) : z[i] = t
      BY <1>5, <2>1 DEF Range
    <3>2. a + i - 1 \in a..b
      BY <3>1
    <3>3. s[a + i - 1] = t
      BY <1>4, <3>1
    <3> QED
      BY <3>2, <3>3
  <2>2. ASSUME NEW k \in a..b, s[k] = t PROVE t \in Range(z)
    <3>1. k - a + 1 \in 1..(b - a + 1) /\ a + (k - a + 1) - 1 = k
      OBVIOUS
    <3>2. z[k - a + 1] = t
      BY <1>4, <2>2, <3>1
    <3> QED
      BY <1>5, <3>1, <3>2 DEF Range
  <2> QED
    BY <2>1, <2>2
<1>8. Range(z) \subseteq Range(s)
  BY <1>3, <1>7
<1> QED
  BY <1>4, <1>5, <1>6, <1>7, <1>8 DEF z

LEMMA HeadOff ==
    ASSUME NEW s \in Seq(Msgs), s # <<>>, NEW t, Once(t, s)
    PROVE  /\ Head(s) \in Msgs /\ Tail(s) \in Seq(Msgs) /\ Once(t, Tail(s))
           /\ Head(s) \in Range(s) /\ Range(Tail(s)) \subseteq Range(s)
           /\ t \in Range(s) => Head(s) = t \/ t \in Range(Tail(s))
           /\ Head(s) = t => t \notin Range(Tail(s))
<1>1. Len(s) \in Nat /\ Len(s) # 0 /\ \A i \in 1..Len(s) : s[i] \in Msgs /\ s[i] \in Range(s)
  BY SeqSteps
<1>2. PICK n \in Nat : n = Len(s)
  BY <1>1
<1>3. Head(s) = s[1] /\ Tail(s) = SubSeq(s, 2, n)
  BY <1>2, TailIsSubSeq
<1>4. 2 \in Nat /\ 1 <= 2 /\ 2 <= n + 1 /\ n <= Len(s) /\ 1 \in 1..n
  BY <1>1, <1>2
<1>5. /\ Tail(s) \in Seq(Msgs) /\ Once(t, Tail(s)) /\ Range(Tail(s)) \subseteq Range(s)
      /\ t \in Range(Tail(s)) <=> \E k \in 2..n : s[k] = t
  <2>1. PICK a \in Nat : a = 2
    OBVIOUS
  <2>2. /\ SubSeq(s, a, n) \in Seq(Msgs) /\ (Once(t, s) => Once(t, SubSeq(s, a, n)))
        /\ Range(SubSeq(s, a, n)) \subseteq Range(s)
        /\ t \in Range(SubSeq(s, a, n)) <=> \E k \in a..n : s[k] = t
    <3>1. 1 <= a /\ a <= n + 1 /\ n <= Len(s)
      BY <1>4, <2>1
    <3> QED
      BY <3>1, Slice
  <2> QED
    BY <1>3, <2>1, <2>2
<1>6. ASSUME t \in Range(s) PROVE s[1] = t \/ t \in Range(Tail(s))
  <2>1. PICK k \in 1..n : s[k] = t
    BY <1>2, <1>6, LenProperties DEF Range
  <2>2. k = 1 \/ k \in 2..n
    OBVIOUS
  <2> QED
    BY <1>5, <2>1, <2>2
<1>7. ASSUME s[1] = t PROVE t \notin Range(Tail(s))
  <2> SUFFICES ASSUME NEW k \in 2..n, s[k] = t PROVE FALSE
    BY <1>5
  <2>1. k \in 1..n /\ k # 1
    OBVIOUS
  <2> QED
    BY <1>2, <1>4, <1>7, <2>1 DEF Once
<1> QED
  BY <1>1, <1>2, <1>3, <1>4, <1>5, <1>6, <1>7

(* A flush marker that finds as many records as it consumes. *)
LEMMA Popped ==
    ASSUME NEW n \in Nat, pending \in Seq(Msgs), SteerFlushed(n), n <= Len(pending), NEW t,
           Once(t, pending)
    PROVE  /\ pending' \in Seq(Msgs) /\ Len(pending') = Len(pending) - n
           /\ \A p \in 1..(Len(pending) - n) :
                 /\ p + n \in 1..Len(pending) /\ pending'[p] = pending[p + n]
           /\ Once(t, pending')
           /\ t \in Range(pending') => \E p \in 1..Len(pending) : pending[p] = t /\ n < p
<1>1. PICK k \in Nat : k = Len(pending)
  BY LenProperties
<1>2. pending' = SubSeq(pending, 1 + n, k)
  <2>1. (IF n > Len(pending) THEN Len(pending) ELSE n) = n
    BY <1>1
  <2> QED
    BY <1>1, <2>1, Zenon DEF SteerFlushed
<1>3. 1 + n \in Nat /\ 1 <= 1 + n /\ 1 + n <= k + 1 /\ k <= Len(pending)
  BY <1>1
<1>4. PICK a \in Nat : a = 1 + n
  BY <1>3
<1>5. /\ pending' \in Seq(Msgs) /\ Len(pending') = k - a + 1
      /\ \A p \in 1..(k - a + 1) : pending'[p] = pending[a + p - 1]
      /\ Once(t, pending')
      /\ t \in Range(pending') <=> \E p \in a..k : pending[p] = t
  <2>1. 1 <= a /\ a <= k + 1 /\ k <= Len(pending) /\ pending' = SubSeq(pending, a, k)
    BY <1>2, <1>3, <1>4
  <2>2. /\ SubSeq(pending, a, k) \in Seq(Msgs) /\ Len(SubSeq(pending, a, k)) = k - a + 1
        /\ \A p \in 1..(k - a + 1) : SubSeq(pending, a, k)[p] = pending[a + p - 1]
        /\ Once(t, SubSeq(pending, a, k))
        /\ t \in Range(SubSeq(pending, a, k)) <=> \E p \in a..k : pending[p] = t
    BY <2>1, Slice
  <2> QED
    BY <2>1, <2>2
<1>6. k - a + 1 = k - n /\ \A p \in Int : a + p - 1 = p + n
  BY <1>4
<1>7. \A p \in 1..(k - n) : p + n \in 1..k /\ pending'[p] = pending[p + n]
  <2> SUFFICES ASSUME NEW p \in 1..(k - n)
               PROVE  p + n \in 1..k /\ pending'[p] = pending[p + n]
    OBVIOUS
  <2>1. p \in 1..(k - a + 1) /\ a + p - 1 = p + n /\ p + n \in 1..k
    BY <1>1, <1>4
  <2>2. pending'[p] = pending[a + p - 1]
    BY <1>5, <2>1
  <2> QED
    BY <2>1, <2>2
<1>8. \A p \in a..k : p \in 1..k /\ n < p
  BY <1>4
<1> QED
  BY <1>1, <1>5, <1>6, <1>7, <1>8

(* What is known of a task the scans did not lose, before a step. *)
LEMMA WatchedParts ==
    ASSUME Watched, NEW t \in Tasks, t \notin unseen
    PROVE  /\ TypedParts /\ TurnShape /\ DriverShape /\ TickShape /\ Typed
           /\ memory \in Seq(Msgs) /\ buffer \in Seq(Msgs) /\ turn.taken \in Seq(Msgs)
           /\ driver.queue \in Seq(Msgs) /\ pending \in Seq(Msgs) /\ replayed \in Seq(Msgs)
           /\ turn \in TurnRecs /\ driver \in DriverRecs
           /\ turn.written \in Nat /\ turn.written <= Len(turn.taken)
           /\ t \in Msgs /\ t \notin UserMsgs /\ t # None
           /\ OneHolder(t) /\ ReplayedBy(t) /\ PendingBy(t) /\ Ahead(t)
<1>1. /\ TypedParts /\ TurnShape /\ DriverShape /\ TickShape /\ Typed
      /\ OneHolder(t) /\ ReplayedBy(t) /\ PendingBy(t) /\ Ahead(t)
  BY TypeOKParts DEF Watched, Typed, Tracked
<1>2. /\ memory \in Seq(Msgs) /\ buffer \in Seq(Msgs) /\ turn.taken \in Seq(Msgs)
      /\ driver.queue \in Seq(Tasks) /\ pending \in Seq(Msgs) /\ replayed \in Seq(Msgs)
      /\ turn \in TurnRecs /\ driver \in DriverRecs
      /\ turn.written \in Nat /\ turn.written <= Len(turn.taken)
  BY <1>1 DEF TypedParts, TurnRecs, DriverRecs
<1>3. Seq(Tasks) \subseteq Seq(Msgs)
  BY NotifyConstants, SeqMonotonic
<1>4. t \in Msgs /\ t \notin UserMsgs /\ t # None
  BY NotifyConstants
<1> QED
  BY <1>1, <1>2, <1>3, <1>4

LEMMA HolderKept ==
    ASSUME NEW t, OneHolder(t), memory' = memory, buffer' = buffer,
           turn'.taken = turn.taken, driver'.due \subseteq driver.due,
           driver'.queue = driver.queue, Carried(t)' => Carried(t)
    PROVE  OneHolder(t)'
BY DEF OneHolder, DriverHas

LEMMA ReplayedKept ==
    ASSUME NEW t, ReplayedBy(t), replayed' = replayed, memory' = memory,
           Delivering(t) => Delivering(t)', RowWritten(t) => RowWritten(t)'
    PROVE  ReplayedBy(t)'
BY DEF ReplayedBy

LEMMA PendingKept ==
    ASSUME NEW t, PendingBy(t), pending' = pending, buffer' = buffer,
           Parking(t) => Parking(t)', Waking(t) => Waking(t)',
           Flushing(t) => Flushing(t)', Reparking(t) => Reparking(t)'
    PROVE  PendingBy(t)'
BY DEF PendingBy

LEMMA AheadKept ==
    ASSUME NEW t, Ahead(t), pending' = pending, buffer' = buffer,
           Held' = Held, Rerecorded' = Rerecorded, Woken' = Woken,
           turn'.taken = turn.taken, driver'.queue = driver.queue,
           Flushing(t)' => Flushing(t), Waking(t)' => Waking(t)
    PROVE  Ahead(t)'
BY DEF Ahead

(* A step that leaves the turn, or the driver, as it was. *)
LEMMA SameTurn ==
    ASSUME NEW t, turn' = turn
    PROVE  /\ turn'.taken = turn.taken /\ Held' = Held /\ Rerecorded' = Rerecorded
           /\ RowWritten(t)' <=> RowWritten(t)
           /\ Flushing(t)' <=> Flushing(t)
           /\ Reparking(t)' <=> Reparking(t)
BY DEF Held, Rerecorded, RowWritten, Flushing, Reparking, Notifications

LEMMA SameDriver ==
    ASSUME NEW t, driver' = driver
    PROVE  /\ driver'.queue = driver.queue /\ driver'.due = driver.due /\ Woken' = Woken
           /\ Carried(t)' <=> Carried(t)
           /\ DriverHas(t)' <=> DriverHas(t)
           /\ Delivering(t)' <=> Delivering(t)
           /\ Parking(t)' <=> Parking(t)
           /\ Waking(t)' <=> Waking(t)
BY DEF Woken, Carried, DriverHas, Delivering, Parking, Waking

(* What the stop hook recorded anew is still in its hands. *)
LEMMA ReparkingTaken ==
    ASSUME Watched, NEW t \in Tasks, t \notin unseen, Reparking(t)
    PROVE  t \in Range(turn.taken)
<1>1. turn.taken \in Seq(Msgs) /\ turn.written \in Nat /\ TurnShape
  BY WatchedParts
<1>2. /\ Range(Notifications(turn.taken)) = Keys(turn.taken)
      /\ Notifications(turn.taken) \in Seq(Msgs)
  BY <1>1, Partition
<1>3. PICK n \in Nat, w \in Nat : n = Len(Notifications(turn.taken)) /\ w = turn.written
  BY <1>1, <1>2, SeqSteps
<1>4. turn.pc \in {"stopsteer", "stoppush"} => w <= n
  BY <1>1, <1>3 DEF TurnShape
<1>5. \A i \in 1..n : Notifications(turn.taken)[i] \in Range(turn.taken)
  BY <1>2, <1>3, SeqSteps DEF Keys
<1> QED
  BY <1>3, <1>4, <1>5 DEF Reparking

(* A task ends, or a tool call answers for it. *)
LEMMA TrackTask ==
    ASSUME Watched, NEW u \in Tasks, TaskEnds(u) \/ TaskOutput(u) \/ TaskStop(u),
           NEW t \in Tasks, t \notin unseen'
    PROVE  Tracked(t)'
<1>1. UNCHANGED <<pending, replayed, memory, buffer, turn, driver, unseen>>
  BY DEF TaskEnds, TaskOutput, TaskStop, journal
<1>2. OneHolder(t) /\ ReplayedBy(t) /\ PendingBy(t) /\ Ahead(t)
  BY <1>1, WatchedParts
<1> QED
  BY <1>1, <1>2, SameTurn, SameDriver, HolderKept, ReplayedKept, PendingKept, AheadKept DEF Tracked

(* A client's request: its record, and its push. *)
LEMMA TrackSteerRecord ==
    ASSUME Watched, NEW m \in UserMsgs, SteerRecord(m), NEW t \in Tasks, t \notin unseen'
    PROVE  Tracked(t)'
<1>1. /\ UNCHANGED <<replayed, memory, buffer, turn, driver, unseen>>
      /\ pending' = Append(pending, m)
  BY DEF SteerRecord
<1>2. /\ OneHolder(t) /\ ReplayedBy(t) /\ PendingBy(t) /\ Ahead(t)
      /\ pending \in Seq(Msgs) /\ t \notin UserMsgs
  BY <1>1, WatchedParts
<1>3. m \in Msgs /\ m # t
  BY <1>2, NotifyConstants
<1>4. OneHolder(t)' /\ ReplayedBy(t)'
  BY <1>1, <1>2, SameTurn, SameDriver, HolderKept, ReplayedKept
<1>5. Once(t, pending') /\ Range(pending') = Range(pending) \cup {m}
  BY <1>1, <1>2, <1>3, OnceAppend, SeqSteps DEF PendingBy
<1>6. PendingBy(t)'
  BY <1>1, <1>2, <1>3, <1>5, SameTurn, SameDriver DEF PendingBy
<1>7. \A p \in 1..Len(pending') : pending'[p] = t => p \in 1..Len(pending) /\ pending[p] = t
  <2>1. /\ Len(pending) \in Nat /\ Len(pending') = Len(pending) + 1
        /\ \A i \in 1..Len(pending) : pending'[i] = pending[i]
        /\ pending'[Len(pending) + 1] = m
    BY <1>1, <1>2, <1>3, SeqSteps, AppendProperties
  <2>2. PICK k \in Nat : k = Len(pending)
    BY <2>1
  <2>3. \A p \in 1..(k + 1) : p \in 1..k \/ p = k + 1
    OBVIOUS
  <2> QED
    BY <1>3, <2>1, <2>2, <2>3
<1>8. Ahead(t)'
  BY <1>1, <1>2, <1>7, SameTurn, SameDriver DEF Ahead
<1> QED
  BY <1>4, <1>6, <1>8 DEF Tracked

LEMMA TrackLaunchRecord ==
    ASSUME Watched, NEW m \in UserMsgs, LaunchRecord(m), NEW t \in Tasks, t \notin unseen'
    PROVE  Tracked(t)'
<1>1. /\ UNCHANGED <<pending, memory, buffer, turn, driver, unseen>>
      /\ replayed' = Append(replayed, m)
  BY DEF LaunchRecord
<1>2. /\ OneHolder(t) /\ ReplayedBy(t) /\ PendingBy(t) /\ Ahead(t)
      /\ replayed \in Seq(Msgs) /\ t \notin UserMsgs
  BY <1>1, WatchedParts
<1>3. m \in Msgs /\ m # t
  BY <1>2, NotifyConstants
<1>4. OneHolder(t)' /\ PendingBy(t)' /\ Ahead(t)'
  BY <1>1, <1>2, SameTurn, SameDriver, HolderKept, PendingKept, AheadKept
<1>5. Once(t, replayed') /\ Range(replayed') = Range(replayed) \cup {m}
  BY <1>1, <1>2, <1>3, OnceAppend, SeqSteps DEF ReplayedBy
<1>6. ReplayedBy(t)'
  BY <1>1, <1>2, <1>3, <1>5, SameTurn, SameDriver DEF ReplayedBy
<1> QED
  BY <1>4, <1>6 DEF Tracked

LEMMA TrackSteerPush ==
    ASSUME Watched, NEW m \in UserMsgs, SteerPush(m), NEW t \in Tasks, t \notin unseen'
    PROVE  Tracked(t)'
<1>1. /\ UNCHANGED <<pending, replayed, memory, turn, driver, unseen>>
      /\ buffer' = Append(buffer, m)
  BY DEF SteerPush, journal
<1>2. /\ OneHolder(t) /\ ReplayedBy(t) /\ PendingBy(t) /\ Ahead(t)
      /\ buffer \in Seq(Msgs) /\ t \notin UserMsgs /\ Typed
  BY <1>1, WatchedParts
<1>3. m \in Msgs /\ m # t
  BY <1>2, NotifyConstants
<1>4. /\ Once(t, buffer') /\ Range(buffer') = Range(buffer) \cup {m}
      /\ Len(buffer') = Len(buffer) + 1
  BY <1>1, <1>2, <1>3, OnceAppend, SeqSteps DEF OneHolder
<1>5. OneHolder(t)'
  BY <1>1, <1>2, <1>3, <1>4, SameTurn, SameDriver DEF OneHolder
<1>6. ReplayedBy(t)'
  BY <1>1, <1>2, SameTurn, SameDriver, ReplayedKept
<1>7. PendingBy(t)'
  BY <1>1, <1>2, <1>4, SameTurn, SameDriver DEF PendingBy
<1>8. Ahead(t)'
  <2>1. /\ Len(buffer) \in Nat /\ Held \in Nat /\ Rerecorded \in Nat /\ Woken \in Nat
        /\ Held' = Held /\ Rerecorded' = Rerecorded /\ Woken' = Woken
    BY <1>1, <1>2, BalanceTypes, SameTurn, SameDriver
  <2>2. t \in Range(buffer') => t \in Range(buffer)
    BY <1>3, <1>4
  <2> QED
    BY <1>1, <1>2, <1>4, <2>1, <2>2, SameTurn, SameDriver DEF Ahead
<1> QED
  BY <1>5, <1>6, <1>7, <1>8 DEF Tracked

(* A turn that holds nothing, before and after. *)
LEMMA TrackIdleTurn ==
    ASSUME Watched, NEW t \in Tasks, t \notin unseen,
           turn.pc \in {"idle", "before", "step", "stop"},
           turn'.pc \in {"idle", "before", "step", "stop"}, turn'.taken = turn.taken,
           UNCHANGED <<pending, replayed, memory, buffer, driver>>
    PROVE  Tracked(t)'
<1>1. OneHolder(t) /\ ReplayedBy(t) /\ PendingBy(t) /\ Ahead(t)
  BY WatchedParts
<1>2. /\ ~RowWritten(t) /\ ~Flushing(t) /\ ~Reparking(t)
      /\ ~Flushing(t)' /\ Held' = Held /\ Rerecorded' = Rerecorded
  BY DEF RowWritten, Flushing, Reparking, Held, Rerecorded
<1> QED
  BY <1>1, <1>2, SameDriver, HolderKept, ReplayedKept, PendingKept, AheadKept DEF Tracked

LEMMA TrackStep ==
    ASSUME Watched, StepDone \/ TurnAborted, NEW t \in Tasks, t \notin unseen'
    PROVE  Tracked(t)'
<1>1. /\ turn.pc \in {"before", "step"}
      /\ UNCHANGED <<pending, replayed, memory, buffer, driver, unseen>>
  BY DEF StepDone, TurnAborted, TurnUnchanged, journal
<1>2. turn \in TurnRecs /\ TurnShape
  BY <1>1, WatchedParts
<1>3. turn'.pc \in {"idle", "before", "step", "stop"} /\ turn'.taken = turn.taken
  <2>1. CASE StepDone
    BY <1>2, <2>1 DEF StepDone, TurnRecs
  <2>2. CASE TurnAborted
    <3>1. turn' = NoTurn(turn.steps) /\ turn.steps \in 0..MaxSteps
      BY <1>2, <2>2 DEF TurnAborted, TurnRecs
    <3>2. turn'.pc = "idle" /\ turn'.taken = <<>>
      BY <3>1, Resting
    <3> QED
      BY <1>1, <1>2, <3>2 DEF TurnShape
  <2> QED
    BY <2>1, <2>2
<1> QED
  BY <1>1, <1>3, TrackIdleTurn

(* A message opens a turn: the user's, or a notification of the driver's. *)
LEMMA TrackLaunchTurn ==
    ASSUME Watched, NEW m \in UserMsgs, LaunchTurn(m), NEW t \in Tasks, t \notin unseen'
    PROVE  Tracked(t)'
<1>1. /\ UNCHANGED <<pending, replayed, buffer, driver, unseen>>
      /\ memory' = Append(memory, m) /\ turn.pc = "idle"
      /\ turn' = [turn EXCEPT !.pc = "before", !.owner = "user"]
  BY DEF LaunchTurn, StartTurn, journal
<1>2. /\ OneHolder(t) /\ ReplayedBy(t) /\ PendingBy(t) /\ Ahead(t)
      /\ memory \in Seq(Msgs) /\ t \notin UserMsgs /\ turn \in TurnRecs
  BY <1>1, WatchedParts
<1>3. m \in Msgs /\ m # t
  BY <1>2, NotifyConstants
<1>4. turn'.pc = "before" /\ turn'.taken = turn.taken
  BY <1>1, <1>2 DEF TurnRecs
<1>5. Once(t, memory') /\ Range(memory') = Range(memory) \cup {m}
  BY <1>1, <1>2, <1>3, OnceAppend, SeqSteps DEF OneHolder
<1>6. /\ ~RowWritten(t) /\ ~Flushing(t) /\ ~Reparking(t)
      /\ ~Flushing(t)' /\ Held' = Held /\ Rerecorded' = Rerecorded
  BY <1>1, <1>4 DEF RowWritten, Flushing, Reparking, Held, Rerecorded
<1>7. OneHolder(t)'
  BY <1>1, <1>2, <1>3, <1>4, <1>5, SameDriver DEF OneHolder
<1>8. ReplayedBy(t)'
  BY <1>1, <1>2, <1>5, <1>6, SameDriver DEF ReplayedBy
<1>9. PendingBy(t)' /\ Ahead(t)'
  BY <1>1, <1>2, <1>4, <1>6, SameDriver, PendingKept, AheadKept
<1> QED
  BY <1>7, <1>8, <1>9 DEF Tracked

(* A flush takes the buffer. *)
LEMMA TrackTake ==
    ASSUME Watched, FlushTake \/ StopTake, NEW t \in Tasks, t \notin unseen'
    PROVE  Tracked(t)'
<1>1. /\ turn.pc \in {"before", "stop"} /\ buffer' = <<>>
      /\ UNCHANGED <<pending, replayed, memory, driver, unseen>>
  BY DEF FlushTake, StopTake, TurnUnchanged, journal
<1>2. /\ OneHolder(t) /\ ReplayedBy(t) /\ PendingBy(t) /\ Ahead(t)
      /\ buffer \in Seq(Msgs) /\ turn \in TurnRecs /\ TurnShape /\ TickShape
  BY <1>1, WatchedParts
<1>3. /\ turn'.taken = buffer /\ turn'.pc \in {"step", "marker", "stopmarker", "repark"}
      /\ turn'.pc = "step" => buffer = <<>>
  <2>1. CASE FlushTake
    <3>1. turn' = [turn EXCEPT !.pc = IF buffer = <<>> THEN "step" ELSE "marker",
                               !.taken = buffer]
      BY <2>1 DEF FlushTake
    <3> QED
      BY <1>2, <3>1 DEF TurnRecs
  <2>2. CASE StopTake
    <3>1. PICK c \in {"stopmarker", "repark"} : turn' = [turn EXCEPT !.pc = c, !.taken = buffer]
      BY <2>2 DEF StopTake
    <3> QED
      BY <1>2, <3>1 DEF TurnRecs
  <2> QED
    BY <2>1, <2>2
<1>4. /\ Range(buffer') = {} /\ Len(buffer') = 0 /\ Range(turn'.taken) = Range(buffer)
      /\ Once(t, buffer') /\ turn.taken = <<>> /\ Range(turn.taken) = {}
  <2>1. turn.taken = <<>>
    BY <1>1, <1>2 DEF TurnShape
  <2> QED
    BY <1>1, <1>3, <2>1, OnceEmpty, SeqSteps, <1>2
<1>5. OneHolder(t)'
  BY <1>1, <1>2, <1>3, <1>4, SameDriver DEF OneHolder
<1>6. ~RowWritten(t) /\ ~Flushing(t) /\ ~Reparking(t) /\ Held = 0 /\ Rerecorded = 0
  BY <1>1 DEF RowWritten, Flushing, Reparking, Held, Rerecorded
<1>7. ReplayedBy(t)'
  BY <1>1, <1>2, <1>6, SameDriver, ReplayedKept
<1>8. t \in Range(buffer) => Flushing(t)'
  <2>1. t \in Range(buffer) => turn'.pc # "step"
    BY <1>3, <1>4
  <2> QED
    BY <1>3, <1>4, <2>1 DEF Flushing
<1>9. PendingBy(t)'
  BY <1>1, <1>2, <1>6, <1>8, SameDriver DEF PendingBy
<1>10. Ahead(t)'
  <2>1. t \in Range(buffer) => Woken = 0
    <3>1. driver.pc = "wakemark" => Keys(buffer) = {}
      BY <1>2 DEF TickShape
    <3> QED
      BY <3>1 DEF Woken, Keys
  <2>3. Len(turn'.taken) = Len(buffer) /\ Len(buffer) \in Nat
    BY <1>2, <1>3, SeqSteps
  <2>4. ASSUME NEW p \in 1..Len(pending), pending[p] = t, t \in Range(buffer)
        PROVE  p <= Len(buffer)
    BY <1>2, <1>6, <2>1, <2>3, <2>4 DEF Ahead
  <2>5. Flushing(t)' => t \in Range(buffer)
    BY <1>3 DEF Flushing
  <2> QED
    BY <1>1, <1>2, <1>4, <2>3, <2>4, <2>5, SameDriver DEF Ahead
<1> QED
  BY <1>5, <1>7, <1>9, <1>10 DEF Tracked

(* A flush's marker consumes the records of what it took. *)
LEMMA TrackMarker ==
    ASSUME Watched, FlushMarker \/ StopMarker, NEW t \in Tasks, t \notin unseen'
    PROVE  Tracked(t)'
<1>1. /\ turn.pc \in {"marker", "stopmarker"} /\ SteerFlushed(Len(turn.taken))
      /\ UNCHANGED <<replayed, memory, buffer, driver, unseen>>
  BY DEF FlushMarker, StopMarker, TurnUnchanged
<1>2. /\ OneHolder(t) /\ ReplayedBy(t) /\ PendingBy(t) /\ Ahead(t)
      /\ pending \in Seq(Msgs) /\ turn.taken \in Seq(Msgs) /\ turn \in TurnRecs /\ Typed
  BY <1>1, WatchedParts
<1>3. turn'.taken = turn.taken /\ turn'.pc \in {"rows", "stoprows"}
  BY <1>2 DEF FlushMarker, StopMarker, TurnRecs
<1>4. PICK n \in Nat : n = Len(turn.taken)
  BY <1>2, SeqSteps
<1>5. /\ Len(buffer) \in Nat /\ Len(pending) \in Nat /\ Woken \in Nat
      /\ Pushing \in Nat /\ Steered \in Nat
  BY <1>2, BalanceTypes
<1>6. /\ Held = n /\ Rerecorded = 0 /\ Held' = 0 /\ Rerecorded' = 0
      /\ ~RowWritten(t) /\ ~Reparking(t) /\ ~Flushing(t)'
  BY <1>1, <1>3, <1>4 DEF Held, Rerecorded, RowWritten, Reparking, Flushing
<1>7. n <= Len(pending)
  <2>1. Len(pending) = Total
    BY BalanceParts DEF Watched
  <2> QED
    BY <1>5, <1>6, <2>1 DEF Total
<1>8. PICK k \in Nat : k = Len(pending)
  BY <1>5
<1>9. /\ Len(pending') = k - n /\ Once(t, pending')
      /\ \A p \in 1..(k - n) : p + n \in 1..k /\ pending'[p] = pending[p + n]
      /\ t \in Range(pending') => \E p \in 1..k : pending[p] = t /\ n < p
  <2>1. SteerFlushed(n) /\ Once(t, pending)
    BY <1>1, <1>2, <1>4 DEF PendingBy
  <2> QED
    BY <1>2, <1>7, <1>8, <2>1, Popped
<1>10. OneHolder(t)'
  BY <1>1, <1>2, <1>3, SameDriver, HolderKept
<1>11. ReplayedBy(t)'
  BY <1>1, <1>2, <1>6, SameDriver, ReplayedKept
<1>12. PendingBy(t)'
  <2>1. ASSUME t \in Range(pending') PROVE t \in Range(buffer) \/ Parking(t) \/ Waking(t)
    <3>1. PICK p \in 1..k : pending[p] = t /\ n < p
      BY <1>9, <2>1
    <3>2. ~Flushing(t)
      BY <1>2, <1>4, <1>8, <3>1 DEF Ahead
    <3>3. t \in Range(pending)
      BY <1>2, <1>8, <3>1, SeqSteps
    <3> QED
      BY <1>2, <1>6, <3>2, <3>3 DEF PendingBy
  <2> QED
    BY <1>1, <1>9, <2>1, SameDriver DEF PendingBy
<1>13. Ahead(t)'
  <2> SUFFICES ASSUME NEW p \in 1..(k - n), pending'[p] = t
               PROVE  /\ t \in Range(buffer) => p <= Len(buffer) + Woken
                      /\ Waking(t) => p <= Len(driver.queue)
    BY <1>1, <1>5, <1>6, <1>9, SameDriver DEF Ahead
  <2>1. p + n \in 1..k /\ pending[p + n] = t
    BY <1>9
  <2>2. PICK q \in 1..k : q = p + n
    BY <2>1
  <2>3. /\ t \in Range(buffer) => q <= Len(buffer) + Held + Rerecorded + Woken
        /\ Waking(t) => q <= Len(driver.queue)
    BY <1>2, <1>8, <2>1, <2>2 DEF Ahead
  <2>4. Waking(t) => Len(driver.queue) \in Nat
    BY WatchedParts, <1>1, SeqSteps
  <2> QED
    BY <1>4, <1>5, <1>6, <2>2, <2>3, <2>4
<1> QED
  BY <1>10, <1>11, <1>12, <1>13 DEF Tracked

(* A flush writes a row, and shows what it took. *)
LEMMA TrackFlushRow ==
    ASSUME Watched, FlushRow, NEW t \in Tasks, t \notin unseen'
    PROVE  Tracked(t)'
<1>1. /\ turn.pc = "rows" /\ replayed' = Append(replayed, turn.taken[turn.written + 1])
      /\ UNCHANGED <<pending, memory, buffer, driver, unseen>>
  BY DEF FlushRow, TurnUnchanged
<1>2. /\ OneHolder(t) /\ ReplayedBy(t) /\ PendingBy(t) /\ Ahead(t)
      /\ replayed \in Seq(Msgs) /\ turn.taken \in Seq(Msgs) /\ turn \in TurnRecs /\ TurnShape
  BY <1>1, WatchedParts
<1>3. PICK w \in Nat : w = turn.written
  BY <1>2 DEF TurnRecs
<1>4. /\ turn'.taken = turn.taken /\ turn'.pc \in {"rows", "append"} /\ turn'.written = w + 1
  <2>1. PICK c \in {"rows", "append"} : turn' = [turn EXCEPT !.written = w + 1, !.pc = c]
    BY <1>1, <1>3 DEF FlushRow
  <2> QED
    BY <1>2, <2>1 DEF TurnRecs
<1>5. w + 1 \in 1..Len(turn.taken)
  <2>1. Len(turn.taken) \in Nat /\ w < Len(turn.taken)
    BY <1>1, <1>2, <1>3, SeqSteps DEF TurnShape
  <2> QED
    BY <2>1
<1>6. PICK m \in Msgs : m = turn.taken[w + 1]
  BY <1>2, <1>5, SeqSteps
<1>7. m \in Range(turn.taken) /\ replayed' = Append(replayed, m)
  BY <1>1, <1>2, <1>3, <1>5, <1>6, SeqSteps
<1>8. /\ ~Flushing(t) /\ ~Flushing(t)' /\ ~Reparking(t) /\ Held' = Held /\ Rerecorded' = Rerecorded
  BY <1>1, <1>4 DEF Flushing, Reparking, Held, Rerecorded
<1>9. OneHolder(t)' /\ PendingBy(t)' /\ Ahead(t)'
  BY <1>1, <1>2, <1>4, <1>8, SameDriver, HolderKept, PendingKept, AheadKept
<1>10. m = t => t \notin Range(replayed)
  <2> SUFFICES ASSUME m = t, t \in Range(replayed) PROVE FALSE
    OBVIOUS
  <2>1. t \notin Range(memory) /\ ~DriverHas(t)
    BY <1>2, <1>7 DEF OneHolder
  <2>2. ~Delivering(t)
    BY <2>1 DEF DriverHas, Carried, Delivering
  <2>3. PICK i \in 1..w : turn.taken[i] = t
    BY <1>2, <1>3, <2>1, <2>2 DEF ReplayedBy, RowWritten
  <2>4. i \in 1..Len(turn.taken) /\ i # w + 1
    BY <1>5, <2>3
  <2> QED
    BY <1>2, <1>5, <1>6, <2>3, <2>4 DEF OneHolder, Once
<1>11. Once(t, replayed') /\ Range(replayed') = Range(replayed) \cup {m}
  BY <1>2, <1>6, <1>7, <1>10, OnceAppend, SeqSteps DEF ReplayedBy
<1>12. m = t => RowWritten(t)'
  <2>1. w + 1 \in 1..(w + 1)
    OBVIOUS
  <2> QED
    BY <1>4, <1>6, <2>1 DEF RowWritten
<1>13. RowWritten(t) => RowWritten(t)'
  <2>1. \A i \in 1..w : i \in 1..(w + 1)
    OBVIOUS
  <2> QED
    BY <1>3, <1>4, <2>1 DEF RowWritten
<1>14. ReplayedBy(t)'
  BY <1>1, <1>2, <1>11, <1>12, <1>13, SameDriver DEF ReplayedBy
<1> QED
  BY <1>9, <1>14 DEF Tracked

LEMMA TrackFlushAppend ==
    ASSUME Watched, FlushAppend, NEW t \in Tasks, t \notin unseen'
    PROVE  Tracked(t)'
<1>1. /\ turn.pc = "append" /\ memory' = memory \o turn.taken
      /\ UNCHANGED <<pending, replayed, buffer, driver, unseen>>
      /\ turn' = [turn EXCEPT !.pc = "step", !.taken = <<>>, !.written = 0]
  BY DEF FlushAppend, TurnUnchanged, journal
<1>2. /\ OneHolder(t) /\ ReplayedBy(t) /\ PendingBy(t) /\ Ahead(t)
      /\ memory \in Seq(Msgs) /\ turn.taken \in Seq(Msgs) /\ turn \in TurnRecs
      /\ turn.written \in Nat /\ turn.written <= Len(turn.taken)
  BY <1>1, WatchedParts
<1>3. turn'.taken = <<>> /\ turn'.pc = "step"
  BY <1>1, <1>2 DEF TurnRecs
<1>4. /\ Once(t, memory') /\ Range(memory') = Range(memory) \cup Range(turn.taken)
      /\ Once(t, turn'.taken) /\ Range(turn'.taken) = {}
  <2>1. Once(t, memory) /\ Once(t, turn.taken) /\ (t \in Range(memory) => t \notin Range(turn.taken))
    BY <1>2 DEF OneHolder
  <2> QED
    BY <1>1, <1>2, <1>3, <2>1, OnceConcat, OnceEmpty, SeqSteps
<1>5. OneHolder(t)'
  BY <1>1, <1>2, <1>4, SameDriver DEF OneHolder
<1>6. RowWritten(t) => t \in Range(turn.taken)
  <2>1. \A i \in 1..turn.written : i \in 1..Len(turn.taken)
    BY <1>2, SeqSteps
  <2> QED
    BY <1>2, <2>1, SeqSteps DEF RowWritten
<1>7. ReplayedBy(t)'
  BY <1>1, <1>2, <1>4, <1>6, SameDriver DEF ReplayedBy
<1>8. ~Flushing(t) /\ ~Flushing(t)' /\ ~Reparking(t) /\ Held' = Held /\ Rerecorded' = Rerecorded
  BY <1>1, <1>3 DEF Flushing, Reparking, Held, Rerecorded
<1>9. PendingBy(t)'
  BY <1>1, <1>2, <1>8, SameDriver, PendingKept
<1>10. Ahead(t)'
  BY <1>1, <1>2, <1>8, SameDriver DEF Ahead
<1> QED
  BY <1>5, <1>7, <1>9, <1>10 DEF Tracked

(* The stop hook puts back what it took, when there is nothing to flush. *)
LEMMA TrackRepark ==
    ASSUME Watched, StopRepark, NEW t \in Tasks, t \notin unseen'
    PROVE  Tracked(t)'
<1>1. /\ turn.pc = "repark" /\ buffer' = buffer \o turn.taken
      /\ UNCHANGED <<pending, replayed, memory, driver, unseen>>
  BY DEF StopRepark, TurnUnchanged, journal
<1>2. /\ OneHolder(t) /\ ReplayedBy(t) /\ PendingBy(t) /\ Ahead(t) /\ Typed
      /\ buffer \in Seq(Msgs) /\ turn.taken \in Seq(Msgs) /\ turn \in TurnRecs
  BY <1>1, WatchedParts
<1>3. turn'.taken = <<>> /\ turn'.pc \in {"idle", "before"}
  <2>1. CASE turn' = NoTurn(turn.steps)
    <3>1. turn.steps \in 0..MaxSteps
      BY <1>2 DEF TurnRecs
    <3> QED
      BY <2>1, <3>1, Resting
  <2>2. CASE turn' = [turn EXCEPT !.pc = "before", !.steps = @ + 1, !.taken = <<>>]
    BY <1>2, <2>2 DEF TurnRecs
  <2> QED
    BY <2>1, <2>2 DEF StopRepark
<1>4. /\ Once(t, buffer') /\ Range(buffer') = Range(buffer) \cup Range(turn.taken)
      /\ Once(t, turn'.taken) /\ Range(turn'.taken) = {}
      /\ Len(buffer') = Len(buffer) + Len(turn.taken)
  <2>1. Once(t, buffer) /\ Once(t, turn.taken) /\ (t \in Range(buffer) => t \notin Range(turn.taken))
    BY <1>2 DEF OneHolder
  <2> QED
    BY <1>1, <1>2, <1>3, <2>1, OnceConcat, OnceEmpty, SeqSteps
<1>5. OneHolder(t)'
  BY <1>1, <1>2, <1>4, SameDriver DEF OneHolder
<1>6. /\ ~RowWritten(t) /\ ~Reparking(t) /\ ~Flushing(t)'
      /\ Held = Len(turn.taken) /\ Held' = 0 /\ Rerecorded = 0 /\ Rerecorded' = 0
      /\ t \in Range(turn.taken) => Flushing(t)
  BY <1>1, <1>3 DEF RowWritten, Reparking, Flushing, Held, Rerecorded
<1>7. ReplayedBy(t)'
  BY <1>1, <1>2, <1>6, SameDriver, ReplayedKept
<1>8. PendingBy(t)'
  <2>1. Flushing(t) => t \in Range(turn.taken)
    BY DEF Flushing
  <2> QED
    BY <1>1, <1>2, <1>4, <1>6, <2>1, SameDriver DEF PendingBy
<1>9. Ahead(t)'
  <2>1. Len(buffer) \in Nat /\ Woken \in Nat /\ Len(turn.taken) \in Nat /\ Woken' = Woken
    BY <1>1, <1>2, BalanceTypes, SeqSteps, SameDriver
  <2>2. ASSUME NEW p \in 1..Len(pending), pending[p] = t
        PROVE  /\ t \in Range(buffer') => p <= Len(buffer') + Woken
               /\ Waking(t) => p <= Len(driver.queue)
    <3>1. /\ t \in Range(buffer) => p <= Len(buffer) + Held + Rerecorded + Woken
          /\ t \in Range(turn.taken) => p <= Len(turn.taken)
          /\ Waking(t) => p <= Len(driver.queue)
      BY <1>2, <1>6, <2>2 DEF Ahead
    <3>2. p \in Int
      OBVIOUS
    <3> QED
      BY <1>4, <1>6, <2>1, <3>1, <3>2
  <2>3. Len(buffer') + Held' + Rerecorded' + Woken' = Len(buffer') + Woken
    BY <1>4, <1>6, <2>1
  <2> QED
    BY <1>1, <1>6, <2>2, <2>3, SameDriver DEF Ahead
<1> QED
  BY <1>5, <1>7, <1>8, <1>9 DEF Tracked

(* The stop hook writes the rows of the users' messages. *)
LEMMA TrackStopRow ==
    ASSUME Watched, StopRow, NEW t \in Tasks, t \notin unseen'
    PROVE  Tracked(t)'
<1>1. /\ turn.pc = "stoprows"
      /\ replayed' = Append(replayed, UserSteers(turn.taken)[turn.written + 1])
      /\ UNCHANGED <<pending, memory, buffer, driver, unseen>>
  BY DEF StopRow, TurnUnchanged
<1>2. /\ OneHolder(t) /\ ReplayedBy(t) /\ PendingBy(t) /\ Ahead(t) /\ TurnShape
      /\ replayed \in Seq(Msgs) /\ turn.taken \in Seq(Msgs) /\ turn \in TurnRecs
      /\ t \notin UserMsgs
  BY <1>1, WatchedParts
<1>3. PICK w \in Nat : w = turn.written
  BY <1>2 DEF TurnRecs
<1>4. PICK m \in UserMsgs : m = UserSteers(turn.taken)[w + 1]
  <2>1. UserSteers(turn.taken) \in Seq(UserMsgs) /\ w < Len(UserSteers(turn.taken))
    BY <1>1, <1>2, <1>3, Partition DEF TurnShape
  <2>2. w + 1 \in 1..Len(UserSteers(turn.taken))
    BY <2>1, LenProperties
  <2> QED
    BY <2>1, <2>2, ElementOfSeq
<1>5. m \in Msgs /\ m # t
  BY <1>2, NotifyConstants
<1>6. /\ turn'.taken = turn.taken /\ turn'.pc \in {"stoprows", "stopsteer"}
      /\ turn'.pc = "stopsteer" => turn'.written = 0
  <2>1. turn' = [turn EXCEPT !.written = 0, !.pc = "stopsteer"]
        \/ turn' = [turn EXCEPT !.written = w + 1, !.pc = "stoprows"]
    BY <1>1, <1>3 DEF StopRow
  <2> QED
    BY <1>2, <2>1 DEF TurnRecs
<1>7. /\ ~RowWritten(t) /\ ~Flushing(t) /\ ~Flushing(t)' /\ ~Reparking(t)
      /\ Held' = Held /\ Rerecorded' = Rerecorded
  BY <1>1, <1>6 DEF RowWritten, Flushing, Reparking, Held, Rerecorded
<1>8. OneHolder(t)' /\ PendingBy(t)' /\ Ahead(t)'
  BY <1>1, <1>2, <1>6, <1>7, SameDriver, HolderKept, PendingKept, AheadKept
<1>9. Once(t, replayed') /\ Range(replayed') = Range(replayed) \cup {m}
  BY <1>1, <1>2, <1>3, <1>4, <1>5, OnceAppend, SeqSteps DEF ReplayedBy
<1>10. ReplayedBy(t)'
  BY <1>1, <1>2, <1>5, <1>7, <1>9, SameDriver DEF ReplayedBy
<1> QED
  BY <1>8, <1>10 DEF Tracked

(* The stop hook records the notifications anew, and pushes them back. *)
LEMMA TrackStopSteer ==
    ASSUME Watched, StopSteer, NEW t \in Tasks, t \notin unseen'
    PROVE  Tracked(t)'
<1> DEFINE parked == Notifications(turn.taken)
<1>1. /\ turn.pc = "stopsteer"
      /\ UNCHANGED <<replayed, memory, buffer, driver, unseen>>
  BY DEF StopSteer, TurnUnchanged
<1>2. /\ OneHolder(t) /\ ReplayedBy(t) /\ PendingBy(t) /\ Ahead(t) /\ TurnShape /\ Typed
      /\ pending \in Seq(Msgs) /\ turn.taken \in Seq(Msgs) /\ turn \in TurnRecs
  BY <1>1, WatchedParts
<1>3. PICK w \in Nat : w = turn.written
  BY <1>2 DEF TurnRecs
<1>4. /\ parked \in Seq(Msgs) /\ Len(parked) \in Nat /\ Range(parked) = Keys(turn.taken)
      /\ Once(t, parked) /\ \A i \in 1..Len(parked) : parked[i] \in Msgs /\ parked[i] \in Range(parked)
  <2>1. Once(t, turn.taken)
    BY <1>2 DEF OneHolder
  <2>2. Once(t, parked)
    BY <1>2, <2>1, OncePick DEF Notifications
  <2>3. parked \in Seq(Msgs) /\ Range(parked) = Keys(turn.taken)
    BY <1>2, Partition
  <2> QED
    BY <2>2, <2>3, SeqSteps
<1> HIDE DEF parked
<1>5. \/ /\ w = Len(parked) /\ turn' = [turn EXCEPT !.pc = "stoppush"] /\ pending' = pending
      \/ /\ w < Len(parked) /\ pending' = Append(pending, parked[w + 1])
         /\ turn' = [turn EXCEPT !.written = w + 1]
  BY <1>3 DEF StopSteer, parked
<1>6. /\ turn'.taken = turn.taken /\ turn'.pc \in {"stopsteer", "stoppush"}
      /\ turn'.written \in {w, w + 1}
  <2>1. CASE turn' = [turn EXCEPT !.pc = "stoppush"]
    BY <1>2, <1>3, <2>1 DEF TurnRecs
  <2>2. CASE turn' = [turn EXCEPT !.written = w + 1]
    BY <1>1, <1>2, <1>3, <2>2 DEF TurnRecs
  <2> QED
    BY <1>5, <2>1, <2>2
<1>7. /\ ~RowWritten(t) /\ ~Flushing(t) /\ ~Flushing(t)' /\ Held = 0 /\ Held' = 0
      /\ Rerecorded = w /\ Rerecorded' = turn'.written
  BY <1>1, <1>3, <1>6 DEF RowWritten, Flushing, Held, Rerecorded
<1>8. OneHolder(t)' /\ ReplayedBy(t)'
  BY <1>1, <1>2, <1>6, <1>7, SameDriver, HolderKept, ReplayedKept
<1>9. /\ Reparking(t) <=> \E i \in 1..w : parked[i] = t
      /\ Reparking(t)' <=> \E i \in 1..turn'.written : parked[i] = t
  <2>1. Notifications(turn.taken) = parked /\ Notifications(turn'.taken) = parked
    BY <1>6 DEF parked
  <2>2. Reparking(t)' <=> \E i \in 1..turn'.written : Notifications(turn'.taken)[i] = t
    BY <1>6 DEF Reparking, Notifications
  <2> QED
    BY <1>1, <1>3, <2>1, <2>2 DEF Reparking
<1>10. turn'.written \in Nat /\ w <= turn'.written
  BY <1>6
<1>11. Reparking(t) => Reparking(t)'
  <2>1. \A i \in 1..w : i \in 1..turn'.written
    BY <1>10
  <2> QED
    BY <1>9, <2>1
<1>12. Len(buffer) \in Nat /\ Woken \in Nat /\ Woken' = Woken
  BY <1>1, <1>2, BalanceTypes, SameDriver
<1>13. CASE pending' = pending
  <2>1. PendingBy(t)'
    BY <1>1, <1>2, <1>7, <1>11, <1>13, SameDriver, PendingKept
  <2>2. ASSUME NEW p \in 1..Len(pending), pending[p] = t, t \in Range(buffer)
        PROVE  p <= Len(buffer) + Held' + Rerecorded' + Woken'
    <3>1. p <= Len(buffer) + Held + Rerecorded + Woken
      BY <1>2, <2>2 DEF Ahead
    <3> QED
      BY <1>7, <1>10, <1>12, <3>1
  <2>3. Ahead(t)'
    BY <1>1, <1>2, <1>7, <1>13, <2>2, SameDriver DEF Ahead
  <2> QED
    BY <1>8, <2>1, <2>3 DEF Tracked
<1>14. CASE w < Len(parked) /\ pending' = Append(pending, parked[w + 1]) /\ turn'.written = w + 1
  <2>1. w + 1 \in 1..Len(parked) /\ w + 1 \in 1..(w + 1)
    BY <1>4, <1>14
  <2>2. PICK m \in Msgs : m = parked[w + 1] /\ m \in Range(turn.taken)
    BY <1>4, <2>1 DEF Keys
  <2>3. m = t => /\ t \notin Range(buffer) /\ ~DriverHas(t)
    BY <1>2, <2>2 DEF OneHolder
  <2>4. m = t => t \notin Range(pending)
    <3> SUFFICES ASSUME m = t, t \in Range(pending) PROVE FALSE
      OBVIOUS
    <3>1. ~Parking(t) /\ ~Waking(t) /\ t \notin Range(buffer)
      BY <2>3 DEF DriverHas, Carried, Parking, Waking
    <3>2. PICK i \in 1..w : parked[i] = t
      BY <1>2, <1>7, <1>9, <3>1 DEF PendingBy
    <3>3. i \in 1..Len(parked) /\ i # w + 1
      BY <2>1, <3>2
    <3> QED
      BY <1>4, <2>1, <2>2, <3>2, <3>3 DEF Once
  <2>5. Once(t, pending') /\ Range(pending') = Range(pending) \cup {m}
    BY <1>2, <1>14, <2>2, <2>4, OnceAppend, SeqSteps DEF PendingBy
  <2>6. m = t => Reparking(t)'
    BY <1>9, <1>14, <2>1, <2>2
  <2>7. PendingBy(t)'
    BY <1>1, <1>2, <1>7, <1>11, <2>5, <2>6, SameDriver DEF PendingBy
  <2>8. PICK k \in Nat : k = Len(pending)
    BY <1>2, SeqSteps
  <2>9. /\ Len(pending') = k + 1 /\ pending'[k + 1] = m
        /\ \A i \in 1..k : pending'[i] = pending[i]
    BY <1>2, <1>14, <2>2, <2>8, AppendProperties
  <2>10. ASSUME NEW p \in 1..(k + 1), pending'[p] = t
         PROVE  /\ t \in Range(buffer) => p <= Len(buffer) + Held' + Rerecorded' + Woken'
                /\ Waking(t) => p <= Len(driver.queue)
    <3>1. CASE p \in 1..k
      <4>1. /\ t \in Range(buffer) => p <= Len(buffer) + Held + Rerecorded + Woken
            /\ Waking(t) => p <= Len(driver.queue)
        BY <1>2, <2>8, <2>9, <2>10, <3>1 DEF Ahead
      <4> QED
        BY <1>7, <1>10, <1>12, <4>1
    <3>2. CASE p = k + 1
      <4>1. t \notin Range(buffer) /\ ~Waking(t)
        BY <2>3, <2>9, <2>10, <3>2 DEF DriverHas, Waking
      <4> QED
        BY <4>1
    <3> QED
      BY <3>1, <3>2
  <2>11. Ahead(t)'
    BY <1>1, <1>7, <2>9, <2>10, SameDriver DEF Ahead
  <2> QED
    BY <1>8, <2>7, <2>11 DEF Tracked
<1>15. pending' = pending
       \/ (w < Len(parked) /\ pending' = Append(pending, parked[w + 1]) /\ turn'.written = w + 1)
  BY <1>2, <1>3, <1>5 DEF TurnRecs
<1> QED
  BY <1>13, <1>14, <1>15

LEMMA TrackStopPush ==
    ASSUME Watched, StopPush, NEW t \in Tasks, t \notin unseen'
    PROVE  Tracked(t)'
<1> DEFINE parked == Notifications(turn.taken)
           users == UserSteers(turn.taken)
<1>1. /\ turn.pc = "stoppush" /\ buffer' = buffer \o parked /\ memory' = memory \o users
      /\ UNCHANGED <<pending, replayed, driver>>
      /\ turn' = [turn EXCEPT !.pc = "before", !.taken = <<>>, !.written = 0]
      /\ unseen' = unseen \cup Crossed(Keys(turn.taken), driver.pc = "push" \/ Steering # {})
  BY DEF StopPush, journal
<1>2. /\ OneHolder(t) /\ ReplayedBy(t) /\ PendingBy(t) /\ Ahead(t) /\ TurnShape /\ Typed
      /\ memory \in Seq(Msgs) /\ buffer \in Seq(Msgs)
      /\ pending \in Seq(Msgs) /\ turn.taken \in Seq(Msgs) /\ turn \in TurnRecs
  BY <1>1, WatchedParts
<1>3. /\ parked \in Seq(Msgs) /\ Range(parked) = Keys(turn.taken) /\ Once(t, parked)
      /\ users \in Seq(Msgs) /\ t \notin Range(users) /\ Once(t, users)
      /\ Len(parked) \in Nat /\ turn.written = Len(parked)
      /\ t \in Range(parked) <=> t \in Range(turn.taken)
  <2>1. Once(t, turn.taken)
    BY <1>2 DEF OneHolder
  <2>2. Once(t, parked) /\ Once(t, users)
    BY <1>2, <2>1, OncePick DEF Notifications, UserSteers
  <2>3. /\ parked \in Seq(Msgs) /\ Range(parked) = Keys(turn.taken)
        /\ users \in Seq(Msgs) /\ Keys(users) = {}
    BY <1>2, Partition
  <2>4. turn.written = Len(parked)
    BY <1>1, <1>2 DEF TurnShape
  <2>5. Len(parked) \in Nat
    BY <2>3, SeqSteps
  <2> QED
    BY <2>2, <2>3, <2>4, <2>5 DEF Keys
<1>4. turn'.taken = <<>> /\ turn'.pc = "before"
  BY <1>1, <1>2 DEF TurnRecs
<1>5. /\ \A i \in 1..Len(parked) : parked[i] \in Range(parked)
      /\ Reparking(t) <=> \E i \in 1..Len(parked) : parked[i] = t
  <2>1. Reparking(t) <=> \E i \in 1..turn.written : parked[i] = t
    BY <1>1 DEF Reparking
  <2> QED
    BY <1>3, <2>1, SeqSteps
<1> HIDE DEF parked, users
<1>6. /\ Once(t, buffer') /\ Range(buffer') = Range(buffer) \cup Range(parked)
      /\ Len(buffer') = Len(buffer) + Len(parked)
      /\ Once(t, memory') /\ Range(memory') = Range(memory) \cup Range(users)
      /\ Once(t, turn'.taken) /\ Range(turn'.taken) = {}
  <2>1. /\ Once(t, memory) /\ Once(t, buffer)
        /\ t \in Range(buffer) => t \notin Range(parked)
    BY <1>2, <1>3 DEF OneHolder
  <2> QED
    BY <1>1, <1>2, <1>3, <1>4, <2>1, OnceConcat, OnceEmpty, SeqSteps
<1>7. OneHolder(t)'
  BY <1>1, <1>2, <1>3, <1>6, SameDriver DEF OneHolder
<1>8. /\ ~RowWritten(t) /\ ~Flushing(t) /\ ~Flushing(t)' /\ Held = 0 /\ Held' = 0
      /\ Rerecorded = Len(parked) /\ Rerecorded' = 0
  BY <1>1, <1>3, <1>4 DEF RowWritten, Flushing, Held, Rerecorded
<1>9. ReplayedBy(t)'
  BY <1>1, <1>2, <1>6, <1>8, SameDriver DEF ReplayedBy
<1>10. PendingBy(t)'
  BY <1>1, <1>2, <1>5, <1>6, <1>8, SameDriver DEF PendingBy
<1>11. /\ Len(buffer) \in Nat /\ Woken \in Nat /\ Woken' = Woken /\ Len(pending) \in Nat
       /\ IsFiniteSet(Steering)
  BY <1>1, <1>2, BalanceTypes, SameDriver
<1>12. t \in Range(parked) => Len(pending) = Len(buffer) + Len(parked) + Woken
  <2> SUFFICES ASSUME t \in Range(parked) PROVE Len(pending) = Len(buffer) + Len(parked) + Woken
    OBVIOUS
  <2>1. driver.pc # "push" /\ Steering = {}
    BY <1>1, <1>3 DEF Crossed
  <2>2. Pushing = 0 /\ Steered = 0
    BY <2>1, FS_EmptySet DEF Pushing, Steered
  <2>3. Len(pending) = Total
    BY BalanceParts DEF Watched
  <2> QED
    BY <1>3, <1>8, <1>11, <2>2, <2>3 DEF Total
<1>13. ASSUME NEW p \in 1..Len(pending), pending[p] = t
       PROVE  /\ t \in Range(buffer') => p <= Len(buffer') + Held' + Rerecorded' + Woken'
              /\ Waking(t) => p <= Len(driver.queue)
  <2>1. /\ t \in Range(buffer) => p <= Len(buffer) + Held + Rerecorded + Woken
        /\ Waking(t) => p <= Len(driver.queue)
    BY <1>2, <1>13 DEF Ahead
  <2> QED
    BY <1>3, <1>6, <1>8, <1>11, <1>12, <2>1
<1>14. Ahead(t)'
  BY <1>1, <1>8, <1>13, SameDriver DEF Ahead
<1> QED
  BY <1>7, <1>9, <1>10, <1>14 DEF Tracked

(* A step of the tick or of the resume that moves no message. *)
LEMMA TrackQuietTick ==
    ASSUME Watched, NEW t \in Tasks, t \notin unseen,
           UNCHANGED <<pending, replayed, memory, buffer, turn>>,
           driver.pc \notin {"push", "wakemark"}, driver'.pc # "wakemark",
           driver'.due \subseteq driver.due, driver'.queue = driver.queue,
           Carried(t)' => Carried(t), Delivering(t) => Delivering(t)'
    PROVE  Tracked(t)'
<1>1. OneHolder(t) /\ ReplayedBy(t) /\ PendingBy(t) /\ Ahead(t)
  BY WatchedParts
<1>2. ~Parking(t) /\ ~Waking(t) /\ ~Waking(t)' /\ Woken = 0 /\ Woken' = 0
  BY DEF Parking, Waking, Woken
<1> QED
  BY <1>1, <1>2, SameTurn, HolderKept, ReplayedKept, PendingKept, AheadKept DEF Tracked

LEMMA TrackQuiet ==
    ASSUME Watched, NEW t \in Tasks, t \notin unseen',
           \/ TickScan \/ TickSweep \/ TickProbe \/ TickDefer \/ DeliverMark \/ DeliverNext
           \/ TickEnds \/ RestoreMark \/ RestoreEnds
    PROVE  Tracked(t)'
<1>1. UNCHANGED <<pending, replayed, memory, buffer, turn, unseen>>
  BY DEF TickScan, TickSweep, TickProbe, TickDefer, DeliverMark, DeliverNext, TickEnds,
    RestoreMark, RestoreEnds, DriverUnchanged, journal
<1>2. driver \in DriverRecs /\ TickShape /\ t # None
  BY <1>1, WatchedParts
<1>3. Asleep.pc = "sleep" /\ Asleep.queue = <<>> /\ Asleep.due = {} /\ Asleep.cur = None
  BY DEF Asleep
<1>4. CASE driver' = Asleep /\ driver.pc \in {"probe", "wake", "deliver", "restore"}
            /\ driver.queue = <<>>
  <2>1. driver'.due \subseteq driver.due /\ driver'.queue = driver.queue /\ driver'.pc # "wakemark"
    BY <1>2, <1>3, <1>4
  <2>2. ~Carried(t)' /\ ~Delivering(t)
    BY <1>2, <1>3, <1>4 DEF Carried, Delivering
  <2> QED
    BY <1>1, <1>4, <2>1, <2>2, TrackQuietTick
<1>5. CASE RestoreMark
  <2>1. driver.pc = "rmark" /\ driver' = [driver EXCEPT !.pc = "restore", !.cur = None]
    BY <1>5 DEF RestoreMark
  <2>2. /\ driver'.pc = "restore" /\ driver'.cur = None
        /\ driver'.due = driver.due /\ driver'.queue = driver.queue
    BY <1>2, <2>1 DEF DriverRecs
  <2>3. ~Carried(t)' /\ ~Delivering(t)
    BY <1>2, <2>1, <2>2 DEF Carried, Delivering
  <2> QED
    BY <1>1, <2>1, <2>2, <2>3, TrackQuietTick
<1>6. CASE TickProbe
  <2>1. driver.pc = "probe" /\ driver.queue = <<>>
    BY <1>2, <1>6 DEF TickProbe, TickShape
  <2>2. \/ driver' = Asleep \/ driver' = [driver EXCEPT !.pc = "wake"]
        \/ driver' = [driver EXCEPT !.pc = "park"]
    BY <1>6 DEF TickProbe
  <2>3. ASSUME NEW c \in {"wake", "park"}, driver' = [driver EXCEPT !.pc = c]
        PROVE  Tracked(t)'
    <3>1. /\ driver'.pc = c /\ driver'.cur = driver.cur
          /\ driver'.due = driver.due /\ driver'.queue = driver.queue
      BY <1>2, <2>3 DEF DriverRecs
    <3>2. (Carried(t)' => Carried(t)) /\ ~Delivering(t)
      BY <2>1, <3>1 DEF Carried, Delivering
    <3> QED
      BY <1>1, <2>1, <3>1, <3>2, TrackQuietTick
  <2> QED
    BY <1>4, <2>1, <2>2, <2>3
<1>7. CASE TickScan \/ TickSweep \/ DeliverMark \/ DeliverNext
  <2>1. PICK c \in {"sweep", "due", "launch", "deliver"} :
          /\ driver'.pc = c /\ driver'.cur = driver.cur
          /\ driver'.due = driver.due /\ driver'.queue = driver.queue
          /\ driver.pc \in {"sleep", "sweep", "running"} \/ (driver.pc = "mark" /\ c = "launch")
    BY <1>2, <1>7 DEF TickScan, TickSweep, DeliverMark, DeliverNext, DriverRecs
  <2>2. Carried(t)' => Carried(t)
    BY <2>1 DEF Carried
  <2>3. Delivering(t) => Delivering(t)'
    BY <2>1 DEF Delivering
  <2> QED
    BY <1>1, <2>1, <2>2, <2>3, TrackQuietTick
<1>8. CASE TickDefer \/ TickEnds \/ RestoreEnds
  <2>1. driver' = Asleep /\ driver.pc \in {"wake", "deliver", "restore"} /\ driver.queue = <<>>
    BY <1>2, <1>8 DEF TickDefer, TickEnds, RestoreEnds, TickShape
  <2> QED
    BY <1>4, <2>1
<1> QED
  BY <1>5, <1>6, <1>7, <1>8

(* The second scan: what is due is nowhere, or lost from sight. *)
LEMMA TrackDue ==
    ASSUME Watched, TickDue, NEW t \in Tasks, t \notin unseen'
    PROVE  Tracked(t)'
<1>1. PICK due \in SUBSET Tasks : due = due_notifications(driver.seen, Keys(buffer))
  BY DEF due_notifications
<1>2. /\ driver.pc = "due" /\ UNCHANGED <<pending, replayed, memory, buffer, turn>>
      /\ driver' = Asleep \/ driver' = [Asleep EXCEPT !.pc = "probe", !.due = due]
      /\ unseen' = unseen \cup (due \cap (Keys(turn.taken) \cup Keys(memory)))
  BY <1>1 DEF TickDue, DriverUnchanged, journal
<1>3. /\ OneHolder(t) /\ ReplayedBy(t) /\ PendingBy(t) /\ Ahead(t)
      /\ driver \in DriverRecs /\ TickShape /\ t # None
  BY <1>2, WatchedParts
<1>4. /\ driver'.pc \in {"sleep", "probe"} /\ driver'.queue = <<>> /\ driver'.cur = None
      /\ driver'.due \subseteq due
  <2>1. /\ Asleep \in DriverRecs /\ Asleep.pc = "sleep" /\ Asleep.queue = <<>>
        /\ Asleep.due = {} /\ Asleep.cur = None
    BY Resting DEF Asleep
  <2>2. CASE driver' = Asleep
    BY <2>1, <2>2
  <2>3. CASE driver' = [Asleep EXCEPT !.pc = "probe", !.due = due]
    BY <2>1, <2>3 DEF DriverRecs
  <2> QED
    BY <1>2, <2>2, <2>3
<1>5. driver.queue = <<>> /\ driver.due = {} /\ driver.cur = None
  BY <1>2, <1>3 DEF TickShape
<1>6. t \in due => /\ t \notin Range(buffer) /\ t \notin Range(memory)
                   /\ t \notin Range(turn.taken)
  BY <1>1, <1>2 DEF due_notifications, Keys
<1>7. /\ ~Parking(t) /\ ~Waking(t) /\ ~Waking(t)' /\ ~Delivering(t) /\ ~Carried(t)'
      /\ Woken = 0 /\ Woken' = 0
  BY <1>2, <1>3, <1>4 DEF Parking, Waking, Delivering, Carried, Woken
<1>8. OneHolder(t)'
  <2>1. t \notin Range(driver'.queue) /\ Once(t, driver'.queue) /\ (DriverHas(t)' => t \in due)
    BY <1>4, <1>7, OnceEmpty DEF DriverHas, Range
  <2> QED
    BY <1>2, <1>3, <1>4, <1>6, <1>7, <2>1 DEF OneHolder
<1>9. ReplayedBy(t)' /\ PendingBy(t)'
  BY <1>2, <1>3, <1>7, SameTurn, ReplayedKept, PendingKept
<1>10. Ahead(t)'
  BY <1>2, <1>3, <1>4, <1>5, <1>7, SameTurn, AheadKept
<1> QED
  BY <1>8, <1>9, <1>10 DEF Tracked

(* Parking: the record, and the push. *)
LEMMA TrackParkRecord ==
    ASSUME Watched, ParkRecord, NEW t \in Tasks, t \notin unseen'
    PROVE  Tracked(t)'
<1>1. PICK u \in driver.due : /\ pending' = Append(pending, u)
                              /\ driver' = [driver EXCEPT !.pc = "push", !.cur = u, !.due = @ \ {u}]
  BY DEF ParkRecord
<1>2. driver.pc = "park" /\ UNCHANGED <<replayed, memory, buffer, turn, unseen>>
  BY DEF ParkRecord, DriverUnchanged
<1>3. /\ OneHolder(t) /\ ReplayedBy(t) /\ PendingBy(t) /\ Ahead(t)
      /\ driver \in DriverRecs /\ TickShape /\ t # None /\ pending \in Seq(Msgs)
  BY <1>2, WatchedParts
<1>4. u \in Msgs /\ u \in Tasks
  BY <1>3, NotifyConstants DEF DriverRecs
<1>5. /\ driver'.pc = "push" /\ driver'.cur = u /\ driver'.due = driver.due \ {u}
      /\ driver'.queue = driver.queue
  BY <1>1, <1>3 DEF DriverRecs
<1>6. driver.queue = <<>> /\ Range(driver.queue) = {} /\ driver.cur = None
  BY <1>2, <1>3 DEF TickShape, Range
<1>7. /\ ~Parking(t) /\ ~Waking(t) /\ ~Waking(t)' /\ ~Delivering(t) /\ ~Carried(t)
      /\ Woken = 0 /\ Woken' = 0 /\ (Carried(t)' <=> t = u) /\ (Parking(t)' <=> t = u)
  BY <1>2, <1>3, <1>5, <1>6 DEF Parking, Waking, Delivering, Carried, Woken
<1>8. t = u => /\ t \notin Range(memory) /\ t \notin Range(buffer) /\ t \notin Range(turn.taken)
  BY <1>3 DEF OneHolder, DriverHas
<1>9. OneHolder(t)'
  BY <1>2, <1>3, <1>5, <1>6, <1>7, <1>8 DEF OneHolder, DriverHas
<1>10. ReplayedBy(t)'
  BY <1>2, <1>3, <1>7, SameTurn, ReplayedKept
<1>11. t = u => ~Flushing(t) /\ ~Reparking(t)
  <2>1. Reparking(t) => t \in Range(turn.taken)
    BY <1>2, ReparkingTaken
  <2> QED
    BY <1>8, <2>1 DEF Flushing
<1>12. t = u => t \notin Range(pending)
  BY <1>3, <1>7, <1>8, <1>11 DEF PendingBy
<1>13. Once(t, pending') /\ Range(pending') = Range(pending) \cup {u}
  BY <1>1, <1>3, <1>4, <1>12, OnceAppend, SeqSteps DEF PendingBy
<1>14. PendingBy(t)'
  BY <1>2, <1>3, <1>7, <1>13, SameTurn DEF PendingBy
<1>15. Ahead(t)'
  <2>1. PICK k \in Nat : k = Len(pending)
    BY <1>3, SeqSteps
  <2>2. /\ Len(pending') = k + 1 /\ pending'[k + 1] = u
        /\ \A i \in 1..k : pending'[i] = pending[i]
    BY <1>1, <1>3, <1>4, <2>1, AppendProperties
  <2>3. ASSUME NEW p \in 1..(k + 1), pending'[p] = t
        PROVE  /\ t \in Range(buffer) => p <= Len(buffer) + Held + Rerecorded + Woken
               /\ Flushing(t) => p <= Len(turn.taken)
    <3>1. CASE p \in 1..k
      BY <1>3, <2>1, <2>2, <2>3, <3>1 DEF Ahead
    <3>2. CASE p = k + 1
      BY <1>8, <1>11, <2>2, <2>3, <3>2
    <3> QED
      BY <3>1, <3>2
  <2> QED
    BY <1>2, <1>7, <2>2, <2>3, SameTurn DEF Ahead
<1> QED
  BY <1>9, <1>10, <1>14, <1>15 DEF Tracked

LEMMA TrackParkPush ==
    ASSUME Watched, ParkPush, NEW t \in Tasks, t \notin unseen'
    PROVE  Tracked(t)'
<1>1. /\ driver.pc = "push" /\ buffer' = Append(buffer, driver.cur)
      /\ unseen' = unseen \cup Crossed({driver.cur}, Steering # {})
      /\ driver' = IF driver.due = {} THEN Asleep ELSE [driver EXCEPT !.pc = "park", !.cur = None]
      /\ UNCHANGED <<pending, replayed, memory, turn>>
  BY DEF ParkPush, DriverUnchanged, journal
<1>2. /\ OneHolder(t) /\ ReplayedBy(t) /\ PendingBy(t) /\ Ahead(t) /\ Typed
      /\ driver \in DriverRecs /\ DriverShape /\ TickShape /\ t # None /\ buffer \in Seq(Msgs)
      /\ turn.taken \in Seq(Msgs) /\ pending \in Seq(Msgs)
  BY <1>1, WatchedParts
<1>3. PICK u \in Tasks : u = driver.cur
  BY <1>1, <1>2 DEF DriverShape
<1>4. u \in Msgs /\ driver.queue = <<>> /\ Range(driver.queue) = {}
  BY <1>1, <1>2, NotifyConstants DEF TickShape, Range
<1>5. /\ driver'.pc \in {"sleep", "park"} /\ driver'.queue = <<>> /\ driver'.cur = None
      /\ driver'.due = driver.due
  <2>1. CASE driver.due = {}
    BY <1>1, <2>1 DEF Asleep
  <2>2. CASE driver.due # {}
    BY <1>1, <1>2, <1>4, <2>2 DEF DriverRecs
  <2> QED
    BY <2>1, <2>2
<1>6. /\ ~Waking(t) /\ ~Waking(t)' /\ ~Delivering(t) /\ ~Carried(t)' /\ Woken = 0 /\ Woken' = 0
      /\ (Carried(t) <=> t = u) /\ (Parking(t) <=> t = u)
  BY <1>1, <1>2, <1>3, <1>5 DEF Parking, Waking, Delivering, Carried, Woken
<1>7. t = u => /\ t \notin Range(memory) /\ t \notin Range(buffer) /\ t \notin Range(turn.taken)
               /\ t \notin driver.due
  BY <1>2, <1>6 DEF OneHolder, DriverHas
<1>8. /\ Once(t, buffer') /\ Range(buffer') = Range(buffer) \cup {u}
      /\ Len(buffer') = Len(buffer) + 1
  BY <1>1, <1>2, <1>3, <1>4, <1>7, OnceAppend, SeqSteps DEF OneHolder
<1>9. OneHolder(t)'
  BY <1>1, <1>2, <1>4, <1>5, <1>6, <1>7, <1>8 DEF OneHolder, DriverHas
<1>10. ReplayedBy(t)'
  BY <1>1, <1>2, <1>6, SameTurn, ReplayedKept
<1>11. PendingBy(t)'
  BY <1>1, <1>2, <1>6, <1>8, SameTurn DEF PendingBy
<1>12. /\ Len(buffer) \in Nat /\ Len(pending) \in Nat /\ Held \in Nat /\ Rerecorded \in Nat
       /\ Held' = Held /\ Rerecorded' = Rerecorded
  BY <1>1, <1>2, BalanceTypes, SameTurn
<1>13. t = u => Len(pending) = Len(buffer) + Held + Rerecorded + 1
  <2> SUFFICES ASSUME t = u PROVE Len(pending) = Len(buffer) + Held + Rerecorded + 1
    OBVIOUS
  <2>1. Steering = {}
    BY <1>1, <1>3 DEF Crossed
  <2>2. Pushing = 1 /\ Steered = 0
    BY <1>1, <2>1, FS_EmptySet DEF Pushing, Steered
  <2>3. Len(pending) = Total
    BY BalanceParts DEF Watched
  <2> QED
    BY <1>6, <1>12, <2>2, <2>3 DEF Total
<1>14. ASSUME NEW p \in 1..Len(pending), pending[p] = t
       PROVE  /\ t \in Range(buffer') => p <= Len(buffer') + Held' + Rerecorded' + Woken'
              /\ Flushing(t) => p <= Len(turn.taken)
  <2>1. /\ t \in Range(buffer) => p <= Len(buffer) + Held + Rerecorded + Woken
        /\ Flushing(t) => p <= Len(turn.taken)
    BY <1>2, <1>14 DEF Ahead
  <2> QED
    BY <1>6, <1>8, <1>12, <1>13, <2>1
<1>15. Ahead(t)'
  BY <1>1, <1>6, <1>14, SameTurn DEF Ahead
<1> QED
  BY <1>9, <1>10, <1>11, <1>15 DEF Tracked

(* The wakeup takes a buffer of notifications, and its marker. *)
LEMMA TrackWake ==
    ASSUME Watched, Wake, NEW t \in Tasks, t \notin unseen'
    PROVE  Tracked(t)'
<1>1. driver.pc = "wake" /\ UNCHANGED <<pending, replayed, memory, turn, unseen>>
  BY DEF Wake, DriverUnchanged, journal
<1>2. /\ OneHolder(t) /\ ReplayedBy(t) /\ PendingBy(t) /\ Ahead(t) /\ Typed
      /\ driver \in DriverRecs /\ TickShape /\ t # None /\ buffer \in Seq(Msgs)
      /\ turn.taken \in Seq(Msgs) /\ pending \in Seq(Msgs)
      /\ turn.written \in Nat /\ turn.written <= Len(turn.taken)
  BY <1>1, WatchedParts
<1>3. driver.queue = <<>> /\ Range(driver.queue) = {} /\ driver.cur = None
  BY <1>1, <1>2 DEF TickShape, Range
<1>4. CASE ~Stranded
  <2>1. driver' = [driver EXCEPT !.pc = "deliver"] /\ buffer' = buffer
    BY <1>4 DEF Wake
  <2>2. /\ driver'.pc = "deliver" /\ driver'.due = driver.due /\ driver'.queue = driver.queue
        /\ driver'.cur = driver.cur
    BY <1>2, <2>1 DEF DriverRecs
  <2>3. ~Carried(t)' /\ ~Delivering(t)
    BY <1>1, <1>2, <1>3, <2>2 DEF Carried, Delivering
  <2> QED
    BY <1>1, <2>1, <2>2, <2>3, TrackQuietTick
<1>5. CASE Stranded
  <2>1. driver' = [driver EXCEPT !.pc = "wakemark", !.queue = buffer] /\ buffer' = <<>>
    BY <1>5 DEF Wake
  <2>2. /\ driver'.pc = "wakemark" /\ driver'.due = driver.due /\ driver'.queue = buffer
        /\ driver'.cur = driver.cur
    BY <1>2, <2>1 DEF DriverRecs
  <2>3. /\ ~Carried(t) /\ ~Carried(t)' /\ ~Delivering(t) /\ ~Parking(t) /\ ~Waking(t)
        /\ (Waking(t)' <=> t \in Range(buffer)) /\ Woken = 0
    BY <1>1, <1>2, <1>3, <2>2 DEF Carried, Delivering, Parking, Waking, Woken
  <2>4. Range(buffer') = {} /\ Once(t, buffer')
    BY <2>1, OnceEmpty DEF Range
  <2>5. OneHolder(t)'
    BY <1>1, <1>2, <1>3, <2>2, <2>3, <2>4 DEF OneHolder, DriverHas
  <2>6. ReplayedBy(t)'
    BY <1>1, <1>2, <2>3, SameTurn, ReplayedKept
  <2>7. PendingBy(t)'
    BY <1>1, <1>2, <2>3, SameTurn DEF PendingBy
  <2>8. t \in Range(buffer) => Held = 0 /\ Rerecorded = 0
    <3> SUFFICES ASSUME t \in Range(buffer) PROVE Held = 0 /\ Rerecorded = 0
      OBVIOUS
    <3>1. turn.taken = <<>>
      BY <1>1, <1>2 DEF TickShape, Keys
    <3>2. Len(turn.taken) = 0
      BY <3>1
    <3> QED
      BY <1>2, <3>2 DEF Held, Rerecorded
  <2>9. Len(buffer) \in Nat /\ Len(driver'.queue) = Len(buffer)
    BY <1>2, <2>2, SeqSteps
  <2>10. ASSUME NEW p \in 1..Len(pending), pending[p] = t
         PROVE  /\ Flushing(t) => p <= Len(turn.taken)
                /\ t \in Range(buffer) => p <= Len(buffer)
    <3>1. /\ t \in Range(buffer) => p <= Len(buffer) + Held + Rerecorded + Woken
          /\ Flushing(t) => p <= Len(turn.taken)
      BY <1>2, <2>10 DEF Ahead
    <3> QED
      BY <2>3, <2>8, <2>9, <3>1
  <2>11. Ahead(t)'
    BY <1>1, <2>3, <2>4, <2>9, <2>10, SameTurn DEF Ahead
  <2> QED
    BY <2>5, <2>6, <2>7, <2>11 DEF Tracked
<1> QED
  BY <1>4, <1>5

LEMMA TrackWakeMark ==
    ASSUME Watched, WakeMark, NEW t \in Tasks, t \notin unseen'
    PROVE  Tracked(t)'
<1>1. /\ driver.pc = "wakemark" /\ SteerFlushed(Len(driver.queue))
      /\ driver' = [driver EXCEPT !.pc = "deliver"]
      /\ UNCHANGED <<replayed, memory, buffer, turn, unseen>>
  BY DEF WakeMark, DriverUnchanged
<1>2. /\ OneHolder(t) /\ ReplayedBy(t) /\ PendingBy(t) /\ Ahead(t) /\ Typed
      /\ driver \in DriverRecs /\ TickShape /\ t # None
      /\ driver.queue \in Seq(Msgs) /\ pending \in Seq(Msgs)
  BY <1>1, WatchedParts
<1>3. /\ driver'.pc = "deliver" /\ driver'.due = driver.due /\ driver'.queue = driver.queue
      /\ driver'.cur = driver.cur
  BY <1>1, <1>2 DEF DriverRecs
<1>4. PICK n \in Nat : n = Len(driver.queue)
  BY <1>2, SeqSteps
<1>5. /\ Len(buffer) \in Nat /\ Len(pending) \in Nat /\ Held \in Nat /\ Rerecorded \in Nat
      /\ Pushing \in Nat /\ Steered \in Nat /\ Woken = n
  BY <1>1, <1>2, <1>4, BalanceTypes DEF Woken
<1>6. n <= Len(pending)
  <2>1. Len(pending) = Total
    BY BalanceParts DEF Watched
  <2> QED
    BY <1>5, <2>1 DEF Total
<1>7. t \notin Range(buffer) /\ t \notin Range(turn.taken) /\ ~Flushing(t) /\ ~Reparking(t)
  <2>1. t \notin Range(buffer) /\ t \notin Range(turn.taken)
    BY <1>1, <1>2 DEF TickShape, Keys
  <2> QED
    BY <1>1, <2>1, ReparkingTaken DEF Flushing
<1>8. /\ ~Parking(t) /\ ~Waking(t)' /\ ~Delivering(t) /\ (Carried(t)' <=> Carried(t))
  BY <1>1, <1>3 DEF Parking, Waking, Delivering, Carried
<1>9. Once(t, pending') /\ t \notin Range(pending') /\ pending' \in Seq(Msgs)
  <2>1. SteerFlushed(n) /\ Once(t, pending)
    BY <1>1, <1>2, <1>4 DEF PendingBy
  <2>2. /\ Once(t, pending') /\ pending' \in Seq(Msgs)
        /\ t \in Range(pending') => \E p \in 1..Len(pending) : pending[p] = t /\ n < p
    BY <1>2, <1>6, <2>1, Popped
  <2>3. ASSUME NEW p \in 1..Len(pending), pending[p] = t, n < p PROVE FALSE
    <3>1. t \in Range(pending)
      BY <1>2, <2>3, SeqSteps
    <3>2. Waking(t)
      BY <1>2, <1>7, <1>8, <3>1 DEF PendingBy
    <3>3. p <= n
      BY <1>2, <1>4, <2>3, <3>2 DEF Ahead
    <3> QED
      BY <2>3, <3>3
  <2> QED
    BY <2>2, <2>3
<1>10. OneHolder(t)' /\ ReplayedBy(t)'
  BY <1>1, <1>2, <1>3, <1>8, SameTurn, HolderKept, ReplayedKept
<1>11. PendingBy(t)'
  BY <1>9 DEF PendingBy
<1>12. Ahead(t)'
  <2>1. \A p \in 1..Len(pending') : pending'[p] # t
    BY <1>9, SeqSteps
  <2> QED
    BY <2>1 DEF Ahead
<1> QED
  BY <1>10, <1>11, <1>12 DEF Tracked

(* A step that puts nothing into the buffer or the queue, and takes nothing. *)
LEMMA StillPending ==
    ASSUME NEW t, PendingBy(t), Ahead(t), UNCHANGED <<pending, buffer>>,
           Held' = Held, Rerecorded' = Rerecorded, turn'.taken = turn.taken,
           Flushing(t)' <=> Flushing(t), Reparking(t)' <=> Reparking(t),
           driver.pc \notin {"push", "wakemark"}, driver'.pc # "wakemark"
    PROVE  PendingBy(t)' /\ Ahead(t)'
<1>1. ~Parking(t) /\ ~Waking(t) /\ ~Waking(t)' /\ Woken = 0 /\ Woken' = 0
  BY DEF Parking, Waking, Woken
<1>2. PendingBy(t)'
  BY <1>1, PendingKept
<1>3. Ahead(t)'
  BY <1>1 DEF Ahead
<1> QED
  BY <1>2, <1>3

(* A delivery: the record, and the turn. *)
LEMMA TrackDeliverRecord ==
    ASSUME Watched, DeliverRecord, NEW t \in Tasks, t \notin unseen'
    PROVE  Tracked(t)'
<1>1. driver.pc = "deliver" /\ UNCHANGED <<pending, memory, buffer, turn, unseen>>
  BY DEF DeliverRecord, DriverUnchanged
<1>2. /\ OneHolder(t) /\ ReplayedBy(t) /\ PendingBy(t) /\ Ahead(t)
      /\ driver \in DriverRecs /\ TickShape /\ t # None
      /\ driver.queue \in Seq(Msgs) /\ replayed \in Seq(Msgs)
      /\ turn.taken \in Seq(Msgs) /\ turn.written \in Nat /\ turn.written <= Len(turn.taken)
  BY <1>1, WatchedParts
<1>3. ~Carried(t) /\ ~Delivering(t)
  BY <1>1, <1>2 DEF TickShape, Carried, Delivering
<1>4. RowWritten(t) => t \in Range(turn.taken)
  <2>1. \A i \in 1..turn.written : i \in 1..Len(turn.taken)
    BY <1>2, SeqSteps
  <2> QED
    BY <1>2, <2>1, SeqSteps DEF RowWritten
<1>5. DriverHas(t) => t \notin Range(replayed)
  BY <1>2, <1>3, <1>4 DEF OneHolder, ReplayedBy
<1>6. PICK u \in Msgs :
        /\ replayed' = Append(replayed, u)
        /\ driver'.pc = "mark" /\ driver'.cur = u
        /\ driver'.due \subseteq driver.due /\ Range(driver'.queue) \subseteq Range(driver.queue)
        /\ Once(t, driver'.queue)
        /\ u = t => DriverHas(t) /\ t \notin driver'.due /\ t \notin Range(driver'.queue)
  <2>0. Once(t, driver.queue)
    BY <1>2 DEF OneHolder
  <2>1. CASE driver.queue # <<>>
    <3>1. /\ replayed' = Append(replayed, Head(driver.queue))
          /\ driver' = [driver EXCEPT !.pc = "mark", !.cur = Head(driver.queue), !.queue = Tail(@)]
      BY <2>1 DEF DeliverRecord
    <3>2. PICK u \in Msgs : u = Head(driver.queue)
      BY <1>2, <2>0, <2>1, HeadOff
    <3>3. /\ driver'.pc = "mark" /\ driver'.cur = u /\ driver'.due = driver.due
          /\ driver'.queue = Tail(driver.queue)
      BY <1>2, <3>1, <3>2 DEF DriverRecs
    <3>4. /\ Once(t, Tail(driver.queue)) /\ u \in Range(driver.queue)
          /\ Range(Tail(driver.queue)) \subseteq Range(driver.queue)
          /\ u = t => t \notin Range(Tail(driver.queue))
      BY <1>2, <2>0, <2>1, <3>2, HeadOff
    <3>5. u = t => t \notin driver.due /\ DriverHas(t)
      BY <1>2, <3>4 DEF OneHolder, DriverHas
    <3> QED
      BY <3>1, <3>2, <3>3, <3>4, <3>5
  <2>2. CASE driver.queue = <<>>
    <3>1. PICK u \in driver.due :
            /\ replayed' = Append(replayed, u)
            /\ driver' = [driver EXCEPT !.pc = "mark", !.cur = u, !.due = @ \ {u}]
      BY <2>2 DEF DeliverRecord
    <3>2. /\ driver'.pc = "mark" /\ driver'.cur = u /\ driver'.due = driver.due \ {u}
          /\ driver'.queue = driver.queue
      BY <1>2, <3>1 DEF DriverRecs
    <3>3. u \in Msgs
      BY <1>2, NotifyConstants DEF DriverRecs
    <3>4. u = t => t \notin Range(driver.queue) /\ DriverHas(t)
      BY <1>2 DEF OneHolder, DriverHas
    <3> QED
      BY <2>0, <3>1, <3>2, <3>3, <3>4
  <2> QED
    BY <2>1, <2>2
<1>7. (Carried(t)' <=> u = t) /\ (Delivering(t)' <=> u = t)
  BY <1>6 DEF Carried, Delivering
<1>8. DriverHas(t)' => DriverHas(t)
  BY <1>6, <1>7 DEF DriverHas
<1>9. OneHolder(t)'
  <2>1. t \in driver'.due => t \notin Range(driver'.queue) /\ ~Carried(t)'
    BY <1>2, <1>6, <1>7 DEF OneHolder
  <2>2. t \in Range(driver'.queue) => ~Carried(t)'
    BY <1>6, <1>7
  <2> QED
    BY <1>1, <1>2, <1>6, <1>8, <2>1, <2>2 DEF OneHolder
<1>10. Once(t, replayed') /\ Range(replayed') = Range(replayed) \cup {u}
  BY <1>2, <1>5, <1>6, OnceAppend, SeqSteps DEF ReplayedBy
<1>11. ReplayedBy(t)'
  BY <1>1, <1>2, <1>3, <1>7, <1>10, SameTurn DEF ReplayedBy
<1>12. PendingBy(t)' /\ Ahead(t)'
  BY <1>1, <1>2, <1>6, SameTurn, StillPending
<1> QED
  BY <1>9, <1>11, <1>12 DEF Tracked

LEMMA TrackDeliverTurn ==
    ASSUME Watched, DeliverTurn, NEW t \in Tasks, t \notin unseen'
    PROVE  Tracked(t)'
<1>1. /\ driver.pc = "launch" /\ turn.pc = "idle" /\ memory' = Append(memory, driver.cur)
      /\ turn' = [turn EXCEPT !.pc = "before", !.owner = "driver"]
      /\ driver' = [driver EXCEPT !.pc = "running", !.cur = None]
      /\ UNCHANGED <<pending, replayed, buffer, unseen>>
  BY DEF DeliverTurn, StartTurn, journal
<1>2. /\ OneHolder(t) /\ ReplayedBy(t) /\ PendingBy(t) /\ Ahead(t)
      /\ driver \in DriverRecs /\ DriverShape /\ t # None /\ memory \in Seq(Msgs)
      /\ turn \in TurnRecs
  BY <1>1, WatchedParts
<1>3. PICK u \in Msgs : u = driver.cur
  BY <1>1, <1>2, NotifyConstants DEF DriverShape
<1>4. /\ driver'.pc = "running" /\ driver'.cur = None /\ driver'.due = driver.due
      /\ driver'.queue = driver.queue /\ turn'.pc = "before" /\ turn'.taken = turn.taken
  BY <1>1, <1>2 DEF DriverRecs, TurnRecs
<1>5. (Carried(t) <=> t = u) /\ ~Carried(t)' /\ (Delivering(t) <=> t = u)
  BY <1>1, <1>2, <1>3, <1>4 DEF Carried, Delivering
<1>6. Once(t, memory') /\ Range(memory') = Range(memory) \cup {u}
  <2>1. u = t => t \notin Range(memory)
    BY <1>2, <1>5 DEF OneHolder, DriverHas
  <2> QED
    BY <1>1, <1>2, <1>3, <2>1, OnceAppend, SeqSteps DEF OneHolder
<1>7. OneHolder(t)'
  BY <1>1, <1>2, <1>4, <1>5, <1>6 DEF OneHolder, DriverHas
<1>8. /\ ~RowWritten(t) /\ ~Flushing(t) /\ ~Flushing(t)' /\ ~Reparking(t) /\ ~Reparking(t)'
      /\ Held' = Held /\ Rerecorded' = Rerecorded
  BY <1>1, <1>4 DEF RowWritten, Flushing, Reparking, Held, Rerecorded
<1>9. ReplayedBy(t)'
  BY <1>1, <1>2, <1>5, <1>6, <1>8 DEF ReplayedBy
<1>10. PendingBy(t)' /\ Ahead(t)'
  BY <1>1, <1>2, <1>4, <1>8, StillPending
<1> QED
  BY <1>7, <1>9, <1>10 DEF Tracked

(* The resume: a record, then the context. *)
LEMMA TrackRestoreRecord ==
    ASSUME Watched, RestoreRecord, NEW t \in Tasks, t \notin unseen'
    PROVE  Tracked(t)'
<1>1. driver.pc = "restore" /\ UNCHANGED <<pending, memory, buffer, turn, unseen>>
  BY DEF RestoreRecord, DriverUnchanged
<1>2. /\ OneHolder(t) /\ ReplayedBy(t) /\ PendingBy(t) /\ Ahead(t)
      /\ driver \in DriverRecs /\ TickShape /\ TurnShape /\ t # None /\ replayed \in Seq(Msgs)
  BY <1>1, WatchedParts
<1>3. PICK u \in Tasks : /\ u \notin Range(memory) /\ u \notin Range(buffer)
                         /\ replayed' = Append(replayed, u)
                         /\ driver' = [driver EXCEPT !.pc = "rappend", !.cur = u]
  BY DEF RestoreRecord, due_notifications, Keys
<1>4. /\ driver'.pc = "rappend" /\ driver'.cur = u /\ driver'.due = driver.due
      /\ driver'.queue = driver.queue /\ u \in Msgs
  BY <1>2, <1>3, NotifyConstants DEF DriverRecs
<1>5. /\ turn.pc = "idle" /\ turn.taken = <<>> /\ driver.due = {} /\ driver.queue = <<>>
      /\ driver.cur = None
  BY <1>1, <1>2 DEF TickShape, TurnShape, Resuming
<1>6. /\ Range(turn.taken) = {} /\ Range(driver.queue) = {}
      /\ ~RowWritten(t) /\ ~Carried(t) /\ ~Delivering(t)
      /\ (Carried(t)' <=> t = u) /\ (Delivering(t)' <=> t = u)
  BY <1>1, <1>2, <1>4, <1>5 DEF Range, RowWritten, Carried, Delivering
<1>7. OneHolder(t)'
  BY <1>1, <1>2, <1>3, <1>4, <1>5, <1>6 DEF OneHolder, DriverHas
<1>8. u = t => t \notin Range(replayed)
  BY <1>2, <1>3, <1>6 DEF ReplayedBy
<1>9. Once(t, replayed') /\ Range(replayed') = Range(replayed) \cup {u}
  BY <1>2, <1>3, <1>4, <1>8, OnceAppend, SeqSteps DEF ReplayedBy
<1>10. ReplayedBy(t)'
  BY <1>1, <1>2, <1>6, <1>9 DEF ReplayedBy
<1>11. PendingBy(t)' /\ Ahead(t)'
  BY <1>1, <1>2, <1>4, SameTurn, StillPending
<1> QED
  BY <1>7, <1>10, <1>11 DEF Tracked

LEMMA TrackRestoreAppend ==
    ASSUME Watched, RestoreAppend, NEW t \in Tasks, t \notin unseen'
    PROVE  Tracked(t)'
<1>1. /\ driver.pc = "rappend" /\ memory' = Append(memory, driver.cur)
      /\ driver' = [driver EXCEPT !.pc = "rmark"]
      /\ UNCHANGED <<pending, replayed, buffer, turn, unseen>>
  BY DEF RestoreAppend, DriverUnchanged, journal
<1>2. /\ OneHolder(t) /\ ReplayedBy(t) /\ PendingBy(t) /\ Ahead(t)
      /\ driver \in DriverRecs /\ DriverShape /\ t # None /\ memory \in Seq(Msgs)
  BY <1>1, WatchedParts
<1>3. PICK u \in Msgs : u = driver.cur
  BY <1>1, <1>2, NotifyConstants DEF DriverShape
<1>4. /\ driver'.pc = "rmark" /\ driver'.cur = u /\ driver'.due = driver.due
      /\ driver'.queue = driver.queue
  BY <1>1, <1>2, <1>3 DEF DriverRecs
<1>5. (Carried(t) <=> t = u) /\ ~Carried(t)' /\ (Delivering(t) <=> t = u)
  BY <1>1, <1>3, <1>4 DEF Carried, Delivering
<1>6. Once(t, memory') /\ Range(memory') = Range(memory) \cup {u}
  <2>1. u = t => t \notin Range(memory)
    BY <1>2, <1>5 DEF OneHolder, DriverHas
  <2> QED
    BY <1>1, <1>2, <1>3, <2>1, OnceAppend, SeqSteps DEF OneHolder
<1>7. OneHolder(t)'
  BY <1>1, <1>2, <1>4, <1>5, <1>6 DEF OneHolder, DriverHas
<1>8. ReplayedBy(t)'
  BY <1>1, <1>2, <1>5, <1>6, SameTurn DEF ReplayedBy
<1>9. PendingBy(t)' /\ Ahead(t)'
  BY <1>1, <1>2, <1>4, SameTurn, StillPending
<1> QED
  BY <1>7, <1>8, <1>9 DEF Tracked

(* The compaction, an undo, a crash. *)
LEMMA TrackCompact ==
    ASSUME Watched, Compact, NEW t \in Tasks, t \notin unseen'
    PROVE  Tracked(t)'
<1>1. /\ turn.pc = "before" /\ UNCHANGED <<pending, buffer, turn, driver, unseen>>
      /\ memory' = Pick(memory, UserMsgs)
      /\ replayed' = Pick(replayed, UserMsgs \cup (Tasks \ Range(memory)))
  BY DEF Compact
<1>2. /\ OneHolder(t) /\ ReplayedBy(t) /\ PendingBy(t) /\ Ahead(t)
      /\ memory \in Seq(Msgs) /\ replayed \in Seq(Msgs) /\ t \notin UserMsgs
  BY <1>1, WatchedParts
<1>3. Once(t, memory') /\ t \notin Range(memory')
  <2>1. Range(memory') = Range(memory) \cap UserMsgs
    BY <1>1, <1>2, PickType
  <2>2. Once(t, memory')
    BY <1>1, <1>2, OncePick DEF OneHolder
  <2> QED
    BY <1>2, <2>1, <2>2
<1>4. OneHolder(t)'
  BY <1>1, <1>2, <1>3, SameTurn, SameDriver DEF OneHolder
<1>5. /\ Once(t, replayed')
      /\ t \in Range(replayed') => t \in Range(replayed) /\ t \notin Range(memory)
  <2>1. PICK P : P = UserMsgs \cup (Tasks \ Range(memory))
    OBVIOUS
  <2>2. replayed' = Pick(replayed, P)
    BY <1>1, <2>1
  <2>3. Range(replayed') = Range(replayed) \cap P
    BY <1>2, <2>2, PickType
  <2>4. Once(t, replayed')
    BY <1>2, <2>2, OncePick DEF ReplayedBy
  <2> QED
    BY <1>2, <2>1, <2>3, <2>4
<1>6. ReplayedBy(t)'
  BY <1>1, <1>2, <1>5, SameTurn, SameDriver DEF ReplayedBy
<1>7. PendingBy(t)' /\ Ahead(t)'
  BY <1>1, <1>2, SameTurn, SameDriver, PendingKept, AheadKept
<1> QED
  BY <1>4, <1>6, <1>7 DEF Tracked

LEMMA TrackUndo ==
    ASSUME Watched, Undo, NEW t \in Tasks, t \notin unseen'
    PROVE  Tracked(t)'
<1>1. UNCHANGED <<pending, replayed, buffer, turn, driver>>
  BY DEF Undo, journal
<1>2. PICK i \in DOMAIN memory :
        /\ memory' = SubSeq(memory, 1, i - 1)
        /\ unseen' = unseen \cup Keys(SubSeq(memory, i, Len(memory)))
  BY DEF Undo
<1>3. /\ OneHolder(t) /\ ReplayedBy(t) /\ PendingBy(t) /\ Ahead(t) /\ memory \in Seq(Msgs)
  BY <1>2, WatchedParts
<1>4. PICK n \in Nat, a \in Nat, b \in Nat :
        n = Len(memory) /\ a = i /\ b = i - 1 /\ a \in 1..n /\ DOMAIN memory = 1..n
  <2>1. Len(memory) \in Nat /\ DOMAIN memory = 1..Len(memory)
    BY <1>3, LenProperties
  <2>2. PICK n \in Nat : n = Len(memory) /\ DOMAIN memory = 1..n
    BY <2>1
  <2>3. PICK a \in Nat : a = i /\ a \in 1..n
    BY <2>2
  <2>4. PICK b \in Nat : b = a - 1
    BY <2>3
  <2> QED
    BY <2>2, <2>3, <2>4
<1>5. /\ Once(t, SubSeq(memory, 1, b)) /\ Range(SubSeq(memory, 1, b)) \subseteq Range(memory)
      /\ t \in Range(SubSeq(memory, 1, b)) <=> \E k \in 1..b : memory[k] = t
  <2>1. PICK one \in Nat : one = 1
    OBVIOUS
  <2>2. 1 <= one /\ one <= b + 1 /\ b <= Len(memory)
    BY <1>4, <2>1
  <2>3. /\ Once(t, memory) => Once(t, SubSeq(memory, one, b))
        /\ Range(SubSeq(memory, one, b)) \subseteq Range(memory)
        /\ t \in Range(SubSeq(memory, one, b)) <=> \E k \in one..b : memory[k] = t
    BY <1>3, <2>2, Slice
  <2> QED
    BY <1>3, <2>1, <2>3 DEF OneHolder
<1>6. t \in Range(SubSeq(memory, a, n)) <=> \E k \in a..n : memory[k] = t
  <2>1. 1 <= a /\ a <= n + 1 /\ n <= Len(memory)
    BY <1>4
  <2> QED
    BY <1>3, <2>1, Slice
<1>7. t \notin Range(SubSeq(memory, a, n))
  BY <1>2, <1>4 DEF Keys
<1>8. memory' = SubSeq(memory, 1, b)
  BY <1>2, <1>4
<1>9. t \in Range(memory) => t \in Range(memory')
  <2> SUFFICES ASSUME NEW k \in 1..n, memory[k] = t PROVE t \in Range(memory')
    BY <1>4 DEF Range
  <2>1. k \in 1..b \/ k \in a..n
    BY <1>4
  <2> QED
    BY <1>5, <1>6, <1>7, <1>8, <2>1
<1>10. Once(t, memory') /\ Range(memory') \subseteq Range(memory)
  BY <1>5, <1>8
<1>11. OneHolder(t)'
  BY <1>1, <1>3, <1>10, SameTurn, SameDriver DEF OneHolder
<1>12. ReplayedBy(t)'
  BY <1>1, <1>3, <1>9, SameTurn, SameDriver DEF ReplayedBy
<1>13. PendingBy(t)' /\ Ahead(t)'
  BY <1>1, <1>3, SameTurn, SameDriver, PendingKept, AheadKept
<1> QED
  BY <1>11, <1>12, <1>13 DEF Tracked

LEMMA TrackCrash ==
    ASSUME Watched, Crash, NEW t \in Tasks, t \notin unseen'
    PROVE  Tracked(t)'
<1>1. /\ memory' = replayed /\ buffer' = pending /\ UNCHANGED <<pending, replayed, unseen>>
      /\ turn' = NoTurn(turn.steps) /\ driver' = [Asleep EXCEPT !.pc = "restore"]
  BY DEF Crash, journal
<1>2. /\ OneHolder(t) /\ ReplayedBy(t) /\ PendingBy(t) /\ Ahead(t) /\ t # None
      /\ pending \in Seq(Msgs) /\ turn \in TurnRecs
      /\ turn.taken \in Seq(Msgs) /\ turn.written \in Nat /\ turn.written <= Len(turn.taken)
  BY <1>1, WatchedParts
<1>3. turn'.pc = "idle" /\ turn'.taken = <<>>
  <2>1. turn.steps \in 0..MaxSteps
    BY <1>2 DEF TurnRecs
  <2> QED
    BY <1>1, <2>1, Resting
<1>4. /\ driver'.pc = "restore" /\ driver'.queue = <<>> /\ driver'.due = {} /\ driver'.cur = None
  <2>1. /\ Asleep \in DriverRecs /\ Asleep.queue = <<>> /\ Asleep.due = {} /\ Asleep.cur = None
    BY Resting DEF Asleep
  <2> QED
    BY <1>1, <2>1 DEF DriverRecs
<1>5. /\ Range(turn'.taken) = {} /\ Range(driver'.queue) = {} /\ ~DriverHas(t)'
      /\ ~Flushing(t)' /\ ~Waking(t)' /\ Held' = 0 /\ Rerecorded' = 0 /\ Woken' = 0
  BY <1>2, <1>3, <1>4 DEF Range, DriverHas, Carried, Flushing, Waking, Held, Rerecorded, Woken
<1>6. RowWritten(t) => t \in Range(turn.taken)
  <2>1. \A i \in 1..turn.written : i \in 1..Len(turn.taken)
    BY <1>2, SeqSteps
  <2> QED
    BY <1>2, <2>1, SeqSteps DEF RowWritten
<1>7. Reparking(t) => t \in Range(turn.taken)
  BY <1>1, ReparkingTaken
<1>8. t \in Range(replayed) => t \notin Range(pending)
  <2> SUFFICES ASSUME t \in Range(replayed), t \in Range(pending) PROVE FALSE
    OBVIOUS
  <2>1. CASE t \in Range(memory)
    BY <1>2, <1>7, <2>1 DEF PendingBy, OneHolder, DriverHas, Carried, Parking, Waking, Flushing
  <2>2. CASE Delivering(t)
    <3>1. Carried(t) /\ ~Parking(t) /\ ~Waking(t)
      BY <2>2 DEF Delivering, Carried, Parking, Waking
    <3> QED
      BY <1>2, <1>7, <3>1 DEF PendingBy, OneHolder, DriverHas, Flushing
  <2>3. CASE RowWritten(t)
    <3>1. ~Flushing(t) /\ ~Reparking(t)
      BY <2>3 DEF RowWritten, Flushing, Reparking
    <3> QED
      BY <1>2, <1>6, <2>3, <3>1 DEF PendingBy, OneHolder, DriverHas, Carried, Parking, Waking
  <2> QED
    BY <1>2, <2>1, <2>2, <2>3 DEF ReplayedBy
<1>9. OneHolder(t)'
  <2>1. Once(t, turn'.taken) /\ Once(t, driver'.queue) /\ t \notin driver'.due
    BY <1>3, <1>4, OnceEmpty
  <2> QED
    BY <1>1, <1>2, <1>5, <1>8, <2>1 DEF OneHolder, ReplayedBy, PendingBy
<1>10. ReplayedBy(t)' /\ PendingBy(t)'
  BY <1>1, <1>2 DEF ReplayedBy, PendingBy
<1>11. Ahead(t)'
  <2>1. Len(pending) \in Nat
    BY <1>2, SeqSteps
  <2> QED
    BY <1>1, <1>5, <2>1 DEF Ahead
<1> QED
  BY <1>9, <1>10, <1>11 DEF Tracked

(* The shape of a tick, under every step. *)
LEMMA ShapeKept ==
    ASSUME TickShape, driver' = driver, ~Resuming,
           driver.pc = "wake" => turn'.taken = <<>> \/ Keys(buffer') = {},
           driver.pc = "wakemark" => Keys(turn'.taken) = {} /\ Keys(buffer') = {}
    PROVE  TickShape'
<1>1. ~Resuming'
  BY DEF Resuming
<1> QED
  BY <1>1 DEF TickShape, Keys

LEMMA ShapeRequest ==
    ASSUME Typed, TickShape, NEW m \in UserMsgs,
           SteerRecord(m) \/ SteerPush(m) \/ LaunchRecord(m) \/ LaunchTurn(m)
    PROVE  TickShape'
<1>1. driver' = driver /\ ~Resuming
  BY DEF SteerRecord, SteerPush, LaunchRecord, LaunchTurn, TickShape
<1>2. TypedParts
  BY TypeOKParts DEF Typed
<1>3. turn'.taken = turn.taken
  BY <1>2 DEF TypedParts, TurnRecs, SteerRecord, SteerPush, LaunchRecord, LaunchTurn, StartTurn
<1>4. Keys(buffer') = Keys(buffer)
  <2>1. CASE buffer' = buffer
    BY <2>1
  <2>2. CASE buffer' = Append(buffer, m)
    <3>1. Range(buffer') = Range(buffer) \cup {m} /\ m \notin Tasks
      BY <1>2, <2>2, SeqSteps, NotifyConstants DEF TypedParts
    <3> QED
      BY <3>1 DEF Keys
  <2> QED
    BY <2>1, <2>2 DEF SteerRecord, SteerPush, LaunchRecord, LaunchTurn
<1> QED
  BY <1>1, <1>3, <1>4, ShapeKept DEF TickShape
LEMMA ShapeSame ==
    ASSUME TickShape, UNCHANGED <<turn, driver, buffer, sent>>
    PROVE  TickShape'
BY DEF TickShape, Resuming, Keys

LEMMA ShapeTurn ==
    ASSUME Typed, TickShape, TurnNext \/ Compact \/ TurnAborted
    PROVE  TickShape'
<1>1. /\ driver' = driver /\ ~Resuming /\ turn \in TurnRecs /\ turn.taken \in Seq(Msgs)
      /\ buffer \in Seq(Msgs) /\ turn.steps \in 0..MaxSteps
  <2>1. TypedParts
    BY TypeOKParts DEF Typed
  <2>2. driver' = driver
    BY DEF TurnNext, FlushTake, FlushMarker, FlushRow, FlushAppend, StepDone, StopTake,
           StopRepark, StopMarker, StopRow, StopSteer, StopPush, Compact, TurnAborted,
           TurnUnchanged
  <2>3. turn.pc # "idle"
    BY DEF TurnNext, FlushTake, FlushMarker, FlushRow, FlushAppend, StepDone, StopTake,
           StopRepark, StopMarker, StopRow, StopSteer, StopPush, Compact, TurnAborted
  <2> QED
    BY <2>1, <2>2, <2>3 DEF TickShape, TypedParts, TurnRecs
<1>2. Keys(<<>>) = {}
  BY DEF Keys, Range
<1>3. \/ turn'.taken = turn.taken /\ buffer' = buffer
      \/ turn'.taken = <<>> /\ Keys(buffer') \subseteq Keys(buffer) \cup Keys(turn.taken)
      \/ turn'.taken = buffer /\ buffer' = <<>>
  <2>1. CASE FlushTake
    BY <1>1, <2>1 DEF FlushTake, TurnRecs
  <2>2. CASE StopTake
    <3>1. /\ buffer' = <<>>
          /\ \E c \in {"stopmarker", "repark"} : turn' = [turn EXCEPT !.pc = c, !.taken = buffer]
      BY <2>2 DEF StopTake
    <3> QED
      BY <1>1, <3>1 DEF TurnRecs
  <2>3. CASE FlushMarker \/ StopMarker \/ StepDone \/ Compact
    BY <1>1, <2>3 DEF FlushMarker, StopMarker, StepDone, Compact, TurnRecs
  <2>4. CASE FlushRow
    BY <1>1, <2>4 DEF FlushRow, TurnRecs
  <2>5. CASE StopRow
    BY <1>1, <2>5 DEF StopRow, TurnRecs
  <2>6. CASE StopSteer
    BY <1>1, <2>6 DEF StopSteer, TurnRecs
  <2>7. CASE FlushAppend
    BY <1>1, <2>7 DEF FlushAppend, TurnRecs
  <2>8. CASE TurnAborted
    <3>1. turn' = NoTurn(turn.steps) /\ buffer' = buffer
      BY <2>8 DEF TurnAborted
    <3> QED
      BY <1>1, <3>1, Resting
  <2>9. CASE StopRepark
    <3>1. /\ buffer' = buffer \o turn.taken
          /\ \/ turn' = NoTurn(turn.steps)
             \/ turn' = [turn EXCEPT !.pc = "before", !.steps = @ + 1, !.taken = <<>>]
      BY <2>9 DEF StopRepark
    <3>2. turn'.taken = <<>>
      <4>1. PICK n : n = turn.steps + 1
        OBVIOUS
      <4>2. \/ turn' = NoTurn(turn.steps)
            \/ turn' = [turn EXCEPT !.pc = "before", !.steps = n, !.taken = <<>>]
        BY <3>1, <4>1
      <4>3. NoTurn(turn.steps).taken = <<>>
        BY <1>1, Resting
      <4>4. [turn EXCEPT !.pc = "before", !.steps = n, !.taken = <<>>].taken = <<>>
        BY <1>1 DEF TurnRecs
      <4> QED
        BY <4>2, <4>3, <4>4
    <3>3. Range(buffer') = Range(buffer) \cup Range(turn.taken)
      BY <1>1, <3>1, SeqSteps
    <3> QED
      BY <3>2, <3>3 DEF Keys
  <2>10. CASE StopPush
    <3>1. buffer' = buffer \o Notifications(turn.taken) /\ turn'.taken = <<>>
      BY <1>1, <2>10 DEF StopPush, TurnRecs
    <3>2. /\ Notifications(turn.taken) \in Seq(Msgs)
          /\ Range(Notifications(turn.taken)) = Keys(turn.taken)
      BY <1>1, Partition
    <3>3. Range(buffer') = Range(buffer) \cup Keys(turn.taken)
      BY <1>1, <3>1, <3>2, SeqSteps
    <3> QED
      BY <3>1, <3>3 DEF Keys
  <2> QED
    BY <2>1, <2>2, <2>3, <2>4, <2>5, <2>6, <2>7, <2>8, <2>9, <2>10 DEF TurnNext
<1>4. driver.pc = "wake" => turn'.taken = <<>> \/ Keys(buffer') = {}
  <2>1. driver.pc = "wake" => turn.taken = <<>> \/ Keys(buffer) = {}
    BY DEF TickShape
  <2> QED
    BY <1>2, <1>3, <2>1
<1>5. driver.pc = "wakemark" => Keys(turn'.taken) = {} /\ Keys(buffer') = {}
  <2>1. driver.pc = "wakemark" => Keys(turn.taken) = {} /\ Keys(buffer) = {}
    BY DEF TickShape
  <2> QED
    BY <1>2, <1>3, <2>1
<1> QED
  BY <1>1, <1>4, <1>5, ShapeKept

(* A tick's own steps: what it holds after each. *)
LEMMA AsleepShape ==
    /\ Asleep.pc = "sleep" /\ Asleep.due = {} /\ Asleep.queue = <<>> /\ Asleep.cur = None
    /\ Asleep \in DriverRecs
BY Resting DEF Asleep

LEMMA ShapeTick ==
    ASSUME ~Resuming', driver' \in DriverRecs,
           driver'.pc \in {"sleep", "sweep", "due"} => driver'.due = {},
           driver'.pc \in {"sleep", "sweep", "due", "probe", "park", "push", "wake"}
             => driver'.queue = <<>>,
           driver'.pc \notin {"push", "mark", "launch"} => driver'.cur = None,
           driver'.pc = "wake" => turn'.taken = <<>> \/ Keys(buffer') = {},
           driver'.pc = "wakemark" => Keys(turn'.taken) = {} /\ Keys(buffer') = {}
    PROVE  TickShape'
BY DEF TickShape, Resuming, Keys

LEMMA ShapeDriver ==
    ASSUME Typed, TickShape, DriverNext \/ TickDefer
    PROVE  TickShape'
<1>1. /\ driver \in DriverRecs /\ turn \in TurnRecs /\ turn.taken \in Seq(Msgs)
      /\ TurnShape /\ DriverShape /\ buffer \in Seq(Msgs)
  BY TypeOKParts DEF Typed, TypedParts, TurnRecs
<1>2. CASE TickDefer \/ TickEnds \/ RestoreEnds
  <2>1. driver' = Asleep
    BY <1>2 DEF TickDefer, TickEnds, RestoreEnds
  <2> QED
    BY <2>1, AsleepShape, ShapeTick DEF Resuming
<1>3. CASE TickScan
  <2>1. driver.pc = "sleep" /\ driver' = [driver EXCEPT !.pc = "sweep", !.seen = Keys(memory)]
    BY <1>3 DEF TickScan
  <2>2. /\ driver' \in DriverRecs /\ driver'.pc = "sweep" /\ driver'.due = driver.due
        /\ driver'.queue = driver.queue /\ driver'.cur = driver.cur
    BY <1>1, <2>1 DEF DriverRecs, DriverPcs, Keys
  <2>3. driver.due = {} /\ driver.queue = <<>> /\ driver.cur = None
    BY <2>1 DEF TickShape
  <2> QED
    BY <2>2, <2>3, ShapeTick DEF Resuming
<1>4. CASE TickSweep
  <2>1. driver.pc = "sweep" /\ driver' = [driver EXCEPT !.pc = "due"]
    BY <1>4 DEF TickSweep
  <2>2. /\ driver' \in DriverRecs /\ driver'.pc = "due" /\ driver'.due = driver.due
        /\ driver'.queue = driver.queue /\ driver'.cur = driver.cur
    BY <1>1, <2>1 DEF DriverRecs, DriverPcs
  <2>3. driver.due = {} /\ driver.queue = <<>> /\ driver.cur = None
    BY <2>1 DEF TickShape
  <2> QED
    BY <2>2, <2>3, ShapeTick DEF Resuming
<1>5. CASE TickDue
  <2>1. PICK due \in SUBSET Tasks : due = due_notifications(driver.seen, Keys(buffer))
    BY DEF due_notifications
  <2>2. driver' = Asleep \/ driver' = [Asleep EXCEPT !.pc = "probe", !.due = due]
    BY <1>5, <2>1 DEF TickDue
  <2>3. CASE driver' = Asleep
    BY <2>3, AsleepShape, ShapeTick DEF Resuming
  <2>4. CASE driver' = [Asleep EXCEPT !.pc = "probe", !.due = due]
    <3>1. /\ driver' \in DriverRecs /\ driver'.pc = "probe" /\ driver'.queue = <<>>
          /\ driver'.cur = None
      BY <2>4, AsleepShape DEF DriverRecs, DriverPcs
    <3> QED
      BY <3>1, ShapeTick DEF Resuming
  <2> QED
    BY <2>2, <2>3, <2>4
<1>6. CASE TickProbe
  <2>1. /\ driver.pc = "probe" /\ UNCHANGED <<turn, buffer>>
        /\ \/ driver' = [driver EXCEPT !.pc = "wake"] /\ turn.pc = "idle"
           \/ driver' = Asleep
           \/ driver' = [driver EXCEPT !.pc = "park"]
    BY <1>6 DEF TickProbe, DriverUnchanged
  <2>2. driver.queue = <<>> /\ driver.cur = None
    BY <2>1 DEF TickShape
  <2>3. CASE driver' = [driver EXCEPT !.pc = "wake"] /\ turn.pc = "idle"
    <3>1. /\ driver' \in DriverRecs /\ driver'.pc = "wake" /\ driver'.queue = <<>>
          /\ driver'.cur = None
      BY <1>1, <2>2, <2>3 DEF DriverRecs, DriverPcs
    <3>2. turn'.taken = <<>>
      BY <1>1, <2>1, <2>3 DEF TurnShape
    <3> QED
      BY <3>1, <3>2, ShapeTick DEF Resuming
  <2>4. CASE driver' = Asleep
    BY <2>4, AsleepShape, ShapeTick DEF Resuming
  <2>5. CASE driver' = [driver EXCEPT !.pc = "park"]
    <3>1. /\ driver' \in DriverRecs /\ driver'.pc = "park" /\ driver'.queue = <<>>
          /\ driver'.cur = None
      BY <1>1, <2>2, <2>5 DEF DriverRecs, DriverPcs
    <3> QED
      BY <3>1, ShapeTick DEF Resuming
  <2> QED
    BY <2>1, <2>3, <2>4, <2>5
<1>7. CASE ParkRecord
  <2>1. driver.pc = "park"
    BY <1>7 DEF ParkRecord
  <2>2. PICK u \in driver.due : driver' = [driver EXCEPT !.pc = "push", !.cur = u, !.due = @ \ {u}]
    BY <1>7 DEF ParkRecord
  <2>3. driver.queue = <<>>
    BY <2>1 DEF TickShape
  <2>4. u \in Tasks /\ driver.due \ {u} \in SUBSET Tasks
    BY <1>1 DEF DriverRecs
  <2>5. driver' \in DriverRecs /\ driver'.pc = "push" /\ driver'.queue = <<>>
    BY <1>1, <2>2, <2>3, <2>4 DEF DriverRecs, DriverPcs
  <2> QED
    BY <2>5, ShapeTick DEF Resuming
<1>8. CASE ParkPush
  <2>1. /\ driver.pc = "push"
        /\ driver' = Asleep \/ driver' = [driver EXCEPT !.pc = "park", !.cur = None]
    BY <1>8 DEF ParkPush
  <2>2. driver.queue = <<>>
    BY <2>1 DEF TickShape
  <2>3. CASE driver' = Asleep
    BY <2>3, AsleepShape, ShapeTick DEF Resuming
  <2>4. CASE driver' = [driver EXCEPT !.pc = "park", !.cur = None]
    <3>1. /\ driver' \in DriverRecs /\ driver'.pc = "park" /\ driver'.queue = <<>>
          /\ driver'.cur = None
      BY <1>1, <2>2, <2>4 DEF DriverRecs, DriverPcs
    <3> QED
      BY <3>1, ShapeTick DEF Resuming
  <2> QED
    BY <2>1, <2>3, <2>4
<1>9. CASE Wake
  <2>1. driver.pc = "wake" /\ turn' = turn
    BY <1>9 DEF Wake, DriverUnchanged
  <2>2. driver.cur = None
    BY <2>1 DEF TickShape
  <2>3. CASE ~Stranded
    <3>1. driver' = [driver EXCEPT !.pc = "deliver"]
      BY <1>9, <2>3 DEF Wake
    <3>2. driver' \in DriverRecs /\ driver'.pc = "deliver" /\ driver'.cur = None
      BY <1>1, <2>2, <3>1 DEF DriverRecs, DriverPcs
    <3> QED
      BY <3>2, ShapeTick DEF Resuming
  <2>4. CASE Stranded
    <3>1. driver' = [driver EXCEPT !.pc = "wakemark", !.queue = buffer] /\ buffer' = <<>>
      BY <1>9, <2>4 DEF Wake
    <3>2. driver' \in DriverRecs
      <4>1. Typed'
        BY <1>9, TypedDriver DEF DriverNext
      <4> QED
        BY <4>1, TypeOKParts DEF Typed, TypeOK, DriverRecs
    <3>3. driver'.pc = "wakemark" /\ driver'.cur = None
      BY <1>1, <2>2, <3>1 DEF DriverRecs
    <3>4. Keys(buffer) # {}
      <4>1. buffer # <<>> /\ \A m \in Range(buffer) : m \notin UserMsgs
        BY <2>4 DEF Stranded, IsUser
      <4>2. PICK n \in Nat : n = Len(buffer) /\ \A i \in 1..n : buffer[i] \in Msgs /\ buffer[i] \in Range(buffer)
        BY <1>1, SeqSteps
      <4>3. n # 0
        BY <1>1, <4>1, <4>2, SeqSteps
      <4>4. 1 \in 1..n
        BY <4>3
      <4>5. buffer[1] \in Tasks /\ buffer[1] \in Range(buffer)
        BY <4>1, <4>2, <4>4, NotifyConstants
      <4> QED
        BY <4>5 DEF Keys
    <3>5. turn'.taken = <<>>
      BY <2>1, <3>4 DEF TickShape
    <3>6. Keys(turn'.taken) = {} /\ Keys(buffer') = {}
      BY <3>1, <3>5 DEF Keys, Range
    <3> QED
      BY <3>2, <3>3, <3>6, ShapeTick DEF Resuming
  <2> QED
    BY <2>3, <2>4
<1>10. CASE WakeMark \/ DeliverNext
  <2>1. driver.pc \in {"wakemark", "running"} /\ driver' = [driver EXCEPT !.pc = "deliver"]
    BY <1>10 DEF WakeMark, DeliverNext
  <2>2. driver.cur = None
    BY <2>1 DEF TickShape
  <2>3. driver' \in DriverRecs /\ driver'.pc = "deliver" /\ driver'.cur = None
    BY <1>1, <2>1, <2>2 DEF DriverRecs, DriverPcs
  <2> QED
    BY <2>3, ShapeTick DEF Resuming
<1>11. CASE DeliverRecord
  <2>1. driver' \in DriverRecs
    <3>1. Typed'
      BY <1>11, TypedDriver DEF DriverNext
    <3> QED
      BY <3>1, TypeOKParts DEF Typed, TypeOK, DriverRecs
  <2>2. driver'.pc = "mark"
    BY <1>1, <1>11 DEF DeliverRecord, DriverRecs
  <2> QED
    BY <2>1, <2>2, ShapeTick DEF Resuming
<1>12. CASE DeliverMark
  <2>1. driver' = [driver EXCEPT !.pc = "launch"]
    BY <1>12 DEF DeliverMark
  <2>2. driver' \in DriverRecs /\ driver'.pc = "launch"
    BY <1>1, <2>1 DEF DriverRecs, DriverPcs
  <2> QED
    BY <2>2, ShapeTick DEF Resuming
<1>13. CASE DeliverTurn
  <2>1. driver' = [driver EXCEPT !.pc = "running", !.cur = None]
    BY <1>13 DEF DeliverTurn
  <2>2. driver' \in DriverRecs /\ driver'.pc = "running" /\ driver'.cur = None
    BY <1>1, <2>1 DEF DriverRecs, DriverPcs
  <2> QED
    BY <2>2, ShapeTick DEF Resuming
<1>14. CASE RestoreRecord \/ RestoreAppend \/ RestoreMark
  <2>1. Resuming /\ UNCHANGED <<turn, sent>>
    BY <1>14 DEF RestoreRecord, RestoreAppend, RestoreMark, DriverUnchanged, Resuming
  <2>2. /\ turn'.pc = "idle" /\ \A m \in UserMsgs : sent'[m] \in {"no", "yes"}
        /\ driver.due = {} /\ driver.queue = <<>>
    BY <2>1 DEF TickShape, Resuming
  <2>3. /\ driver'.pc \in {"restore", "rappend", "rmark"} /\ driver'.due = driver.due
        /\ driver'.queue = driver.queue /\ (driver'.pc = "restore" => driver'.cur = None)
    <3>1. CASE RestoreRecord
      BY <1>1, <3>1 DEF RestoreRecord, DriverRecs
    <3>2. CASE RestoreAppend
      BY <1>1, <3>2 DEF RestoreAppend, DriverRecs
    <3>3. CASE RestoreMark
      BY <1>1, <3>3 DEF RestoreMark, DriverRecs
    <3> QED
      BY <1>14, <3>1, <3>2, <3>3
  <2> QED
    BY <2>2, <2>3 DEF TickShape, Resuming
<1> QED
  BY <1>2, <1>3, <1>4, <1>5, <1>6, <1>7, <1>8, <1>9, <1>10, <1>11, <1>12, <1>13, <1>14
     DEF DriverNext

LEMMA ShapeFault ==
    ASSUME Typed, TickShape, Undo \/ Crash
    PROVE  TickShape'
<1>1. CASE Undo
  BY <1>1, ShapeSame DEF Undo
<1>2. CASE Crash
  <2>1. turn.steps \in 0..MaxSteps /\ sent \in [UserMsgs -> {"no", "steering", "launching", "yes"}]
    BY TypeOKParts DEF Typed, TypedParts, TurnRecs
  <2>2. /\ turn' = NoTurn(turn.steps) /\ driver' = [Asleep EXCEPT !.pc = "restore"]
        /\ sent' = [m \in UserMsgs |-> IF sent[m] = "no" THEN "no" ELSE "yes"]
    BY <1>2 DEF Crash
  <2>3. turn'.pc = "idle" /\ \A m \in UserMsgs : sent'[m] \in {"no", "yes"}
    BY <2>1, <2>2, Resting
  <2>4. /\ driver'.pc = "restore" /\ driver'.queue = <<>> /\ driver'.due = {}
        /\ driver'.cur = None
    BY <2>2, AsleepShape DEF DriverRecs
  <2> QED
    BY <2>3, <2>4 DEF TickShape, Resuming
<1> QED
  BY <1>1, <1>2
(* Every step keeps what is known of the tasks in sight. *)
LEMMA TrackTurn ==
    ASSUME Watched, TurnNext \/ Compact \/ TurnAborted, NEW t \in Tasks, t \notin unseen'
    PROVE  Tracked(t)'
BY TrackTake, TrackMarker, TrackFlushRow, TrackFlushAppend, TrackStep, TrackRepark, TrackStopRow,
   TrackStopSteer, TrackStopPush, TrackCompact
   DEF TurnNext

LEMMA TrackDriver ==
    ASSUME Watched, DriverNext \/ TickDefer, NEW t \in Tasks, t \notin unseen'
    PROVE  Tracked(t)'
BY TrackQuiet, TrackDue, TrackParkRecord, TrackParkPush, TrackWake, TrackWakeMark,
   TrackDeliverRecord, TrackDeliverTurn, TrackRestoreRecord, TrackRestoreAppend
   DEF DriverNext

LEMMA WatchedStep == Watched /\ [Next]_vars => Watched'
<1> SUFFICES ASSUME Watched, [Next]_vars PROVE Watched'
  OBVIOUS
<1>1. Typed /\ PendingBalances /\ TickShape
  BY DEF Watched
<1>2. Typed' /\ PendingBalances'
  BY <1>1, TypedStep, BalanceStep
<1>3. CASE UNCHANGED vars
  <2>1. UNCHANGED <<pending, replayed, memory, buffer, turn, driver, sent, unseen>>
    BY <1>3 DEF vars, journal
  <2>2. TickShape'
    BY <1>1, <2>1, ShapeSame
  <2>3. ASSUME NEW t \in Tasks, t \notin unseen' PROVE Tracked(t)'
    <3>1. OneHolder(t) /\ ReplayedBy(t) /\ PendingBy(t) /\ Ahead(t)
      BY <2>1, <2>3, WatchedParts
    <3> QED
      BY <2>1, <3>1, SameTurn, SameDriver, HolderKept, ReplayedKept, PendingKept, AheadKept
         DEF Tracked
  <2> QED
    BY <1>2, <2>2, <2>3 DEF Watched
<1>4. CASE \E u \in Tasks : TaskEnds(u) \/ TaskOutput(u) \/ TaskStop(u)
  <2>1. PICK u \in Tasks : TaskEnds(u) \/ TaskOutput(u) \/ TaskStop(u)
    BY <1>4
  <2>2. TickShape'
    <3>1. UNCHANGED <<turn, driver, buffer, sent>>
      BY <2>1 DEF TaskEnds, TaskOutput, TaskStop
    <3> QED
      BY <1>1, <3>1, ShapeSame
  <2>3. ASSUME NEW t \in Tasks, t \notin unseen' PROVE Tracked(t)'
    BY <2>1, <2>3, TrackTask
  <2> QED
    BY <1>2, <2>2, <2>3 DEF Watched
<1>5. CASE \E m \in UserMsgs : SteerRecord(m) \/ SteerPush(m) \/ LaunchRecord(m) \/ LaunchTurn(m)
  <2>1. PICK m \in UserMsgs : SteerRecord(m) \/ SteerPush(m) \/ LaunchRecord(m) \/ LaunchTurn(m)
    BY <1>5
  <2>2. TickShape'
    BY <1>1, <2>1, ShapeRequest
  <2>3. ASSUME NEW t \in Tasks, t \notin unseen' PROVE Tracked(t)'
    BY <2>1, <2>3, TrackSteerRecord, TrackSteerPush, TrackLaunchRecord, TrackLaunchTurn
  <2> QED
    BY <1>2, <2>2, <2>3 DEF Watched
<1>6. CASE TurnNext \/ Compact \/ TurnAborted
  <2>1. TickShape'
    BY <1>1, <1>6, ShapeTurn
  <2>2. ASSUME NEW t \in Tasks, t \notin unseen' PROVE Tracked(t)'
    BY <1>6, <2>2, TrackTurn
  <2> QED
    BY <1>2, <2>1, <2>2 DEF Watched
<1>7. CASE DriverNext \/ TickDefer
  <2>1. TickShape'
    BY <1>1, <1>7, ShapeDriver
  <2>2. ASSUME NEW t \in Tasks, t \notin unseen' PROVE Tracked(t)'
    BY <1>7, <2>2, TrackDriver
  <2> QED
    BY <1>2, <2>1, <2>2 DEF Watched
<1>8. CASE Undo \/ Crash
  <2>1. TickShape'
    BY <1>1, <1>8, ShapeFault
  <2>2. ASSUME NEW t \in Tasks, t \notin unseen' PROVE Tracked(t)'
    BY <1>8, <2>2, TrackUndo, TrackCrash
  <2> QED
    BY <1>2, <2>1, <2>2 DEF Watched
<1> QED
  BY <1>3, <1>4, <1>5, <1>6, <1>7, <1>8 DEF Next

LEMMA WatchedInit == Init => Watched
<1> SUFFICES ASSUME Init PROVE Watched
  OBVIOUS
<1>1. Typed /\ PendingBalances
  BY TypedInit, BalanceInit
<1>2. /\ turn.pc = "idle" /\ turn.taken = <<>> /\ driver.pc = "sleep" /\ driver.due = {}
      /\ driver.queue = <<>> /\ driver.cur = None
  <2>1. 0 \in 0..MaxSteps
    BY NotifyConstants
  <2>2. turn = NoTurn(0) /\ driver = Asleep
    BY DEF Init
  <2> QED
    BY <2>1, <2>2, Resting, AsleepShape
<1>3. TickShape
  BY <1>2 DEF TickShape, Resuming
<1>4. ASSUME NEW t \in Tasks PROVE Tracked(t)
  <2>1. /\ memory = <<>> /\ buffer = <<>> /\ pending = <<>> /\ replayed = <<>>
        /\ Range(<<>>) = {} /\ Len(<<>>) = 0 /\ t # None
    BY NotifyConstants DEF Init, Range
  <2>2. OneHolder(t)
    BY <1>2, <2>1, OnceEmpty DEF OneHolder, DriverHas, Carried
  <2>3. ReplayedBy(t) /\ PendingBy(t)
    BY <2>1, OnceEmpty DEF ReplayedBy, PendingBy
  <2>4. Ahead(t)
    BY <2>1 DEF Ahead
  <2> QED
    BY <2>2, <2>3, <2>4 DEF Tracked
<1> QED
  BY <1>1, <1>3, <1>4 DEF Watched

LEMMA OnceCount ==
    ASSUME NEW s \in Seq(Msgs), NEW t, Once(t, s)
    PROVE  Count(t, s) <= 1
<1> DEFINE I == {i \in DOMAIN s : s[i] = t}
<1>1. DOMAIN s = 1..Len(s)
  BY LenProperties
<1>2. CASE I = {}
  <2>1. Cardinality(I) = 0
    BY <1>2, FS_EmptySet
  <2> QED
    BY <2>1 DEF Count
<1>3. CASE I # {}
  <2>1. PICK i \in I : TRUE
    BY <1>3
  <2>2. \A j \in I : j = i
    BY <1>1 DEF Once
  <2>3. I = {i}
    BY <2>1, <2>2
  <2>4. Cardinality(I) = 1
    BY <2>3, FS_Singleton
  <2> QED
    BY <2>4 DEF Count
<1> QED
  BY <1>2, <1>3

(***************************************************************************)
(* A notification stands twice in the context, or in the journal's, only   *)
(* if the scans lost sight of its task: for any number of tasks, messages, *)
(* turns, ticks, crashes, aborts, undos and compactions, no park, wakeup,  *)
(* flush, stop hook, crash or resume adds a second copy by itself          *)
(* (deliver_due_notifications, restore_task_notifications,                 *)
(* should_continue_after_stop).                                            *)
(***************************************************************************)
THEOREM RepeatsAreUnseen == Spec => []RepeatsOnlyUnseen
<1>1. Watched => RepeatsOnlyUnseen
  <2> SUFFICES ASSUME Watched, NEW t \in Tasks \ unseen
               PROVE  Count(t, memory) <= 1 /\ Count(t, replayed) <= 1
    BY DEF RepeatsOnlyUnseen
  <2>1. memory \in Seq(Msgs) /\ replayed \in Seq(Msgs) /\ OneHolder(t) /\ ReplayedBy(t)
    BY WatchedParts
  <2>2. Once(t, memory) /\ Once(t, replayed)
    BY <2>1 DEF OneHolder, ReplayedBy
  <2> QED
    BY <2>1, <2>2, OnceCount
<1> QED
  BY <1>1, WatchedInit, WatchedStep, PTL DEF Spec

=============================================================================
