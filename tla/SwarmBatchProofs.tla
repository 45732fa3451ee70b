-------------------------- MODULE SwarmBatchProofs --------------------------
(***************************************************************************)
(* Theorems about SwarmBatch, for every number of members, every mix of    *)
(* kinds, every concurrency limit and every bound.                         *)
(***************************************************************************)
EXTENDS SwarmBatch, QueueLemmas, FiniteSetTheorems, TLAPS


-----------------------------------------------------------------------------
(* After the loop nothing is polled, and nothing is queued once the batch  *)
(* has returned.                                                           *)
LoopEnded ==
    /\ pc \in {"drain", "done"} => active = {} /\ parked = {}
    /\ pc = "done" => pending = <<>> /\ ready = <<>>

Inv == TypeOK /\ MembersAccounted /\ LoopEnded

LEMMA ResultTypes ==
    /\ NoResult \notin Result
    /\ \A o \in {"Completed", "Failed", "Aborted"}, st \in {"Started", "NotStarted"} :
         /\ [outcome |-> o, state |-> st] \in Result
         /\ [outcome |-> o, state |-> st] # NoResult
BY DEF NoResult, Result

LEMMA InitInv == Init => Inv
<1> SUFFICES ASSUME Init PROVE Inv
  OBVIOUS
<1> USE SwarmAssumption DEF Init
<1>1. pending \in Seq(Members) /\ Range(pending) = Members /\ IsInjective(pending)
  <2>1. pending \in [1..N -> Members] /\ DOMAIN pending = 1..N /\ \A i \in 1..N : pending[i] = i
    BY DEF Members
  <2>2. pending \in Seq(Members)
    BY <2>1, IsASeq
  <2> QED
    BY <2>1, <2>2 DEF Members, Range, IsInjective
<1>2. ready \in Seq(Members) /\ Range(ready) = {} /\ IsInjective(ready)
  <2>1. ready \in Seq(Members)
    OBVIOUS
  <2>2. Range(ready) = {}
    BY <2>1, RangeEmpty
  <2> QED
    BY <2>1, <2>2 DEF IsInjective
<1>3. TypeOK
  <2>1. retries \in [Members -> Nat] /\ launches \in Nat /\ completed \in Nat
          /\ rlCapacity \in Nat
    OBVIOUS
  <2>2. agent \in [Members -> BOOLEAN] /\ task \in [Members -> Statuses]
          /\ backoff \in [Members -> {"none", "waiting", "passed"}]
          /\ results \in [Members -> Result \cup {NoResult}]
    BY DEF Statuses
  <2>3. wake \subseteq Timers /\ active \subseteq Members /\ inFlight \subseteq Members
          /\ parked \subseteq Members /\ expired \subseteq active /\ fired \subseteq Members
    OBVIOUS
  <2>4. rampOpen \in BOOLEAN /\ recoverDue \in BOOLEAN /\ batchToken \in BOOLEAN
          /\ cancelled \in BOOLEAN
    OBVIOUS
  <2> QED
    BY <1>1, <1>2, <2>1, <2>2, <2>3, <2>4 DEF TypeOK
<1>4. MembersAccounted
  BY <1>1, <1>2 DEF MembersAccounted, Unfinished
<1>5. LoopEnded
  BY DEF LoopEnded
<1> QED
  BY <1>3, <1>4, <1>5 DEF Inv

LEMMA NextInv == Inv /\ [Next]_vars => Inv'
<1> SUFFICES ASSUME Inv, [Next]_vars PROVE Inv'
  OBVIOUS
<1> USE SwarmAssumption
<1>0. /\ TypeOK /\ MembersAccounted /\ LoopEnded
      /\ pending \in Seq(Members) /\ ready \in Seq(Members)
      /\ IsInjective(pending) /\ IsInjective(ready)
      /\ Range(pending) \subseteq Members /\ Range(ready) \subseteq Members
  BY RangeEmpty DEF Inv, TypeOK, MembersAccounted
<1>1. CASE RecoverCapacity
  <2> USE <1>1 DEF RecoverCapacity, queues, identity, signals
  <2>1. TypeOK'
    <3>1. rlCapacity' \in Nat
      BY <1>0 DEF TypeOK
    <3> QED
      BY <1>0, <3>1 DEF TypeOK
  <2>2. MembersAccounted' /\ LoopEnded'
    BY <1>0 DEF MembersAccounted, Unfinished, LoopEnded
  <2> QED
    BY <2>1, <2>2 DEF Inv
<1>2. CASE LaunchResumed
  <2> USE <1>2 DEF LaunchResumed, MayLaunch, identity, pacing, signals
  <2>1. /\ Head(ready) \in Range(ready) /\ Head(ready) \in Members
        /\ ready' \in Seq(Members) /\ IsInjective(ready')
        /\ Range(ready') = Range(ready) \ {Head(ready)}
    BY <1>0, PopFrontQueue
  <2>2. TypeOK'
    BY <1>0, <2>1 DEF TypeOK
  <2>3. MembersAccounted' /\ LoopEnded'
    BY <1>0, <2>1 DEF MembersAccounted, Unfinished, LoopEnded
  <2> QED
    BY <2>2, <2>3 DEF Inv
<1>3. ASSUME NEW i \in 1..Len(pending), Launch(i) PROVE Inv'
  <2> USE <1>3 DEF Launch, MayLaunch
  <2> DEFINE m == pending[i]
  <2>1. /\ m \in Members /\ m \in Range(pending)
        /\ pending' \in Seq(Members) /\ IsInjective(pending')
        /\ Range(pending') = Range(pending) \ {m}
    <3>1. m \in Members /\ m \in Range(pending)
      BY <1>0, ElementOfSeq, LenProperties DEF Range
    <3> QED
      BY <1>0, <3>1, RemoveAtQueue
  <2>2. TypeOK'
    <3>1. launches' \in Nat
      BY <1>0 DEF TypeOK
    <3>2. rampOpen' \in BOOLEAN
      BY <1>0 DEF TypeOK
    <3>3. agent' \in [Members -> BOOLEAN] /\ task' \in [Members -> Statuses]
      BY <1>0, <2>1 DEF TypeOK, Statuses
    <3>4. gate' \in {"none", "shut", "passed"} /\ fired' \subseteq Members
      BY <1>0, <2>1 DEF TypeOK
    <3>5. /\ active' \subseteq Members /\ inFlight' \subseteq Members
          /\ expired' \subseteq active'
      BY <1>0, <2>1 DEF TypeOK
    <3>6. UNCHANGED <<pc, parked, ready, results, retries, backoff, rlCapacity,
                      recoverDue, completed, batchToken, cancelled, wake>>
      OBVIOUS
    <3> HIDE <1>3
    <3> QED
      BY <1>0, <2>1, <3>1, <3>2, <3>3, <3>4, <3>5, <3>6 DEF TypeOK
  <2>3. MembersAccounted' /\ LoopEnded'
    BY <1>0, <2>1 DEF MembersAccounted, Unfinished, LoopEnded
  <2> QED
    BY <2>2, <2>3 DEF Inv
<1>4. ASSUME NEW i \in 1..Len(pending), LaunchFails(i) PROVE Inv'
  <2> USE <1>4 DEF LaunchFails, KnownAgent, MayLaunch, identity, pacing, signals
  <2> DEFINE m == pending[i]
  <2>1. /\ m \in Members /\ m \in Range(pending)
        /\ pending' \in Seq(Members) /\ IsInjective(pending')
        /\ Range(pending') = Range(pending) \ {m}
    <3>1. m \in Members /\ m \in Range(pending)
      BY <1>0, ElementOfSeq, LenProperties DEF Range
    <3> QED
      BY <1>0, <3>1, RemoveAtQueue
  <2>2. results' \in [Members -> Result \cup {NoResult}]
        /\ \A k \in Members : results'[k] = NoResult <=> results[k] = NoResult /\ k # m
    BY <1>0, <2>1, ResultTypes DEF TypeOK
  <2>3. TypeOK'
    BY <1>0, <2>1, <2>2 DEF TypeOK
  <2>4. MembersAccounted' /\ LoopEnded'
    BY <1>0, <2>1, <2>2 DEF MembersAccounted, Unfinished, LoopEnded
  <2> QED
    BY <2>3, <2>4 DEF Inv
<1>5. CASE EndLaunching
  <2> USE <1>5 DEF EndLaunching, queues, identity, pacing, signals
  <2>1. TypeOK'
    BY <1>0 DEF TypeOK
  <2>2. MembersAccounted' /\ LoopEnded'
    BY <1>0 DEF MembersAccounted, Unfinished, LoopEnded, LoopBreaks, Idle
  <2> QED
    BY <2>1, <2>2 DEF Inv
<1>6. CASE ArmWake
  <2> USE <1>6 DEF ArmWake, queues, identity, pacing, signals
  <2>1. TypeOK'
    BY <1>0 DEF TypeOK
  <2>2. MembersAccounted' /\ LoopEnded'
    BY <1>0 DEF MembersAccounted, Unfinished, LoopEnded
  <2> QED
    BY <2>1, <2>2 DEF Inv
<1>7. ASSUME NEW m \in Members, NEW o \in AttemptOutcomes, AttemptDone(m, o) PROVE Inv'
  <2> USE <1>7 DEF AttemptDone
  <2>0. /\ m \in active /\ m \in inFlight /\ m \notin Range(pending)
        /\ m \notin parked /\ m \notin Range(ready)
    BY <1>0 DEF MembersAccounted
  <2>1. CASE Requeue(m)
    <3>1. /\ pending' \in Seq(Members) /\ IsInjective(pending')
          /\ Range(pending') = {m} \cup Range(pending)
      BY <1>0, <2>0, <2>1, PushFrontQueue DEF Requeue, RateLimitSeed
    <3>2. rlCapacity' \in Nat
      <4>1. Cardinality(inFlight \ {m}) \in Nat
        <5>1. IsFiniteSet(Members)
          BY FS_Interval DEF Members
        <5>2. inFlight \ {m} \in SUBSET Members
          BY <1>0 DEF TypeOK
        <5>3. IsFiniteSet(inFlight \ {m})
          BY <5>1, <5>2, FS_Subset
        <5> QED
          BY <5>3, FS_CardinalityType
      <4> QED
        BY <1>0, <2>1, <4>1 DEF Requeue, RateLimitSeed, TypeOK
    <3>3. retries' \in [Members -> Nat]
      BY <1>0, <2>1 DEF Requeue, RateLimitSeed, TypeOK
    <3>4. TypeOK'
      BY <1>0, <2>1, <3>1, <3>2, <3>3 DEF Requeue, RateLimitSeed, TypeOK, signals
    <3>5. /\ active' = active \ {m} /\ inFlight' = inFlight \ {m} /\ parked' = parked
          /\ ready' = ready /\ results' = results
      BY <2>1 DEF Requeue
    <3>6. Unfinished' = Unfinished
      BY <3>5 DEF Unfinished
    <3>7. MembersAccounted'
      <4> HIDE <1>7
      <4> HIDE DEF AttemptDone
      <4> QED
        BY <1>0, <2>0, <3>1, <3>5, <3>6 DEF MembersAccounted
    <3>8. LoopEnded'
      BY <2>1 DEF Requeue, LoopEnded
    <3> QED
      BY <3>4, <3>7, <3>8 DEF Inv
  <2>2. ASSUME NEW out \in {"Completed", "Failed", "Aborted"},
               NEW st \in {"completed", "failed", "stopped"},
               Settled(m, out, st), completed' \in Nat,
               UNCHANGED <<pending, retries, backoff, rlCapacity, gate, recoverDue>>
        PROVE  Inv'
    <3>1. results' \in [Members -> Result \cup {NoResult}]
          /\ \A k \in Members : results'[k] = NoResult <=> results[k] = NoResult /\ k # m
      BY <1>0, <2>2, ResultTypes DEF TypeOK, Settled
    <3>2. task' \in [Members -> Statuses]
      BY <1>0, <2>2 DEF TypeOK, Settled, Transition, Statuses
    <3>3. TypeOK'
      BY <1>0, <2>2, <3>1, <3>2 DEF TypeOK
    <3>4. MembersAccounted' /\ LoopEnded'
      BY <1>0, <2>0, <2>2, <3>1 DEF MembersAccounted, Unfinished, LoopEnded
    <3> QED
      BY <3>3, <3>4 DEF Inv
  <2>3. completed \in Nat /\ completed + 1 \in Nat
    BY <1>0 DEF TypeOK
  <2> QED
    BY <2>1, <2>2, <2>3
<1>8. ASSUME NEW m \in Members, DeadlineFires(m) PROVE Inv'
  <2> USE <1>8 DEF DeadlineFires, queues, identity, pacing
  <2>1. TypeOK'
    BY <1>0 DEF TypeOK
  <2>2. MembersAccounted' /\ LoopEnded'
    BY <1>0 DEF MembersAccounted, Unfinished, LoopEnded
  <2> QED
    BY <2>1, <2>2 DEF Inv
<1>9. ASSUME NEW m \in Members, ExpiredDone(m) PROVE Inv'
  <2> USE <1>9 DEF ExpiredDone, pacing
  <2>1. results' \in [Members -> Result \cup {NoResult}]
        /\ \A k \in Members : results'[k] = NoResult <=> results[k] = NoResult /\ k # m
    BY <1>0, ResultTypes DEF TypeOK, Settled
  <2>2. task' \in [Members -> Statuses]
    BY <1>0 DEF TypeOK, Settled, Transition, Statuses
  <2>3. TypeOK'
    BY <1>0, <2>1, <2>2 DEF TypeOK
  <2>4. MembersAccounted' /\ LoopEnded'
    BY <1>0, <2>1 DEF MembersAccounted, Unfinished, LoopEnded, TypeOK
  <2> QED
    BY <2>3, <2>4 DEF Inv
<1>10. ASSUME NEW m \in Members, Park(m) PROVE Inv'
  <2> USE <1>10 DEF Park, identity, pacing, signals
  <2>1. TypeOK'
    BY <1>0 DEF TypeOK
  <2>2. MembersAccounted' /\ LoopEnded'
    BY <1>0 DEF MembersAccounted, Unfinished, LoopEnded
  <2> QED
    BY <2>1, <2>2 DEF Inv
<1>11. ASSUME NEW m \in Members, ParkedResumes(m) PROVE Inv'
  <2> USE <1>11 DEF ParkedResumes, identity, pacing, signals
  <2>1. m \notin Range(ready)
    BY <1>0 DEF MembersAccounted
  <2>2. /\ ready' \in Seq(Members) /\ IsInjective(ready')
        /\ Range(ready') = Range(ready) \cup {m}
    BY <1>0, <2>1, AppendQueue
  <2>3. TypeOK'
    BY <1>0, <2>2 DEF TypeOK
  <2>4. MembersAccounted' /\ LoopEnded'
    BY <1>0, <2>2 DEF MembersAccounted, Unfinished, LoopEnded
  <2> QED
    BY <2>3, <2>4 DEF Inv
<1>12. ASSUME NEW m \in Members, ParkedCancelled(m) PROVE Inv'
  <2> USE <1>12 DEF ParkedCancelled, pacing
  <2>1. results' \in [Members -> Result \cup {NoResult}]
        /\ \A k \in Members : results'[k] = NoResult <=> results[k] = NoResult /\ k # m
    BY <1>0, ResultTypes DEF TypeOK, Settled
  <2>2. task' \in [Members -> Statuses]
    BY <1>0 DEF TypeOK, Settled, Transition, Statuses
  <2>3. TypeOK'
    BY <1>0, <2>1, <2>2 DEF TypeOK
  <2>4. MembersAccounted' /\ LoopEnded'
    BY <1>0, <2>1 DEF MembersAccounted, Unfinished, LoopEnded
  <2> QED
    BY <2>3, <2>4 DEF Inv
<1>13. CASE ObserveCancel \/ SleepEnds \/ Keepalive
  <2> USE <1>13 DEF ObserveCancel, SleepEnds, Keepalive, queues, identity, pacing, signals
  <2>1. TypeOK'
    BY <1>0 DEF TypeOK
  <2>2. MembersAccounted' /\ LoopEnded'
    BY <1>0 DEF MembersAccounted, Unfinished, LoopEnded
  <2> QED
    BY <2>1, <2>2 DEF Inv
<1>14. CASE Drain
  <2> USE <1>14 DEF Drain, pacing
  <2>1. /\ results' \in [Members -> Result \cup {NoResult}]
        /\ \A k \in Members : results'[k] = NoResult <=>
              results[k] = NoResult /\ k \notin Range(pending) \cup Range(ready)
    BY <1>0, ResultTypes DEF TypeOK
  <2>2. task' \in [Members -> Statuses]
    BY <1>0 DEF TypeOK, Transition, Statuses
  <2>3. /\ pending' \in Seq(Members) /\ ready' \in Seq(Members)
        /\ Range(pending') = {} /\ Range(ready') = {}
        /\ IsInjective(pending') /\ IsInjective(ready')
    <3>1. <<>> \in Seq(Members) /\ Range(<<>>) = {}
      BY EmptySeq, RangeEmpty
    <3>2. IsInjective(<<>>)
      BY <3>1 DEF IsInjective, Range
    <3> QED
      BY <3>1, <3>2
  <2>4. TypeOK'
    BY <1>0, <2>1, <2>2, <2>3 DEF TypeOK
  <2>5. inFlight = Range(ready) /\ inFlight' = {}
    BY <1>0 DEF MembersAccounted, LoopEnded
  <2>6. \A k \in Members : results'[k] # NoResult
    BY <1>0, <2>1, <2>5 DEF MembersAccounted, Unfinished
  <2>7. MembersAccounted' /\ LoopEnded'
    BY <1>0, <2>3, <2>5, <2>6 DEF MembersAccounted, Unfinished, LoopEnded
  <2> QED
    BY <2>4, <2>7 DEF Inv
<1>15. CASE CancelBatch
  <2> USE <1>15 DEF CancelBatch, queues, identity, pacing
  <2>1. TypeOK'
    BY <1>0 DEF TypeOK
  <2>2. MembersAccounted' /\ LoopEnded'
    BY <1>0 DEF MembersAccounted, Unfinished, LoopEnded
  <2> QED
    BY <2>1, <2>2 DEF Inv
<1>16. ASSUME NEW m \in Members, StopTask(m) PROVE Inv'
  <2> USE <1>16 DEF StopTask, queues, pacing
  <2>1. TypeOK'
    BY <1>0 DEF TypeOK, Transition, Statuses
  <2>2. MembersAccounted' /\ LoopEnded'
    BY <1>0 DEF MembersAccounted, Unfinished, LoopEnded
  <2> QED
    BY <2>1, <2>2 DEF Inv
<1>17. CASE TimePasses
  <2> USE <1>17 DEF TimePasses, queues, signals
  <2>1. TypeOK'
    BY <1>0 DEF TypeOK
  <2>2. MembersAccounted' /\ LoopEnded'
    BY <1>0 DEF MembersAccounted, Unfinished, LoopEnded
  <2> QED
    BY <2>1, <2>2 DEF Inv
<1>18. CASE UNCHANGED vars
  BY <1>0, <1>18 DEF Inv, TypeOK, MembersAccounted, Unfinished, LoopEnded, vars
<1> QED
  BY <1>1, <1>2, <1>3, <1>4, <1>5, <1>6, <1>7, <1>8, <1>9, <1>10, <1>11, <1>12,
     <1>13, <1>14, <1>15, <1>16, <1>17, <1>18 DEF Next, Scheduler, Returned

-----------------------------------------------------------------------------
(* The state type, for every batch. *)
THEOREM TypeCorrect == Spec => []TypeOK
<1>1. Inv => TypeOK
  BY DEF Inv
<1> QED
  BY InitInv, NextInv, <1>1, PTL DEF Spec

(* Every member is in exactly one place, and has a verdict exactly when it *)
(* is in none of the queues.                                               *)
THEOREM MembersAlwaysAccounted == Spec => []MembersAccounted
<1>1. Inv => MembersAccounted
  BY DEF Inv
<1> QED
  BY InitInv, NextInv, <1>1, PTL DEF Spec

(* The `expect` that ends run_swarm_batch never panics. *)
THEOREM ReturnedBatchIsComplete == Spec => []ReturnedComplete
<1>1. Inv => ReturnedComplete
  <2> SUFFICES ASSUME Inv, pc = "done" PROVE Unfinished = {}
    BY DEF ReturnedComplete
  <2>1. active = {} /\ parked = {} /\ pending = <<>> /\ ready = <<>>
    BY DEF Inv, LoopEnded
  <2>2. Range(pending) = {} /\ Range(ready) = {}
    BY <2>1, RangeEmpty DEF Inv, TypeOK
  <2> QED
    BY <2>1, <2>2 DEF Inv, MembersAccounted
<1> QED
  BY InitInv, NextInv, <1>1, PTL DEF Spec

(* No action overwrites a verdict: the members an action settles are       *)
(* queued or in flight, hence, by the invariant, without a result.         *)
THEOREM VerdictsAreFinal == Spec => VerdictWrittenOnce
<1> DEFINE Kept == \A m \in Members : results[m] # NoResult => results'[m] = results[m]
<1>1. Inv /\ [Next]_vars => [Kept]_vars
  <2> SUFFICES ASSUME Inv, Next PROVE Kept
    BY DEF vars
  <2>0. results \in [Members -> Result \cup {NoResult}]
    BY DEF Inv, TypeOK
  <2>1. CASE UNCHANGED results
    BY <2>1
  <2>2. ASSUME NEW m \in Members, results[m] = NoResult,
               \E r : results' = [results EXCEPT ![m] = r]
        PROVE  Kept
    BY <2>0, <2>2
  <2>3. ASSUME NEW i \in 1..Len(pending), LaunchFails(i) PROVE Kept
    <3>1. pending[i] \in Range(pending) /\ pending[i] \in Members
      BY ElementOfSeq, LenProperties DEF Inv, TypeOK, Range
    <3>2. results[pending[i]] = NoResult
      BY <3>1 DEF Inv, MembersAccounted, Unfinished
    <3> QED
      BY <2>2, <2>3, <3>1, <3>2 DEF LaunchFails, KnownAgent
  <2>4. ASSUME NEW m \in Members, NEW o \in AttemptOutcomes, AttemptDone(m, o) PROVE Kept
    <3>1. results[m] = NoResult
      BY <2>4 DEF AttemptDone, Inv, MembersAccounted, Unfinished
    <3> QED
      BY <2>1, <2>2, <2>4, <3>1 DEF AttemptDone, Settled, Requeue, RateLimitSeed
  <2>5. ASSUME NEW m \in Members, ExpiredDone(m) \/ ParkedCancelled(m) PROVE Kept
    <3>1. results[m] = NoResult
      BY <2>5 DEF ExpiredDone, ParkedCancelled, Inv, TypeOK, MembersAccounted, Unfinished
    <3> QED
      BY <2>2, <2>5, <3>1 DEF ExpiredDone, ParkedCancelled, Settled
  <2>6. CASE Drain
    BY <2>6 DEF Drain, Inv, MembersAccounted, Unfinished
  <2>7. CASE RecoverCapacity \/ LaunchResumed \/ EndLaunching \/ ArmWake
    BY <2>1, <2>7 DEF RecoverCapacity, LaunchResumed, EndLaunching, ArmWake
  <2>8. CASE ObserveCancel \/ SleepEnds \/ Keepalive \/ CancelBatch \/ TimePasses \/ Returned
    BY <2>1, <2>8 DEF ObserveCancel, SleepEnds, Keepalive, CancelBatch, TimePasses,
                      Returned, vars
  <2>9. ASSUME NEW i \in 1..Len(pending), Launch(i) PROVE Kept
    BY <2>1, <2>9 DEF Launch
  <2>10. ASSUME NEW m \in Members,
                DeadlineFires(m) \/ Park(m) \/ ParkedResumes(m) \/ StopTask(m)
         PROVE  Kept
    BY <2>1, <2>10 DEF DeadlineFires, Park, ParkedResumes, StopTask
  <2> QED
    BY <2>3, <2>4, <2>5, <2>6, <2>7, <2>8, <2>9, <2>10 DEF Next, Scheduler
<1> QED
  BY InitInv, NextInv, <1>1, PTL DEF Spec, VerdictWrittenOnce

-----------------------------------------------------------------------------
(* The polled attempts never exceed the configured concurrency. *)
THEOREM SlotsNeverExceeded == Spec => []SlotLimit
<1> USE SwarmAssumption
<1>1. Init => SlotLimit
  BY FS_EmptySet DEF Init, SlotLimit
<1>2. Inv /\ SlotLimit /\ [Next]_vars => SlotLimit'
  <2> SUFFICES ASSUME Inv, SlotLimit, [Next]_vars, MaxConcurrency > 0
               PROVE  Cardinality(active') <= MaxConcurrency
    BY DEF SlotLimit
  <2>0. IsFiniteSet(active) /\ Cardinality(active) \in Nat /\ Cardinality(active) <= MaxConcurrency
    <3>1. IsFiniteSet(Members)
      BY FS_Interval DEF Members
    <3>2. active \in SUBSET Members
      BY DEF Inv, TypeOK
    <3>3. IsFiniteSet(active)
      BY <3>1, <3>2, FS_Subset
    <3> QED
      BY <3>3, FS_CardinalityType DEF SlotLimit
  <2>1. CASE active' \subseteq active
    <3>1. active' \in SUBSET active
      BY <2>1
    <3>2. Cardinality(active') <= Cardinality(active) /\ IsFiniteSet(active')
      BY <2>0, <3>1, FS_Subset
    <3>3. Cardinality(active') \in Nat
      BY <3>2, FS_CardinalityType
    <3> QED
      BY <2>0, <3>2, <3>3
  <2>2. ASSUME NEW x, active' = active \cup {x}, ~ AtCapacity
        PROVE  Cardinality(active') <= MaxConcurrency
    <3>1. Cardinality(active) < MaxConcurrency
      BY <2>0, <2>2 DEF AtCapacity
    <3>2. Cardinality(active') = Cardinality(active) \/ Cardinality(active') = Cardinality(active) + 1
      BY <2>0, <2>2, FS_AddElement
    <3> QED
      BY <2>0, <3>1, <3>2
  <2>3. CASE LaunchResumed
    BY <2>2, <2>3 DEF LaunchResumed, MayLaunch
  <2>4. ASSUME NEW i \in 1..Len(pending), Launch(i) PROVE Cardinality(active') <= MaxConcurrency
    BY <2>2, <2>4 DEF Launch, MayLaunch
  <2>5. CASE UNCHANGED active
    BY <2>1, <2>5
  <2>6. ASSUME NEW m \in Members, NEW o \in AttemptOutcomes, AttemptDone(m, o)
        PROVE  Cardinality(active') <= MaxConcurrency
    BY <2>1, <2>6 DEF AttemptDone
  <2>7. ASSUME NEW m \in Members, ExpiredDone(m) \/ Park(m)
        PROVE  Cardinality(active') <= MaxConcurrency
    BY <2>1, <2>7 DEF ExpiredDone, Park
  <2>8. ASSUME NEW m \in Members,
               DeadlineFires(m) \/ ParkedResumes(m) \/ ParkedCancelled(m) \/ StopTask(m)
        PROVE  Cardinality(active') <= MaxConcurrency
    BY <2>5, <2>8 DEF DeadlineFires, ParkedResumes, ParkedCancelled, StopTask, queues
  <2>9. CASE RecoverCapacity \/ EndLaunching \/ ArmWake \/ Drain \/ ObserveCancel
               \/ SleepEnds \/ Keepalive \/ CancelBatch \/ TimePasses \/ Returned
    BY <2>5, <2>9 DEF RecoverCapacity, EndLaunching, ArmWake, Drain, ObserveCancel,
         SleepEnds, Keepalive, CancelBatch, TimePasses, Returned, queues, vars
  <2>10. ASSUME NEW i \in 1..Len(pending), LaunchFails(i)
         PROVE  Cardinality(active') <= MaxConcurrency
    BY <2>5, <2>10 DEF LaunchFails, KnownAgent
  <2>11. CASE UNCHANGED vars
    BY <2>5, <2>11 DEF vars
  <2> QED
    BY <2>3, <2>4, <2>6, <2>7, <2>8, <2>9, <2>10, <2>11 DEF Next, Scheduler
<1> QED
  BY InitInv, NextInv, <1>1, <1>2, PTL DEF Spec

-----------------------------------------------------------------------------
(* What ties a member's row and verdict to what happened to it: every      *)
(* launched member has an agent, and a queued member has one exactly when  *)
(* it waits for a retry.                                                   *)
History ==
    /\ RowFollowsMember /\ VerdictMatchesHistory
    /\ \A m \in Members :
         /\ m \in inFlight => agent[m]
         /\ m \in Range(pending) => (agent[m] <=> backoff[m] # "none")
         /\ backoff[m] # "none" => retries[m] > 0

(* One member's part of History, over the values of its own fields. *)
HistoryOf(m) ==
    /\ task[m] = "none" <=> ~ agent[m]
    /\ results[m] = NoResult /\ agent[m] => task[m] \in {"running", "stopped"}
    /\ results[m].outcome = "Completed" => task[m] \in {"completed", "stopped"}
    /\ results[m].outcome = "Aborted" => task[m] \in {"none", "stopped"}
    /\ results[m] # NoResult /\ task[m] = "running"
         => results[m].outcome = "Failed" /\ retries[m] > 0
    /\ results[m].state = "NotStarted" => ~ agent[m] /\ task[m] = "none"
    /\ results[m].state = "Started" => agent[m] \/ Kind[m] = "Resume"
    /\ m \in inFlight => agent[m]
    /\ m \in Range(pending) => (agent[m] <=> backoff[m] # "none")
    /\ backoff[m] # "none" => retries[m] > 0

LEMMA HistoryPointwise == History <=> \A m \in Members : HistoryOf(m)
BY DEF History, HistoryOf, RowFollowsMember, VerdictMatchesHistory

LEMMA InitHistory == Init => History
<1> SUFFICES ASSUME Init, NEW m \in Members PROVE HistoryOf(m)
  BY HistoryPointwise
<1> QED
  BY DEF Init, HistoryOf, NoResult

(* A step that leaves m's fields alone, and puts m in no queue, keeps      *)
(* HistoryOf(m).                                                           *)
LEMMA HistoryKept ==
    ASSUME NEW m \in Members, HistoryOf(m),
           task'[m] = task[m], agent'[m] = agent[m], results'[m] = results[m],
           retries'[m] = retries[m], backoff'[m] # "none" <=> backoff[m] # "none",
           m \in inFlight' => m \in inFlight,
           m \in Range(pending') => m \in Range(pending)
    PROVE  HistoryOf(m)'
BY DEF HistoryOf

LEMMA NextHistory == Inv /\ Inv' /\ History /\ [Next]_vars => History'
<1> SUFFICES ASSUME Inv, Inv', History, [Next]_vars, NEW m \in Members PROVE HistoryOf(m)'
  BY DEF History, HistoryOf, RowFollowsMember, VerdictMatchesHistory
<1>0. /\ HistoryOf(m) /\ TypeOK /\ TypeOK'
      /\ m \in inFlight => results[m] = NoResult /\ m \notin Range(pending)
      /\ m \in Range(pending) => results[m] = NoResult
      /\ active \subseteq inFlight /\ parked \subseteq inFlight
      /\ expired \subseteq inFlight /\ Range(ready) \subseteq inFlight
  BY HistoryPointwise DEF Inv, TypeOK, MembersAccounted, Unfinished
<1>00. NoResult.outcome = "none" /\ NoResult.state = "none"
  BY DEF NoResult
<1>1. ASSUME NEW x \in Members, x \in inFlight,
             NEW out \in {"Completed", "Failed", "Aborted"},
             NEW st \in {"completed", "failed", "stopped"},
             out = "Completed" => st = "completed",
             out = "Aborted" => st = "stopped",
             Settled(x, out, st), UNCHANGED <<pending, agent, retries, backoff>>,
             inFlight' = inFlight \ {x}
      PROVE  HistoryOf(m)'
  <2>1. CASE m # x
    <3>1. task'[m] = task[m] /\ results'[m] = results[m]
      BY <1>0, <1>1, <2>1 DEF Settled, TypeOK
    <3> QED
      BY <1>0, <1>1, <3>1, HistoryKept
  <2>2. CASE m = x
    <3>1. /\ agent[m] /\ task[m] \in {"running", "stopped"} /\ m \notin Range(pending)
      BY <1>0, <1>1, <2>2 DEF HistoryOf
    <3>2. results'[m] = [outcome |-> out, state |-> "Started"]
      BY <1>0, <1>1, <2>2 DEF Settled, TypeOK
    <3>3. task'[m] = IF task[m] = "running" THEN st ELSE "stopped"
      BY <1>0, <1>1, <2>2, <3>1 DEF Settled, TypeOK, Transition
    <3>4. results'[m] # NoResult /\ results'[m].outcome = out /\ results'[m].state = "Started"
      BY <3>2, ResultTypes
    <3> QED
      BY <1>0, <1>1, <2>2, <3>1, <3>3, <3>4 DEF HistoryOf
  <2> QED
    BY <2>1, <2>2
<1>2. CASE /\ UNCHANGED <<agent, task, retries, results, pending>>
           /\ backoff'[m] # "none" <=> backoff[m] # "none"
           /\ inFlight' \subseteq inFlight
  BY <1>0, <1>2, HistoryKept
<1>3. ASSUME NEW i \in 1..Len(pending), Launch(i) PROVE HistoryOf(m)'
  <2> DEFINE x == pending[i]
  <2>1. x \in Members /\ x \in Range(pending) /\ Range(pending') \subseteq Range(pending)
    <3>1. x \in Members /\ x \in Range(pending)
      BY <1>0, ElementOfSeq, LenProperties DEF TypeOK, Range
    <3> QED
      BY <1>3, <3>1, RemoveAtQueue DEF Launch, Inv, TypeOK, MembersAccounted
  <2>2. CASE m # x
    <3>1. /\ task'[m] = task[m] /\ agent'[m] = agent[m]
          /\ UNCHANGED <<results, retries, backoff>>
          /\ m \in inFlight' => m \in inFlight
      BY <1>0, <1>3, <2>1, <2>2 DEF Launch, TypeOK
    <3> QED
      BY <1>0, <2>1, <3>1, HistoryKept
  <2>3. CASE m = x
    <3>1. /\ agent'[m] = TRUE /\ UNCHANGED <<results, retries, backoff>>
          /\ task'[m] = IF backoff[m] = "none" THEN "running" ELSE task[m]
          /\ m \in inFlight'
      BY <1>0, <1>3, <2>1, <2>3 DEF Launch, TypeOK
    <3>2. results[m] = NoResult /\ m \notin Range(pending')
      BY <1>0, <2>1, <2>3, <3>1 DEF Inv, MembersAccounted
    <3>3. backoff[m] # "none" => task[m] \in {"running", "stopped"}
      BY <1>0, <2>1, <2>3, <3>2 DEF HistoryOf
    <3> QED
      BY <1>0, <1>00, <3>1, <3>2, <3>3 DEF HistoryOf
  <2> QED
    BY <2>2, <2>3
<1>4. ASSUME NEW i \in 1..Len(pending), LaunchFails(i) PROVE HistoryOf(m)'
  <2> DEFINE x == pending[i]
  <2>1. /\ x \in Members /\ x \in Range(pending) /\ Range(pending') = Range(pending) \ {x}
        /\ UNCHANGED <<agent, task, retries, backoff, inFlight>>
    <3>1. x \in Members /\ x \in Range(pending)
      BY <1>0, ElementOfSeq, LenProperties DEF TypeOK, Range
    <3> QED
      BY <1>4, <3>1, RemoveAtQueue DEF LaunchFails, KnownAgent, identity, Inv, TypeOK, MembersAccounted
  <2>2. CASE m # x
    <3>1. results'[m] = results[m]
      BY <1>0, <1>4, <2>1, <2>2 DEF LaunchFails, KnownAgent, TypeOK
    <3> QED
      BY <1>0, <2>1, <3>1, HistoryKept
  <2>3. CASE m = x
    <3> DEFINE known == agent[m] \/ Kind[m] = "Resume"
    <3>1. results'[m] = [outcome |-> "Failed",
                         state |-> IF known THEN "Started" ELSE "NotStarted"]
      BY <1>0, <1>4, <2>1, <2>3 DEF LaunchFails, KnownAgent, TypeOK
    <3>2. /\ results'[m] # NoResult /\ results'[m].outcome = "Failed"
          /\ results'[m].state = IF known THEN "Started" ELSE "NotStarted"
      BY <3>1, ResultTypes
    <3>3. /\ m \notin inFlight /\ m \notin Range(pending') /\ results[m] = NoResult
          /\ agent[m] => retries[m] > 0
      BY <1>0, <2>1, <2>3 DEF HistoryOf
    <3> QED
      BY <1>0, <2>1, <3>2, <3>3 DEF HistoryOf
  <2> QED
    BY <2>2, <2>3
<1>5. ASSUME NEW x \in Members, NEW o \in AttemptOutcomes, AttemptDone(x, o)
      PROVE  HistoryOf(m)'
  <2>0. x \in inFlight /\ inFlight' = inFlight \ {x} /\ UNCHANGED agent
    BY <1>0, <1>5 DEF AttemptDone
  <2>1. CASE Requeue(x)
    <3>1. /\ Range(pending') = {x} \cup Range(pending) /\ UNCHANGED <<results, task>>
      BY <1>0, <1>5, <2>0, <2>1, PushFrontQueue
         DEF Requeue, RateLimitSeed, Inv, TypeOK, MembersAccounted
    <3>2. CASE m # x
      <4>1. retries'[m] = retries[m] /\ backoff'[m] = backoff[m]
        BY <1>0, <2>1, <3>2 DEF Requeue, RateLimitSeed, TypeOK
      <4> QED
        BY <1>0, <2>0, <3>1, <3>2, <4>1, HistoryKept
    <3>3. CASE m = x
      <4>1. backoff'[m] = "waiting" /\ retries'[m] > 0
        BY <1>0, <2>1, <3>3, SwarmAssumption DEF Requeue, RateLimitSeed, TypeOK
      <4>2. agent[m] /\ task[m] \in {"running", "stopped"} /\ results[m] = NoResult
        BY <1>0, <2>0, <3>3 DEF HistoryOf
      <4> QED
        BY <1>0, <1>00, <2>0, <3>1, <3>3, <4>1, <4>2 DEF HistoryOf
    <3> QED
      BY <3>2, <3>3
  <2>2. CASE ~ Requeue(x)
    <3>1. UNCHANGED <<pending, retries, backoff>>
          /\ \/ Settled(x, "Completed", "completed")
             \/ Settled(x, "Failed", "failed")
             \/ Settled(x, "Aborted", "stopped")
      BY <1>5, <2>2 DEF AttemptDone
    <3> QED
      BY <1>1, <2>0, <3>1
  <2> QED
    BY <2>1, <2>2
<1>6. ASSUME NEW x \in Members, ExpiredDone(x) \/ ParkedCancelled(x) PROVE HistoryOf(m)'
  <2>1. /\ x \in inFlight /\ inFlight' = inFlight \ {x}
        /\ UNCHANGED <<pending, agent, retries, backoff>>
        /\ Settled(x, "Failed", "failed") \/ Settled(x, "Aborted", "stopped")
    BY <1>0, <1>6 DEF ExpiredDone, ParkedCancelled
  <2> QED
    BY <1>1, <2>1
<1>7. CASE Drain
  <2>1. /\ UNCHANGED <<agent, retries, backoff>> /\ inFlight' \subseteq inFlight
        /\ Range(pending') = {}
        /\ m \in Range(ready) => agent[m] /\ results[m] = NoResult
    BY <1>0, <1>7, EmptySeq, RangeEmpty DEF Drain, HistoryOf
  <2>2. CASE m \notin Range(pending) \cup Range(ready)
    <3>1. results'[m] = results[m] /\ task'[m] = task[m]
      BY <1>7, <2>2 DEF Drain
    <3> QED
      BY <1>0, <2>1, <3>1, HistoryKept
  <2>3. CASE m \in Range(pending) \cup Range(ready)
    <3>1. results'[m] = [outcome |-> "Aborted",
                         state |-> IF agent[m] THEN "Started" ELSE "NotStarted"]
      BY <1>7, <2>1, <2>3 DEF Drain
    <3>2. /\ results'[m] # NoResult /\ results'[m].outcome = "Aborted"
          /\ results'[m].state = IF agent[m] THEN "Started" ELSE "NotStarted"
      BY <3>1, ResultTypes
    <3>3. task'[m] = IF agent[m] THEN Transition(m, "stopped") ELSE task[m]
      BY <1>7, <2>1, <2>3 DEF Drain
    <3>4. results[m] = NoResult
      BY <1>0, <2>1, <2>3
    <3>5. task'[m] = IF agent[m] THEN "stopped" ELSE "none"
      BY <1>0, <3>3, <3>4 DEF HistoryOf, Transition
    <3> QED
      BY <1>0, <2>1, <3>2, <3>5 DEF HistoryOf
  <2> QED
    BY <2>2, <2>3
<1>8. ASSUME NEW x \in Members, StopTask(x) PROVE HistoryOf(m)'
  <2>1. UNCHANGED <<agent, retries, backoff, results, pending, inFlight>>
    BY <1>8 DEF StopTask, queues
  <2>2. task'[m] = task[m] \/ (task[m] = "running" /\ task'[m] = "stopped")
    BY <1>0, <1>8 DEF StopTask, Transition, TypeOK
  <2> QED
    BY <1>0, <2>1, <2>2 DEF HistoryOf
<1>9. CASE TimePasses
  <2>1. backoff'[m] # "none" <=> backoff[m] # "none"
    BY <1>0, <1>9 DEF TimePasses, TypeOK
  <2> QED
    BY <1>2, <1>9, <2>1 DEF TimePasses, queues
<1>10. CASE RecoverCapacity \/ LaunchResumed \/ EndLaunching \/ ArmWake \/ ObserveCancel
              \/ SleepEnds \/ Keepalive \/ CancelBatch \/ UNCHANGED vars
  BY <1>2, <1>10 DEF RecoverCapacity, LaunchResumed, EndLaunching, ArmWake, ObserveCancel,
       SleepEnds, Keepalive, CancelBatch, queues, identity, vars
<1>11. ASSUME NEW x \in Members, DeadlineFires(x) \/ Park(x) \/ ParkedResumes(x)
       PROVE  HistoryOf(m)'
  BY <1>2, <1>11 DEF DeadlineFires, Park, ParkedResumes, queues, identity
<1> QED
  BY <1>3, <1>4, <1>5, <1>6, <1>7, <1>8, <1>9, <1>10, <1>11 DEF Next, Scheduler, Returned

(* A settled member leaves a terminal row behind (but for a failed         *)
(* relaunch), an unsettled launched one a running or client-stopped row.   *)
THEOREM RowsFollowMembers == Spec => []RowFollowsMember
<1>1. History => RowFollowsMember
  BY DEF History
<1> QED
  BY InitInv, NextInv, InitHistory, NextHistory, <1>1, PTL DEF Spec

(* `not started` is reported only of members that never ran. *)
THEOREM VerdictsMatchHistory == Spec => []VerdictMatchesHistory
<1>1. History => VerdictMatchesHistory
  BY DEF History
<1> QED
  BY InitInv, NextInv, InitHistory, NextHistory, <1>1, PTL DEF Spec

-----------------------------------------------------------------------------
(* A rate-limited attempt goes back to the queue only while another member *)
(* is unfinished (settle_attempt looks at the queue and the in_flight map, *)
(* from which it has just taken the member): the last one gets its verdict *)
(* instead of waiting for its own backoff for ever.                        *)
THEOREM RequeuesHaveCompany == Spec => RequeueNeedsCompany
<1> DEFINE Company == \A m \in Members : retries'[m] # retries[m] => Unfinished # {m}
<1>1. Inv /\ [Next]_vars => [Company]_vars
  <2> SUFFICES ASSUME Inv, Next PROVE Company
    BY DEF vars
  <2>0. /\ retries \in [Members -> Nat] /\ pending \in Seq(Members)
        /\ Range(pending) \cap inFlight = {} /\ active \subseteq inFlight
        /\ Unfinished = Range(pending) \cup inFlight
    BY DEF Inv, TypeOK, MembersAccounted
  <2>1. CASE UNCHANGED retries
    BY <2>1
  <2>2. ASSUME NEW x \in Members, NEW o \in AttemptOutcomes, AttemptDone(x, o) PROVE Company
    <3>1. CASE Requeue(x) /\ ~OnlyUnfinished(x)
      <4>1. x \in inFlight
        BY <2>0, <2>2 DEF AttemptDone
      <4>2. \A m \in Members : retries'[m] # retries[m] => m = x
        BY <2>0, <3>1 DEF Requeue
      <4>3. pending # <<>> => Range(pending) # {}
        <5> SUFFICES ASSUME pending # <<>> PROVE pending[1] \in Range(pending)
          OBVIOUS
        <5> QED
          BY <2>0, EmptySeq, LenProperties DEF Range
      <4>4. pending # <<>> \/ inFlight # {x}
        BY <3>1 DEF OnlyUnfinished
      <4>5. Unfinished # {x}
        BY <2>0, <4>1, <4>3, <4>4
      <4> QED
        BY <4>2, <4>5
    <3>2. CASE UNCHANGED retries
      BY <2>1, <3>2
    <3> QED
      BY <2>2, <3>1, <3>2 DEF AttemptDone
  <2>3. CASE RecoverCapacity \/ LaunchResumed \/ EndLaunching \/ ArmWake \/ Drain
    BY <2>1, <2>3 DEF RecoverCapacity, LaunchResumed, EndLaunching, ArmWake, Drain, identity
  <2>4. CASE ObserveCancel \/ SleepEnds \/ Keepalive \/ CancelBatch \/ TimePasses \/ Returned
    BY <2>1, <2>4 DEF ObserveCancel, SleepEnds, Keepalive, CancelBatch, TimePasses,
                      Returned, vars, identity
  <2>5. ASSUME NEW i \in 1..Len(pending), Launch(i) \/ LaunchFails(i) PROVE Company
    BY <2>1, <2>5 DEF Launch, LaunchFails, identity
  <2>6. ASSUME NEW m \in Members,
               \/ DeadlineFires(m) \/ ExpiredDone(m) \/ Park(m) \/ ParkedResumes(m)
               \/ ParkedCancelled(m) \/ StopTask(m)
        PROVE  Company
    BY <2>1, <2>6 DEF DeadlineFires, ExpiredDone, Park, ParkedResumes, ParkedCancelled,
                      StopTask, identity
  <2> QED
    BY <2>2, <2>3, <2>4, <2>5, <2>6 DEF Next, Scheduler
<1> QED
  BY InitInv, NextInv, <1>1, PTL DEF Spec, RequeueNeedsCompany
=============================================================================
