-------------------------- MODULE ToolBatchProofs --------------------------
(***************************************************************************)
(* Proofs about ToolBatch: for every number of calls, every set of plans   *)
(* and every naming of paths, tools that run together do not race, a call  *)
(* is executed once and authorized, and a call is left out only for a stop.*)
(***************************************************************************)
EXTENDS ToolBatch, QueueLemmas, TLAPS

(* A path that covers a place is trimmed to the components it shares with  *)
(* that place (to_lowercase and trim_end_matches in paths_overlap).        *)
LEMMA CoverTrimmed ==
    ASSUME NEW p \in Seq(Names), p # NoPath, NEW x \in Places, Covers(p, x)
    PROVE  \E k \in 1..Len(x) :
             Trimmed(p) = [i \in 1..k |-> Lower[x[i]]]
<1> DEFINE IsEnd(k) == /\ \A i \in (k + 1)..Len(p) : p[i] = ""
                       /\ k > 1 => p[k] # ""
<1>0. /\ Len(p) \in Nat /\ \A i \in 1..Len(p) : p[i] \in Names
      /\ x \in Seq(Names) /\ Len(x) \in Nat /\ \A i \in 1..Len(x) : x[i] \in Names
      /\ \A i \in 2..Len(x) : x[i] # ""
      /\ Lower \in [Names -> Names] /\ \A n \in Names : Lower[n] = "" <=> n = ""
  BY BatchAssumption, LenProperties, ElementOfSeq
<1>1. PICK k \in 1..Len(p) :
        /\ k <= Len(x)
        /\ \A i \in 1..k : Lower[p[i]] = Lower[x[i]]
        /\ \A i \in (k + 1)..Len(p) : p[i] = ""
  BY DEF Covers
<1>a. Len(p) \in Nat /\ Len(x) \in Nat
  BY <1>0
<1>b. k \in Int /\ 1 <= k /\ k <= Len(p) /\ k <= Len(x)
  <2>1. k <= Len(x)
    BY <1>1
  <2> QED
    BY <1>a, <2>1
<1>c. k \in 1..k /\ k \in 1..Len(x) /\ (k > 1 => k \in 2..Len(x))
  BY <1>a, <1>b
<1>2. IsEnd(k)
  <2>1. ASSUME k > 1 PROVE p[k] # ""
    <3>1. k \in 1..k /\ k \in 2..Len(x) /\ k \in 1..Len(x)
      BY <1>c, <2>1
    <3>2. Lower[p[k]] = Lower[x[k]] /\ x[k] # "" /\ x[k] \in Names /\ p[k] \in Names
      BY <1>0, <1>1, <3>1
    <3> QED
      BY <1>0, <3>2
  <2> QED
    BY <1>1, <2>1
<1>3. ASSUME NEW j \in 1..Len(p), IsEnd(j) PROVE j = k
  <2>0. j \in Int /\ 1 <= j /\ j <= Len(p)
    BY <1>a
  <2>1. CASE j < k
    <3>1. k > 1 /\ k \in (j + 1)..Len(p)
      BY <1>a, <1>b, <2>0, <2>1
    <3> QED
      BY <1>2, <1>3, <3>1
  <2>2. CASE k < j
    <3>1. j > 1 /\ j \in (k + 1)..Len(p)
      BY <1>a, <1>b, <2>0, <2>2
    <3> QED
      BY <1>2, <1>3, <3>1
  <2> QED
    BY <1>b, <2>0, <2>1, <2>2
<1>4. (CHOOSE j \in 1..Len(p) : IsEnd(j)) = k
  <2> HIDE DEF IsEnd
  <2> QED
    BY <1>2, <1>3
<1>5. Trimmed(p) = [i \in 1..k |-> Lower[p[i]]]
  BY <1>4 DEF Trimmed
<1>6. [i \in 1..k |-> Lower[p[i]]] = [i \in 1..k |-> Lower[x[i]]]
  BY <1>1
<1> QED
  BY <1>c, <1>5, <1>6

(* Two paths that cover a common place are found to overlap: paths_overlap *)
(* misses no pair of accesses to one place.                                *)
LEMMA OverlapIsComplete ==
    ASSUME NEW p \in Seq(Names), NEW q \in Seq(Names), p # NoPath, q # NoPath,
           NEW x \in Places, Covers(p, x), Covers(q, x)
    PROVE  paths_overlap(p, q)
<1>0. x \in Seq(Names) /\ Len(x) \in Nat /\ \A i \in 1..Len(x) : Lower[x[i]] \in Names
  BY BatchAssumption, LenProperties, ElementOfSeq
<1>1. PICK k \in 1..Len(x) : Trimmed(p) = [i \in 1..k |-> Lower[x[i]]]
  BY CoverTrimmed
<1>2. PICK m \in 1..Len(x) : Trimmed(q) = [i \in 1..m |-> Lower[x[i]]]
  BY CoverTrimmed
<1> DEFINE a == [i \in 1..k |-> Lower[x[i]]]
           b == [i \in 1..m |-> Lower[x[i]]]
<1>3. Len(a) = k /\ Len(b) = m
  <2>1. k \in Nat /\ m \in Nat /\ a \in [1..k -> Names] /\ b \in [1..m -> Names]
    BY <1>0
  <2> HIDE DEF a, b
  <2> QED
    BY <2>1, LenProperties, SeqDef
<1>4. CASE k = m
  BY <1>1, <1>2, <1>4 DEF paths_overlap
<1>5. CASE k < m
  <2>1. StartsWithDir(b, a)
    BY <1>0, <1>3, <1>5 DEF StartsWithDir
  <2> QED
    BY <1>1, <1>2, <2>1 DEF paths_overlap
<1>6. CASE m < k
  <2>1. StartsWithDir(a, b)
    BY <1>0, <1>3, <1>6 DEF StartsWithDir
  <2> QED
    BY <1>1, <1>2, <2>1 DEF paths_overlap
<1> QED
  BY <1>0, <1>4, <1>5, <1>6

(* The plans in force are plans of the batch. *)
LEMMA PlanAccesses ==
    ASSUME TypeOK, NEW c \in Calls
    PROVE  plan[c].accesses \subseteq Access /\ plan[c].stop \in BOOLEAN
<1>1. plan[c] \in Plans \/ plan[c] = NoPlan
  BY DEF TypeOK
<1>2. \A p \in Plans : p.accesses \subseteq Access /\ p.stop \in BOOLEAN
  BY BatchAssumption
<1>3. NoPlan.accesses = {} /\ NoPlan.stop = FALSE
  BY DEF NoPlan
<1> QED
  BY <1>1, <1>2, <1>3

(* Conflict detection is complete: a call that writes a place another call *)
(* touches conflicts with it, whichever of the two is asked.               *)
LEMMA ConflictIsComplete ==
    ASSUME TypeOK, NEW c \in Calls, NEW d \in Calls, NEW x \in Places,
           WritesTo(c, x), Touches(d, x)
    PROVE  Conflicts(c, d) /\ Conflicts(d, c)
<1>1. PICK a \in plan[c].accesses : a.kind = "File" /\ Writes(a) /\ Covers(a.path, x)
  BY DEF WritesTo
<1>2. PICK b \in plan[d].accesses : b.kind = "File" /\ Covers(b.path, x)
  BY DEF Touches
<1>3. a.path \in Seq(Names) /\ b.path \in Seq(Names)
  BY PlanAccesses DEF Access
<1>4. a.path = NoPath \/ b.path = NoPath
        \/ (paths_overlap(a.path, b.path) /\ paths_overlap(b.path, a.path))
  BY <1>1, <1>2, <1>3, OverlapIsComplete
<1>5. conflicts_pair(a, b) /\ conflicts_pair(b, a)
  BY <1>1, <1>2, <1>4 DEF conflicts_pair
<1> QED
  BY <1>1, <1>2, <1>5 DEF Conflicts

(* Conflicts is symmetric: the order in which the scan asks is irrelevant. *)
LEMMA ConflictsSymmetric ==
    ASSUME NEW c \in Calls, NEW d \in Calls, Conflicts(c, d)
    PROVE  Conflicts(d, c)
<1>1. PICK l \in plan[c].accesses, r \in plan[d].accesses : conflicts_pair(l, r)
  BY DEF Conflicts
<1>2. paths_overlap(l.path, r.path) => paths_overlap(r.path, l.path)
  BY DEF paths_overlap
<1>3. conflicts_pair(r, l)
  BY <1>1, <1>2 DEF conflicts_pair
<1> QED
  BY <1>1, <1>3 DEF Conflicts

-----------------------------------------------------------------------------
(* The inductive invariant. *)

Ready      == With("ready")
Over       == {"late", "sort", "done"}
Waiting    == Range(pending) \cup Range(held)

(* Preparation: every call before `next` has its fate, none after it. *)
Prepared ==
    \A c \in Calls :
      /\ fate[c] = "authorizing" => pc = "prepare" /\ c = next
      /\ pc = "prepare" /\ c > next => fate[c] = "none"
      /\ pc = "prepare" => (result[c] = "none" /\ (c < next => fate[c] # "none"))
      /\ pc # "prepare" => fate[c] # "none"

(* The scheduler's queues are empty before it starts, `held` outside scans.*)
Quiet ==
    /\ pc \in {"prepare", "early"} =>
         active = {} /\ ~ stopped
    /\ held # <<>> => pc = "scan" /\ ~ stopped
    /\ pc = "prepare" => out = <<>>
    /\ pc \in Over => active = {} /\ \A c \in Ready : result[c] # "none"

(* A ready call is queued, held or active exactly while it has no result,  *)
(* and is in one of the three places only once.                            *)
Accounted ==
    /\ IsInjective(pending) /\ IsInjective(held)
    /\ Range(pending) \cap Range(held) = {}
    /\ active \cap Waiting = {}
    /\ active \cup Waiting \subseteq Ready
    /\ pc \notin Over =>
         /\ \A c \in Ready : result[c] = "none" <=> c \in active \cup Waiting
         /\ Ready \cap Range(out) = {}

(* No two active calls conflict; the serial loop runs one at a time; a     *)
(* held call conflicts with an active one.                                 *)
Compatible ==
    /\ \A c, d \in active : c # d => ~ Conflicts(c, d)
    /\ pc = "serial" => \A c, d \in active : c = d
    /\ \A h \in Range(held) : \E a \in active : Conflicts(h, a)

(* batch_stopped tells whether a call that stops the batch has ended. *)
StopSeen ==
    /\ \A c \in Calls : result[c] \in {"output", "panic"} => c \in Ready
    /\ pc \notin Over =>
         (stopped <=> \E d \in Ready : plan[d].stop /\ result[d] \in {"output", "panic"})

IInv == TypeOK /\ Prepared /\ Quiet /\ Accounted /\ Compatible /\ StopSeen /\ SkippedForAStop

(* swap_remove keeps a list of calls a list of calls.                      *)
LEMMA SwapRemoveType ==
    ASSUME NEW s \in Seq(Calls), NEW i \in 1..Len(s)
    PROVE  SwapRemove(s, i) \in Seq(Calls)
<1>1. Len(s) \in Nat /\ \A k \in 1..Len(s) : s[k] \in Calls
  BY LenProperties, ElementOfSeq
<1>2. Len(s) - 1 \in Nat /\ Len(s) \in 1..Len(s)
      /\ \A j \in 1..(Len(s) - 1) : j \in 1..Len(s)
  BY <1>1
<1>3. SwapRemove(s, i) \in [1..(Len(s) - 1) -> Calls]
  BY <1>1, <1>2 DEF SwapRemove
<1> QED
  BY <1>2, <1>3, SeqDef

(* The batch starts in the invariant.                                      *)
LEMMA InitIInv == Init => IInv
<1> SUFFICES ASSUME Init PROVE IInv
  OBVIOUS
<1>n. N \in Nat
  BY BatchAssumption
<1>0. <<>> \in Seq(Calls) /\ Range(<<>>) = {} /\ N + 1 \in Nat /\ 1 \in 1..(N + 1)
  <2>1. <<>> \in Seq(Calls)
    BY EmptySeq
  <2>2. Range(<<>>) = {}
    BY <2>1, RangeEmpty
  <2>3. N + 1 \in Nat /\ 1 \in 1..(N + 1)
    BY <1>n
  <2> QED
    BY <2>1, <2>2, <2>3
<1>1. TypeOK
  BY <1>0 DEF Init, TypeOK, Fates, Results
<1>2. Prepared
  <2>1. \A c \in Calls : ~ (c < 1)
    BY <1>n DEF Calls
  <2> QED
    BY <2>1 DEF Init, Prepared
<1>3. Quiet
  BY DEF Init, Quiet, Over
<1>4. Accounted
  <2>1. IsInjective(<<>>)
    BY DEF IsInjective
  <2>2. Ready = {}
    BY DEF Init, Ready, With
  <2> QED
    BY <1>0, <2>1, <2>2 DEF Init, Accounted, Waiting, Over
<1>5. Compatible
  BY <1>0 DEF Init, Compatible
<1>6. StopSeen
  BY DEF Init, StopSeen, Ready, With
<1>7. SkippedForAStop
  BY DEF Init, SkippedForAStop
<1> QED
  BY <1>1, <1>2, <1>3, <1>4, <1>5, <1>6, <1>7 DEF IInv

(* Every step of the pipeline keeps the invariant.                         *)
LEMMA NextIInv == IInv /\ [Next]_vars => IInv'
<1> SUFFICES ASSUME IInv, [Next]_vars PROVE IInv'
  OBVIOUS
<1>n. N \in Nat
  BY BatchAssumption
<1>i. TypeOK /\ Prepared /\ Quiet /\ Accounted /\ Compatible /\ StopSeen /\ SkippedForAStop
  BY DEF IInv
<1>t. /\ pending \in Seq(Calls) /\ held \in Seq(Calls) /\ out \in Seq(Calls)
      /\ sorted \in Seq(Calls) /\ fate \in [Calls -> Fates] /\ result \in [Calls -> Results]
      /\ plan \in [Calls -> Plans \cup {NoPlan}] /\ next \in 1..(N + 1)
  BY <1>i DEF TypeOK
<1>q. IsInjective(pending) /\ IsInjective(held)
  BY <1>i DEF Accounted
<1>c. \A c \in Calls : c \in Int /\ 1 <= c /\ c <= N /\ c + 1 \in 1..(N + 1)
  BY <1>n DEF Calls
<1>1. ASSUME NEW c \in Calls, Prepare(c) PROVE IInv'
  <2>1. fate' \in [Calls -> Fates] /\ \A d \in Calls : d # c => fate'[d] = fate[d]
    BY <1>1, <1>t DEF Prepare, Fates
  <2>2. /\ fate[c] = "none" /\ c = next /\ pc = "prepare" /\ pc' = "prepare"
        /\ fate'[c] \in {"blocked", "synthetic", "authorizing"}
        /\ (fate'[c] = "authorizing" /\ next' = next) \/ (fate'[c] # "authorizing" /\ next' = next + 1)
        /\ UNCHANGED <<cancel, pending, held, active, stopped, result, out, sorted>>
    BY <1>1, <1>t DEF Prepare, sched
  <2>3. Ready' = Ready
    BY <2>1, <2>2 DEF Ready, With
  <2>4. TypeOK'
    <3>1. plan' \in [Calls -> Plans \cup {NoPlan}]
      BY <1>1, <1>t DEF Prepare
    <3>2. next' \in 1..(N + 1)
      <4>1. next \in 1..(N + 1) /\ c + 1 \in 1..(N + 1) /\ c = next
        BY <1>t, <1>c, <2>2
      <4>2. next' = next \/ next' = c + 1
        BY <2>2
      <4> QED
        BY <4>1, <4>2
    <3> QED
      BY <1>i, <2>1, <2>2, <3>1, <3>2 DEF TypeOK
  <2>5. Prepared'
    <3> SUFFICES ASSUME NEW d \in Calls
                 PROVE  /\ fate'[d] = "authorizing" => d = next'
                        /\ d > next' => fate'[d] = "none"
                        /\ result'[d] = "none" /\ (d < next' => fate'[d] # "none")
      BY <2>2 DEF Prepared
    <3>1. /\ fate[d] = "authorizing" => d = next
          /\ d > next => fate[d] = "none"
          /\ result[d] = "none" /\ (d < next => fate[d] # "none")
      BY <1>i, <2>2 DEF Prepared
    <3>2. c \in Int /\ d \in Int /\ (d > c + 1 => d > c) /\ (d < c + 1 => d < c \/ d = c)
          /\ ~ (c > c) /\ ~ (c > c + 1)
      BY <1>c
    <3> QED
      BY <2>1, <2>2, <3>1, <3>2
  <2>6. Quiet'
    BY <1>i, <2>2, <2>3 DEF Quiet, Over
  <2>7. Accounted'
    BY <1>i, <2>2, <2>3 DEF Accounted, Waiting, Over
  <2>8. Compatible'
    <3>1. active' = {} /\ held' = <<>>
      BY <1>i, <2>2 DEF Quiet
    <3> QED
      BY <3>1, <2>2, <1>t, RangeEmpty DEF Compatible
  <2>9. StopSeen' /\ SkippedForAStop'
    <3>1. \A d \in Calls : result[d] = "none"
      BY <1>i, <2>2 DEF Prepared
    <3>2. ~ stopped
      BY <1>i, <2>2 DEF Quiet
    <3>3. \A d \in Ready : d \in Calls
      BY DEF Ready, With
    <3> QED
      BY <2>2, <2>3, <3>1, <3>2, <3>3 DEF StopSeen, SkippedForAStop
  <2> QED
    BY <2>4, <2>5, <2>6, <2>7, <2>8, <2>9 DEF IInv
<1>2. ASSUME NEW c \in Calls, Authorize(c) PROVE IInv'
  <2>1. fate' \in [Calls -> Fates] /\ \A d \in Calls : d # c => fate'[d] = fate[d]
    BY <1>2, <1>t DEF Authorize, Fates
  <2>2. /\ fate[c] = "authorizing" /\ pc = "prepare" /\ pc' = "prepare" /\ next' = next + 1
        /\ \/ fate'[c] = "ready" /\ pending' = Append(pending, c)
           \/ fate'[c] \in {"blocked", "synthetic"} /\ pending' = pending
        /\ UNCHANGED <<plan, cancel, held, active, stopped, result, out, sorted>>
    BY <1>2, <1>t DEF Authorize
  <2>3. c = next
    BY <1>i, <2>2 DEF Prepared
  <2>4. c \notin Ready /\ Ready' = (IF fate'[c] = "ready" THEN Ready \cup {c} ELSE Ready)
    BY <2>1, <2>2 DEF Ready, With
  <2>5. active = {} /\ ~ stopped /\ held = <<>> /\ out = <<>> /\ Range(<<>>) = {}
    <3>1. active = {} /\ ~ stopped /\ held = <<>> /\ out = <<>>
      BY <1>i, <2>2 DEF Quiet
    <3> QED
      BY <3>1, <1>t, RangeEmpty
  <2>6. c \notin Range(pending)
    BY <1>i, <2>4 DEF Accounted, Waiting
  <2>7. /\ pending' \in Seq(Calls) /\ IsInjective(pending')
        /\ Range(pending') = (IF fate'[c] = "ready" THEN Range(pending) \cup {c} ELSE Range(pending))
    <3>1. /\ Append(pending, c) \in Seq(Calls) /\ IsInjective(Append(pending, c))
          /\ Range(Append(pending, c)) = Range(pending) \cup {c}
      BY <1>t, <1>q, <2>6, AppendQueue
    <3> QED
      BY <1>t, <1>q, <2>2, <3>1
  <2>8. \A d \in Calls : result[d] = "none"
    BY <1>i, <2>2 DEF Prepared
  <2>a. \A d \in Ready' : d \in Calls
    BY DEF Ready, With
  <2>9. TypeOK'
    <3>1. next' \in 1..(N + 1)
      <4>1. c + 1 \in 1..(N + 1) /\ next' = c + 1
        BY <1>c, <2>2, <2>3
      <4> QED
        BY <4>1
    <3> QED
      BY <1>i, <2>1, <2>2, <2>7, <3>1 DEF TypeOK
  <2>10. Prepared'
    <3> SUFFICES ASSUME NEW d \in Calls
                 PROVE  /\ fate'[d] # "authorizing"
                        /\ d > next' => fate'[d] = "none"
                        /\ result'[d] = "none" /\ (d < next' => fate'[d] # "none")
      BY <2>2 DEF Prepared
    <3>1. /\ fate[d] = "authorizing" => d = next
          /\ d > next => fate[d] = "none"
          /\ result[d] = "none" /\ (d < next => fate[d] # "none")
      BY <1>i, <2>2 DEF Prepared
    <3>2. c \in Int /\ d \in Int /\ (d > c + 1 => d > c) /\ (d < c + 1 => d < c \/ d = c)
          /\ ~ (c > c) /\ ~ (c > c + 1)
      BY <1>c
    <3> QED
      BY <2>1, <2>2, <2>3, <3>1, <3>2
  <2>11. Quiet'
    BY <2>2, <2>5 DEF Quiet, Over
  <2>12. Accounted'
    BY <1>i, <1>q, <2>2, <2>4, <2>5, <2>7, <2>8, <2>a DEF Accounted, Waiting, Over
  <2>13. Compatible'
    BY <2>2, <2>5 DEF Compatible
  <2>14. StopSeen' /\ SkippedForAStop'
    BY <2>2, <2>5, <2>8, <2>a DEF StopSeen, SkippedForAStop
  <2> QED
    BY <2>9, <2>10, <2>11, <2>12, <2>13, <2>14 DEF IInv
<1>3. ASSUME EndPrepare PROVE IInv'
  <2>1. /\ pc = "prepare" /\ next = N + 1 /\ pc' = "early"
        /\ UNCHANGED <<next, fate, plan, cancel, pending, held, active, stopped, result, out, sorted>>
    BY <1>3 DEF EndPrepare, prep, sched
  <2>2. Ready' = Ready
    BY <2>1 DEF Ready, With
  <2>3. TypeOK'
    BY <1>i, <2>1 DEF TypeOK
  <2>4. Prepared'
    <3>1. \A d \in Calls : d < next /\ d # next
      BY <2>1, <1>c, <1>n
    <3> QED
      BY <1>i, <2>1, <3>1 DEF Prepared
  <2>5. Quiet' /\ Accounted' /\ StopSeen' /\ SkippedForAStop'
    BY <1>i, <2>1, <2>2 DEF Quiet, Accounted, Waiting, StopSeen, SkippedForAStop, Over, Ready
  <2>6. Compatible'
    BY <1>i, <2>1 DEF Compatible, Conflicts
  <2> QED
    BY <2>3, <2>4, <2>5, <2>6 DEF IInv
<1>4. ASSUME NEW c \in Calls, FinalizeEarly(c) PROVE IInv'
  <2>1. /\ pc = "early" /\ pc' = "early" /\ out' = Append(out, c)
        /\ result' = [result EXCEPT ![c] = "error"]
        /\ UNCHANGED <<next, fate, plan, cancel, pending, held, active, stopped, sorted>>
    BY <1>4 DEF FinalizeEarly, Finalize, prep, sched
  <2>2. fate[c] \in {"blocked", "synthetic"}
    BY <1>4 DEF FinalizeEarly, IsFirst, Unfinalized, With
  <2>3. Ready' = Ready /\ c \notin Ready /\ \A d \in Ready : d \in Calls
    BY <2>1, <2>2 DEF Ready, With
  <2>4. out' \in Seq(Calls) /\ Range(out') = Range(out) \cup {c}
    BY <1>t, <2>1, AppendRange
  <2>5. result' \in [Calls -> Results] /\ result'[c] = "error"
        /\ \A d \in Calls : d # c => result'[d] = result[d]
    BY <1>t, <2>1 DEF Results
  <2>6. TypeOK'
    BY <1>i, <2>1, <2>4, <2>5 DEF TypeOK
  <2>7. Prepared'
    BY <1>i, <2>1 DEF Prepared
  <2>8. Quiet' /\ Accounted'
    BY <1>i, <2>1, <2>3, <2>4, <2>5 DEF Quiet, Accounted, Waiting, Over
  <2>9. Compatible'
    BY <1>i, <2>1 DEF Compatible, Conflicts
  <2>10. StopSeen'
    BY <1>i, <2>1, <2>3, <2>5 DEF StopSeen, Over
  <2>11. SkippedForAStop'
    BY <1>i, <2>1, <2>3, <2>5 DEF SkippedForAStop, Ready
  <2> QED
    BY <2>6, <2>7, <2>8, <2>9, <2>10, <2>11 DEF IInv
<1>5. ASSUME StartScheduler PROVE IInv'
  <2>1. /\ pc = "early" /\ pc' \in {"serial", "scan"}
        /\ UNCHANGED <<next, fate, plan, cancel, pending, held, active, stopped, result, out, sorted>>
    BY <1>5 DEF StartScheduler, prep, sched
  <2>2. Ready' = Ready
    BY <2>1 DEF Ready, With
  <2>3. TypeOK' /\ Prepared'
    BY <1>i, <2>1 DEF TypeOK, Prepared
  <2>4. Quiet' /\ Accounted' /\ StopSeen' /\ SkippedForAStop'
    BY <1>i, <2>1, <2>2 DEF Quiet, Accounted, Waiting, StopSeen, SkippedForAStop, Over, Ready
  <2>5. Compatible'
    BY <1>i, <2>1 DEF Compatible, Conflicts, Quiet
  <2> QED
    BY <2>3, <2>4, <2>5 DEF IInv
<1>6. ASSUME Scan PROVE IInv'
  <2> DEFINE c == Head(pending)
             hit == \E d \in active : Conflicts(c, d)
  <2>1. /\ pc = "scan" /\ pc' = "scan" /\ ~ stopped /\ pending # <<>> /\ pending' = Tail(pending)
        /\ IF hit THEN held' = Append(held, c) /\ active' = active
                  ELSE active' = active \cup {c} /\ held' = held
        /\ UNCHANGED <<next, fate, plan, cancel, stopped, result, out, sorted>>
    BY <1>6 DEF Scan, prep
  <2>2. /\ c \in Range(pending) /\ c \in Calls /\ pending' \in Seq(Calls)
        /\ IsInjective(pending') /\ Range(pending') = Range(pending) \ {c}
    BY <1>t, <1>q, <2>1, PopFrontQueue
  <2> HIDE DEF c
  <2>3. c \notin Range(held) /\ c \notin active /\ c \in Ready
    BY <1>i, <2>2 DEF Accounted, Waiting
  <2>4. /\ Append(held, c) \in Seq(Calls) /\ IsInjective(Append(held, c))
        /\ Range(Append(held, c)) = Range(held) \cup {c}
    BY <1>t, <1>q, <2>2, <2>3, AppendQueue
  <2>5. /\ held' \in Seq(Calls) /\ IsInjective(held')
        /\ Range(held') = (IF hit THEN Range(held) \cup {c} ELSE Range(held))
        /\ active' = (IF hit THEN active ELSE active \cup {c})
    BY <1>t, <1>q, <2>1, <2>4
  <2> HIDE DEF hit
  <2>6. Ready' = Ready
    BY <2>1 DEF Ready, With
  <2>7. TypeOK'
    BY <1>i, <2>1, <2>2, <2>5 DEF TypeOK
  <2>8. Prepared' /\ Quiet' /\ StopSeen' /\ SkippedForAStop'
    BY <1>i, <2>1, <2>6 DEF Prepared, Quiet, StopSeen, SkippedForAStop, Over, Ready
  <2>9. Accounted'
    BY <1>i, <2>1, <2>2, <2>3, <2>5, <2>6 DEF Accounted, Waiting, Over
  <2>10. Compatible'
    <3>1. \A a, b \in Calls : Conflicts(a, b)' = Conflicts(a, b)
      BY <2>1 DEF Conflicts
    <3>2. active \subseteq Calls /\ Range(held) \subseteq Calls
      BY <1>i, <1>t, RangeEmpty DEF TypeOK
    <3>3. CASE hit
      BY <1>i, <2>1, <2>2, <2>5, <3>1, <3>2, <3>3 DEF Compatible, hit
    <3>4. CASE ~ hit
      <4>1. \A d \in active : ~ Conflicts(c, d) /\ ~ Conflicts(d, c)
        BY <2>2, <3>2, <3>4, ConflictsSymmetric DEF hit
      <4> QED
        BY <1>i, <2>1, <2>2, <2>5, <3>1, <3>2, <3>4, <4>1 DEF Compatible
    <3> QED
      BY <3>3, <3>4
  <2> QED
    BY <2>7, <2>8, <2>9, <2>10 DEF IInv
<1>7. ASSUME EndScan PROVE IInv'
  <2>1. /\ pc = "scan" /\ (stopped \/ pending = <<>>)
        /\ pending' = (IF stopped THEN pending ELSE held) /\ held' = <<>>
        /\ \/ active # {} /\ pc' = "wait" /\ result' = result
           \/ /\ active = {} /\ pc' = "late"
              /\ result' = [c \in Calls |-> IF c \in Range(pending') THEN "unstarted" ELSE result[c]]
        /\ UNCHANGED <<next, fate, plan, cancel, active, stopped, out, sorted>>
    BY <1>7 DEF EndScan, prep
  <2>2. <<>> \in Seq(Calls) /\ Range(<<>>) = {} /\ IsInjective(<<>>)
    <3>1. <<>> \in Seq(Calls)
      BY EmptySeq
    <3>2. Range(<<>>) = {}
      BY <3>1, RangeEmpty
    <3>3. IsInjective(<<>>)
      BY DEF IsInjective
    <3> QED
      BY <3>1, <3>2, <3>3
  <2>3. stopped => held = <<>>
    BY <1>i DEF Quiet
  <2>4. /\ pending' \in Seq(Calls) /\ IsInjective(pending')
        /\ Range(pending') = Waiting /\ Range(held') = {} /\ Waiting' = Waiting
    BY <1>t, <1>q, <2>1, <2>2, <2>3 DEF Waiting
  <2>5. Ready' = Ready /\ \A d \in Ready : d \in Calls
    BY <2>1 DEF Ready, With
  <2>6. CASE active # {}
    <3>1. pc' = "wait" /\ result' = result
      BY <2>1, <2>6
    <3>2. TypeOK' /\ Prepared' /\ Quiet'
      BY <1>i, <2>1, <2>2, <2>4, <3>1 DEF TypeOK, Prepared, Quiet, Over
    <3>3. Accounted'
      BY <1>i, <2>1, <2>2, <2>4, <2>5, <3>1 DEF Accounted, Over
    <3>4. Compatible'
      BY <1>i, <2>1, <2>4, <3>1 DEF Compatible, Conflicts
    <3>5. StopSeen' /\ SkippedForAStop'
      BY <1>i, <2>1, <2>5, <3>1 DEF StopSeen, SkippedForAStop, Over, Ready
    <3> QED
      BY <3>2, <3>3, <3>4, <3>5 DEF IInv
  <2>7. CASE active = {}
    <3>1. pc' = "late" /\ result' = [c \in Calls |-> IF c \in Waiting THEN "unstarted" ELSE result[c]]
      BY <2>1, <2>4, <2>7
    <3>2. \A h \in Range(held) : FALSE
      BY <1>i, <2>7 DEF Compatible
    <3>3. Waiting # {} => stopped
      BY <2>1, <2>2, <3>2 DEF Waiting
    <3>4. TypeOK' /\ Prepared'
      BY <1>i, <1>t, <2>1, <2>2, <2>4, <3>1 DEF TypeOK, Prepared, Results
    <3>5. Quiet'
      BY <1>i, <2>1, <2>2, <2>5, <2>7, <3>1 DEF Quiet, Accounted, Over
    <3>6. Accounted'
      BY <1>i, <2>1, <2>2, <2>4, <2>5, <3>1 DEF Accounted, Over
    <3>7. Compatible'
      BY <2>1, <2>4, <2>7, <3>1 DEF Compatible
    <3>8. StopSeen'
      BY <1>i, <2>5, <3>1 DEF StopSeen, Over
    <3>9. SkippedForAStop'
      <4>1. \A d \in Calls : result'[d] \in {"skipped", "unstarted"} =>
              d \in Waiting \/ (result[d] = result'[d])
        BY <3>1
      <4>2. \A d \in Ready : result[d] \notin {"none"} => result'[d] = result[d]
        BY <1>i, <2>1, <2>5, <3>1 DEF Accounted, Over
      <4>3. stopped => \E d \in Ready : plan[d].stop /\ result[d] \in {"output", "panic"}
        BY <1>i, <2>1 DEF StopSeen, Over
      <4> QED
        BY <1>i, <2>1, <2>5, <3>3, <4>1, <4>2, <4>3 DEF SkippedForAStop, Ready
    <3> QED
      BY <3>4, <3>5, <3>6, <3>7, <3>8, <3>9 DEF IInv
  <2> QED
    BY <2>6, <2>7
<1>8. ASSUME NEW c \in Calls, TaskEnds(c) \/ SerialEnds(c) PROVE IInv'
  <2>1. /\ (pc = "wait" /\ pc' = "scan") \/ (pc = "serial" /\ pc' = "serial")
        /\ c \in active /\ active' = active \ {c}
        /\ result'[c] \in {"output", "panic"} /\ result' \in [Calls -> Results]
        /\ \A d \in Calls : d # c => result'[d] = result[d]
        /\ stopped' = (stopped \/ plan[c].stop)
        /\ UNCHANGED <<next, fate, plan, cancel, pending, held, out, sorted>>
    BY <1>8, <1>t DEF TaskEnds, SerialEnds, StopAfter, prep, Results
  <2>2. c \in Ready /\ Ready' = Ready /\ (\A d \in Ready : d \in Calls) /\ Waiting' = Waiting
        /\ c \notin Waiting
    BY <1>i, <2>1 DEF Accounted, Ready, With, Waiting
  <2>3. result[c] = "none"
    BY <1>i, <2>1, <2>2 DEF Accounted, Over
  <2>4. plan[c].stop \in BOOLEAN
    BY <1>i, PlanAccesses
  <2>5. TypeOK'
    BY <1>i, <2>1, <2>4 DEF TypeOK
  <2>6. Prepared'
    BY <1>i, <2>1 DEF Prepared
  <2>7. Quiet'
    BY <1>i, <2>1 DEF Quiet, Over
  <2>8. Accounted'
    BY <1>i, <2>1, <2>2 DEF Accounted, Over
  <2>9. Compatible'
    <3>1. held = <<>>
      BY <1>i, <2>1 DEF Quiet
    <3>2. Range(held) = {}
      BY <1>t, <3>1, RangeEmpty
    <3> QED
      BY <1>i, <2>1, <3>2 DEF Compatible, Conflicts
  <2>10. StopSeen'
    <3>1. \A d \in Ready : result'[d] \in {"output", "panic"} <=> d = c \/ result[d] \in {"output", "panic"}
      BY <2>1, <2>2
    <3>2. stopped <=> \E d \in Ready : plan[d].stop /\ result[d] \in {"output", "panic"}
      BY <1>i, <2>1 DEF StopSeen, Over
    <3>3. stopped' <=> \E d \in Ready : plan[d].stop /\ result'[d] \in {"output", "panic"}
      BY <2>1, <2>2, <3>1, <3>2
    <3>4. \A d \in Calls : result'[d] \in {"output", "panic"} => d \in Ready
      BY <1>i, <2>1, <2>2 DEF StopSeen
    <3> QED
      BY <2>1, <2>2, <3>3, <3>4 DEF StopSeen
  <2>11. SkippedForAStop'
    BY <1>i, <2>1, <2>2, <2>3 DEF SkippedForAStop, Ready
  <2> QED
    BY <2>5, <2>6, <2>7, <2>8, <2>9, <2>10, <2>11 DEF IInv
<1>9. ASSUME SerialStart PROVE IInv'
  <2> DEFINE c == Head(pending)
  <2>1. /\ pc = "serial" /\ pc' = "serial" /\ active = {} /\ pending # <<>> /\ pending' = Tail(pending)
        /\ \/ stopped /\ result' = [result EXCEPT ![c] = "skipped"] /\ active' = {}
           \/ ~ stopped /\ active' = {c} /\ result' = result
        /\ UNCHANGED <<next, fate, plan, cancel, held, stopped, out, sorted>>
    BY <1>9 DEF SerialStart, prep
  <2>2. /\ c \in Range(pending) /\ c \in Calls /\ pending' \in Seq(Calls)
        /\ IsInjective(pending') /\ Range(pending') = Range(pending) \ {c}
    BY <1>t, <1>q, <2>1, PopFrontQueue
  <2> HIDE DEF c
  <2>3. c \in Ready /\ Ready' = Ready /\ (\A d \in Ready : d \in Calls) /\ c \notin Range(held)
    BY <1>i, <2>1, <2>2 DEF Accounted, Ready, With, Waiting
  <2>4. held = <<>> /\ Range(held) = {}
    <3>1. held = <<>>
      BY <1>i, <2>1 DEF Quiet
    <3> QED
      BY <1>t, <3>1, RangeEmpty
  <2>5. result[c] = "none"
    BY <1>i, <2>1, <2>2, <2>3 DEF Accounted, Over, Waiting
  <2>6. CASE stopped
    <3>1. active' = {} /\ result' \in [Calls -> Results] /\ result'[c] = "skipped"
          /\ \A d \in Calls : d # c => result'[d] = result[d]
      BY <1>t, <2>1, <2>2, <2>6 DEF Results
    <3>2. TypeOK' /\ Prepared' /\ Quiet'
      BY <1>i, <2>1, <2>2, <2>4, <3>1 DEF TypeOK, Prepared, Quiet, Over
    <3>3. Accounted'
      BY <1>i, <2>1, <2>2, <2>3, <2>4, <3>1 DEF Accounted, Over, Waiting
    <3>4. Compatible'
      BY <2>1, <2>4, <3>1 DEF Compatible
    <3>5. StopSeen'
      <4>1. \A d \in Calls : result'[d] \in {"output", "panic"} <=> result[d] \in {"output", "panic"}
        BY <2>5, <3>1
      <4>2. stopped' <=> \E d \in Ready : plan[d].stop /\ result'[d] \in {"output", "panic"}
        BY <1>i, <2>1, <2>3, <4>1 DEF StopSeen, Over
      <4>3. \A d \in Calls : result'[d] \in {"output", "panic"} => d \in Ready
        BY <1>i, <4>1 DEF StopSeen
      <4> QED
        BY <2>1, <2>3, <4>2, <4>3 DEF StopSeen
    <3>6. SkippedForAStop'
      <4>1. PICK d \in Ready : plan[d].stop /\ result[d] \in {"output", "panic"}
        BY <1>i, <2>1, <2>6 DEF StopSeen, Over
      <4>2. plan'[d].stop /\ result'[d] \notin {"none", "skipped", "unstarted"} /\ d \in Ready'
        BY <2>1, <2>3, <2>5, <3>1, <4>1
      <4> QED
        BY <4>2 DEF SkippedForAStop, Ready
    <3> QED
      BY <3>2, <3>3, <3>4, <3>5, <3>6 DEF IInv
  <2>7. CASE ~ stopped
    <3>1. active' = {c} /\ result' = result
      BY <2>1, <2>7
    <3>2. TypeOK' /\ Prepared' /\ Quiet'
      BY <1>i, <2>1, <2>2, <2>4, <3>1 DEF TypeOK, Prepared, Quiet, Over
    <3>3. Accounted'
      BY <1>i, <2>1, <2>2, <2>3, <2>4, <3>1 DEF Accounted, Over, Waiting
    <3>4. Compatible'
      BY <2>1, <2>4, <3>1 DEF Compatible
    <3>5. StopSeen' /\ SkippedForAStop'
      BY <1>i, <2>1, <2>3, <3>1 DEF StopSeen, SkippedForAStop, Over, Ready
    <3> QED
      BY <3>2, <3>3, <3>4, <3>5 DEF IInv
  <2> QED
    BY <2>6, <2>7
<1>10. ASSUME EndSerial \/ EndLate PROVE IInv'
  <2>1. /\ \/ pc = "serial" /\ active = {} /\ pending = <<>> /\ pc' = "late"
           \/ pc = "late" /\ pc' = "sort"
        /\ UNCHANGED <<next, fate, plan, cancel, pending, held, active, stopped, result, out, sorted>>
    BY <1>10 DEF EndSerial, EndLate, prep, sched
  <2>2. Ready' = Ready
    BY <2>1 DEF Ready, With
  <2>3. pc = "serial" => Waiting = {}
    <3>1. pc = "serial" => held = <<>>
      BY <1>i DEF Quiet
    <3> QED
      BY <1>t, <2>1, <3>1, RangeEmpty DEF Waiting
  <2>4. TypeOK' /\ Prepared' /\ Compatible' /\ StopSeen' /\ SkippedForAStop'
    <3>1. TypeOK' /\ Prepared'
      BY <1>i, <2>1 DEF TypeOK, Prepared
    <3>2. Compatible'
      BY <1>i, <2>1 DEF Compatible, Conflicts
    <3>3. StopSeen' /\ SkippedForAStop'
      BY <1>i, <2>1, <2>2 DEF StopSeen, SkippedForAStop, Over, Ready
    <3> QED
      BY <3>1, <3>2, <3>3
  <2>5. Quiet' /\ Accounted'
    BY <1>i, <2>1, <2>2, <2>3 DEF Quiet, Accounted, Waiting, Over
  <2> QED
    BY <2>4, <2>5 DEF IInv
<1>11. ASSUME NEW c \in Calls, FinalizeLate(c) PROVE IInv'
  <2>1. /\ pc = "late" /\ pc' = "late" /\ out' = Append(out, c)
        /\ result' \in [Calls -> Results] /\ (result'[c] = "error" \/ result'[c] = result[c])
        /\ \A d \in Calls : d # c => result'[d] = result[d]
        /\ UNCHANGED <<next, fate, plan, cancel, pending, held, active, stopped, sorted>>
    BY <1>11, <1>t DEF FinalizeLate, Finalize, prep, sched, Results
  <2>2. Ready' = Ready /\ \A d \in Ready : d \in Calls
    BY <2>1 DEF Ready, With
  <2>3. out' \in Seq(Calls)
    BY <1>t, <2>1, AppendRange
  <2>4. TypeOK' /\ Prepared'
    BY <1>i, <2>1, <2>3 DEF TypeOK, Prepared
  <2>5. Quiet' /\ Accounted'
    BY <1>i, <2>1, <2>2 DEF Quiet, Accounted, Waiting, Over
  <2>6. Compatible'
    BY <1>i, <2>1 DEF Compatible, Conflicts
  <2>7. StopSeen'
    BY <1>i, <2>1, <2>2 DEF StopSeen, Over
  <2>8. SkippedForAStop'
    BY <1>i, <2>1, <2>2 DEF SkippedForAStop, Ready
  <2> QED
    BY <2>4, <2>5, <2>6, <2>7, <2>8 DEF IInv
<1>12. ASSUME (\E i \in 1..Len(out) : SortStep(i)) \/ EndSort PROVE IInv'
  <2>1. /\ pc = "sort" /\ pc' \in {"sort", "done"}
        /\ UNCHANGED <<next, fate, plan, cancel, pending, held, active, stopped, result>>
    BY <1>12 DEF SortStep, EndSort, prep, sched
  <2>2. out' \in Seq(Calls) /\ sorted' \in Seq(Calls)
    <3>1. ASSUME NEW i \in 1..Len(out), SortStep(i) PROVE out' \in Seq(Calls) /\ sorted' \in Seq(Calls)
      <4>1. sorted' = Append(sorted, out[i]) /\ out' = SwapRemove(out, i)
        BY <3>1 DEF SortStep
      <4>2. out[i] \in Calls
        BY <1>t, ElementOfSeq
      <4> QED
        BY <1>t, <4>1, <4>2, AppendRange, SwapRemoveType
    <3>2. ASSUME EndSort PROVE out' \in Seq(Calls) /\ sorted' \in Seq(Calls)
      BY <1>t, <3>2, ConcatProperties, EmptySeq DEF EndSort
    <3> QED
      BY <1>12, <3>1, <3>2
  <2>3. Ready' = Ready
    BY <2>1 DEF Ready, With
  <2>4. TypeOK' /\ Prepared'
    BY <1>i, <2>1, <2>2 DEF TypeOK, Prepared
  <2>5. Quiet' /\ Accounted' /\ StopSeen' /\ SkippedForAStop'
    BY <1>i, <2>1, <2>3 DEF Quiet, Accounted, Waiting, StopSeen, SkippedForAStop, Over, Ready
  <2>6. Compatible'
    BY <1>i, <2>1 DEF Compatible, Conflicts
  <2> QED
    BY <2>4, <2>5, <2>6 DEF IInv
<1>13. ASSUME Cancel \/ UNCHANGED vars PROVE IInv'
  <2>1. /\ cancel' \in BOOLEAN
        /\ UNCHANGED <<pc, next, fate, plan, pending, held, active, stopped, result, out, sorted>>
    BY <1>13, <1>i DEF Cancel, prep, sched, vars, TypeOK
  <2>2. Ready' = Ready
    BY <2>1 DEF Ready, With
  <2>3. TypeOK' /\ Prepared'
    BY <1>i, <2>1 DEF TypeOK, Prepared
  <2>4. Quiet' /\ Accounted' /\ StopSeen' /\ SkippedForAStop'
    BY <1>i, <2>1, <2>2 DEF Quiet, Accounted, Waiting, StopSeen, SkippedForAStop, Over, Ready
  <2>5. Compatible'
    BY <1>i, <2>1 DEF Compatible, Conflicts
  <2> QED
    BY <2>3, <2>4, <2>5 DEF IInv
<1> QED
  BY <1>1, <1>2, <1>3, <1>4, <1>5, <1>6, <1>7, <1>8, <1>9, <1>10, <1>11, <1>12, <1>13
     DEF Next, Pipeline, Returned

(* The pipeline's variables keep their types (run_tool_batch).             *)
THEOREM BatchTypeCorrect == Spec => []TypeOK
  BY InitIInv, NextIInv, PTL DEF Spec, IInv

(* Tools that run together never have one writing what another touches,    *)
(* for every batch, every set of plans and every path.                     *)
THEOREM ToolsNeverRace == Spec => []NoWriteRace
<1>1. IInv => NoWriteRace
  <2> SUFFICES ASSUME IInv, NEW c \in active, NEW d \in active, c # d, NEW x \in Places,
                      WritesTo(c, x), Touches(d, x)
               PROVE  FALSE
    BY DEF NoWriteRace
  <2>1. c \in Calls /\ d \in Calls /\ TypeOK
    BY DEF IInv, TypeOK
  <2>2. Conflicts(c, d)
    BY <2>1, ConflictIsComplete
  <2> QED
    BY <2>2 DEF IInv, Compatible
<1> QED
  BY <1>1, InitIInv, NextIInv, PTL DEF Spec

(* A ready call is left unexecuted only when a call that stops the batch   *)
(* was executed: the scheduler never ends with a task it could have run.   *)
THEOREM NoSchedulerAnomaly == Spec => []SkippedForAStop
  BY InitIInv, NextIInv, PTL DEF Spec, IInv

(* What a step may start: only the two starting actions add an active      *)
(* call, and what they add is the head of the pending queue, not stopped.  *)
LEMMA OnlyHeadStarts ==
    ASSUME IInv, [Next]_vars, NEW c \in active' \ active
    PROVE  c \in Range(pending) /\ ~ stopped /\ pc \in {"scan", "serial"}
<1>p. TypeOK /\ pending \in Seq(Calls) /\ IsInjective(pending)
  BY DEF IInv, TypeOK, Accounted
<1>1. CASE Scan
  <2>1. pending # <<>> /\ c = Head(pending) /\ ~ stopped /\ pc = "scan"
    BY <1>1 DEF Scan
  <2> QED
    BY <1>p, <2>1, PopFrontQueue
<1>2. CASE SerialStart
  <2>1. pending # <<>> /\ c = Head(pending) /\ ~ stopped /\ pc = "serial"
    BY <1>2 DEF SerialStart
  <2> QED
    BY <1>p, <2>1, PopFrontQueue
<1>3. CASE ~ Scan /\ ~ SerialStart
  <2>1. active' \subseteq active
    BY <1>3 DEF Next, Pipeline, Returned, Prepare, Authorize, EndPrepare, FinalizeEarly,
       StartScheduler, EndScan, TaskEnds, SerialEnds, EndSerial, FinalizeLate, EndLate,
       SortStep, EndSort, Cancel, vars, sched
  <2> QED
    BY <2>1
<1> QED
  BY <1>1, <1>2, <1>3

(* A call is executed at most once, and only when the gate authorized it.  *)
THEOREM CallsExecutedOnceAuthorized == Spec => ExecutedOnceAuthorized
<1>1. IInv /\ [Next]_vars =>
        [\A c \in active' \ active :
           fate[c] = "ready" /\ result[c] = "none" /\ c \notin Range(out)]_vars
  <2> SUFFICES ASSUME IInv, [Next]_vars, NEW c \in active' \ active
               PROVE  fate[c] = "ready" /\ result[c] = "none" /\ c \notin Range(out)
    OBVIOUS
  <2>1. c \in Range(pending) /\ pc \in {"scan", "serial"}
    BY OnlyHeadStarts
  <2>2. c \in Ready /\ c \in Waiting
    BY <2>1 DEF IInv, Accounted, Waiting
  <2>3. result[c] = "none" /\ c \notin Range(out)
    BY <2>1, <2>2 DEF IInv, Accounted, Over
  <2> QED
    BY <2>2, <2>3 DEF Ready, With
<1> QED
  BY <1>1, InitIInv, NextIInv, PTL DEF Spec, ExecutedOnceAuthorized

(* After a call that stops the batch has ended, nothing starts any more.   *)
THEOREM StopIsFinal == Spec => NothingStartsAfterStop
<1>1. IInv /\ [Next]_vars =>
        [(\E d \in Calls : plan[d].stop /\ result[d] \in {"output", "panic"})
           => active' \subseteq active]_vars
  <2> SUFFICES ASSUME IInv, [Next]_vars, NEW d \in Calls, plan[d].stop,
                      result[d] \in {"output", "panic"}, NEW c \in active' \ active
               PROVE  FALSE
    OBVIOUS
  <2>1. ~ stopped /\ pc \in {"scan", "serial"}
    BY OnlyHeadStarts
  <2>2. d \in Ready
    BY DEF IInv, StopSeen
  <2> QED
    BY <2>1, <2>2 DEF IInv, StopSeen, Over
<1> QED
  BY <1>1, InitIInv, NextIInv, PTL DEF Spec, NothingStartsAfterStop


-----------------------------------------------------------------------------
(***************************************************************************)
(* The results on their way back to provider order: each call has one      *)
(* entry in `out` or `sorted` once it was finalized, its result is there,  *)
(* and what is sorted so far has the ids of the first calls.               *)
(***************************************************************************)
Early == With("blocked") \cup With("synthetic")
Entries == Range(out) \cup Range(sorted)

Finalized ==
    /\ IsInjective(out) /\ IsInjective(sorted) /\ Range(out) \cap Range(sorted) = {}
    /\ pc \notin {"sort", "done"} => sorted = <<>>
    /\ pc \notin {"prepare", "early"} => Early \subseteq Entries
    /\ pc \in {"sort", "done"} => Ready \subseteq Entries
    /\ \A c \in Entries : result[c] # "none"
    /\ Len(sorted) <= N /\ \A i \in 1..Len(sorted) : Id[sorted[i]] = Id[i]
    /\ pc = "done" => Len(sorted) = N

(* swap_remove takes out one element and keeps the others, each once. *)
LEMMA SwapRemoveQueue ==
    ASSUME NEW s \in Seq(Calls), NEW i \in 1..Len(s), IsInjective(s)
    PROVE  /\ IsInjective(SwapRemove(s, i))
           /\ Range(SwapRemove(s, i)) = Range(s) \ {s[i]}
<1>1. PICK n \in Nat : n = Len(s)
  BY LenProperties
<1>2. DOMAIN s = 1..n /\ i \in 1..n /\ n \in 1..n
  BY <1>1, LenProperties
<1>3. PICK r : r = SwapRemove(s, i)
  OBVIOUS
<1>4. /\ DOMAIN r = 1..(n - 1)
      /\ \A j \in 1..(n - 1) : r[j] = IF j = i THEN s[n] ELSE s[j]
  BY <1>1, <1>3 DEF SwapRemove
<1>5. \A j, k \in 1..n : s[j] = s[k] => j = k
  BY <1>2 DEF IsInjective
<1>6. \A j \in 1..(n - 1) : j \in 1..n /\ j # n
  OBVIOUS
<1>7. IsInjective(r)
  <2> SUFFICES ASSUME NEW j \in 1..(n - 1), NEW k \in 1..(n - 1), r[j] = r[k] PROVE j = k
    BY <1>4 DEF IsInjective
  <2>1. j \in 1..n /\ k \in 1..n /\ j # n /\ k # n
    BY <1>6
  <2> QED
    BY <1>2, <1>4, <1>5, <2>1
<1>8. ASSUME NEW j \in 1..(n - 1) PROVE r[j] \in Range(s) \ {s[i]}
  <2>1. j \in 1..n /\ j # n
    BY <1>6
  <2>2. CASE j = i
    BY <1>2, <1>4, <1>5, <2>1, <2>2 DEF Range
  <2>3. CASE j # i
    BY <1>2, <1>4, <1>5, <2>1, <2>3 DEF Range
  <2> QED
    BY <2>2, <2>3
<1>9. ASSUME NEW k \in 1..n, k # i PROVE s[k] \in Range(r)
  <2>1. CASE k = n
    <3>1. i \in 1..(n - 1)
      BY <1>2, <1>9, <2>1
    <3>2. r[i] = s[k]
      BY <1>4, <2>1, <3>1
    <3> QED
      BY <1>4, <3>1, <3>2 DEF Range
  <2>2. CASE k # n
    <3>1. k \in 1..(n - 1)
      BY <1>9, <2>2
    <3>2. r[k] = s[k]
      BY <1>4, <1>9, <3>1
    <3> QED
      BY <1>4, <3>1, <3>2 DEF Range
  <2> QED
    BY <2>1, <2>2
<1>10. Range(r) = Range(s) \ {s[i]}
  <2>1. Range(r) \subseteq Range(s) \ {s[i]}
    BY <1>4, <1>8 DEF Range
  <2>2. Range(s) \ {s[i]} \subseteq Range(r)
    BY <1>2, <1>9 DEF Range
  <2> QED
    BY <2>1, <2>2
<1> QED
  BY <1>3, <1>7, <1>10

(* A list of N calls without repetition names every call. *)
LEMMA AllNamed ==
    ASSUME NEW s \in Seq(Calls), IsInjective(s), Len(s) = N
    PROVE  Range(s) = Calls
<1>1. N \in Nat /\ IsFiniteSet(Calls)
  <2>1. N \in Nat
    BY BatchAssumption
  <2>2. N \in Int /\ 1 \in Int
    BY <2>1
  <2> QED
    BY <2>1, <2>2, FS_Interval DEF Calls
<1>2. s \in [Calls -> Calls] /\ DOMAIN s = Calls
  BY LenProperties, ElementOfSeq DEF Calls
<1>3. s \in Injection(Calls, Calls)
  BY <1>2 DEF Injection, IsInjective
<1>4. s \in Surjection(Calls, Calls)
  BY <1>1, <1>3, FS_Injection
<1>5. \A c \in Calls : \E d \in Calls : s[d] = c
  BY <1>4 DEF Surjection
<1> QED
  BY <1>2, <1>5 DEF Range

LEMMA InitFinalized == Init => Finalized
<1> SUFFICES ASSUME Init PROVE Finalized
  OBVIOUS
<1>1. Range(<<>>) = {} /\ IsInjective(<<>>) /\ Len(<<>>) = 0 /\ N \in Nat
  <2>1. <<>> \in Seq(Calls) /\ Len(<<>>) = 0
    BY EmptySeq
  <2>2. Range(<<>>) = {}
    BY <2>1, RangeEmpty
  <2>3. IsInjective(<<>>)
    BY DEF IsInjective
  <2>4. N \in Nat
    BY BatchAssumption
  <2> QED
    BY <2>1, <2>2, <2>3, <2>4
<1> QED
  BY <1>1 DEF Init, Finalized, Entries


LEMMA NextFinalized == IInv /\ Finalized /\ [Next]_vars => Finalized'
<1> SUFFICES ASSUME IInv, Finalized, [Next]_vars PROVE Finalized'
  OBVIOUS
<1>n. N \in Nat
  BY BatchAssumption
<1>t. /\ out \in Seq(Calls) /\ sorted \in Seq(Calls) /\ result \in [Calls -> Results]
      /\ fate \in [Calls -> Fates]
  BY DEF IInv, TypeOK
<1>r. Range(out) \subseteq Calls /\ Range(sorted) \subseteq Calls /\ Range(<<>>) = {}
  <2>1. <<>> \in Seq(Calls)
    BY EmptySeq
  <2> QED
    BY <1>t, <2>1, RangeEmpty
<1>e. Entries \subseteq Calls
  BY <1>r DEF Entries
<1>1. ASSUME (\E c \in Calls : Prepare(c) \/ Authorize(c)) \/ EndPrepare PROVE Finalized'
  <2>1. pc = "prepare" /\ pc' \in {"prepare", "early"} /\ UNCHANGED <<result, out, sorted>>
    BY <1>1 DEF Prepare, Authorize, EndPrepare
  <2> QED
    BY <2>1 DEF Finalized, Entries
<1>2. ASSUME NEW c \in Calls, FinalizeEarly(c) \/ FinalizeLate(c) PROVE Finalized'
  <2>1. /\ pc \in {"early", "late"} /\ pc' = pc /\ out' = Append(out, c) /\ c \notin Range(out)
        /\ UNCHANGED <<fate, sorted>>
        /\ \A d \in Calls : d # c => result'[d] = result[d]
    BY <1>2, <1>t DEF FinalizeEarly, FinalizeLate, Finalize, IsFirst, Unfinalized, prep
  <2>2. result'[c] # "none"
    <3>1. CASE FinalizeEarly(c)
      BY <1>t, <3>1 DEF FinalizeEarly, Finalize
    <3>2. CASE FinalizeLate(c)
      <4>1. result[c] # "none"
        BY <3>2 DEF FinalizeLate, IsFirst, Unfinalized, IInv, Quiet, Over, Ready
      <4> QED
        BY <1>t, <3>2, <4>1 DEF FinalizeLate, Finalize
    <3> QED
      BY <1>2, <3>1, <3>2
  <2>3. IsInjective(Append(out, c)) /\ Range(Append(out, c)) = Range(out) \cup {c}
    BY <1>t, <2>1, AppendQueue DEF Finalized
  <2>4. sorted = <<>> /\ Range(sorted) = {}
    BY <1>r, <2>1 DEF Finalized
  <2>5. Entries' = Entries \cup {c}
    BY <2>1, <2>3, <2>4 DEF Entries
  <2>6. Early' = Early /\ Ready' = Ready
    BY <2>1 DEF Early, Ready, With
  <2>7. \A d \in Entries' : result'[d] # "none"
    BY <1>e, <2>1, <2>2, <2>5 DEF Finalized
  <2> QED
    BY <2>1, <2>3, <2>4, <2>5, <2>6, <2>7 DEF Finalized
<1>3. ASSUME StartScheduler PROVE Finalized'
  <2>1. /\ pc = "early" /\ pc' \in {"serial", "scan"} /\ UNCHANGED <<fate, result, out, sorted>>
        /\ Unfinalized(With("blocked") \cup With("synthetic")) = {}
    BY <1>3 DEF StartScheduler, prep
  <2>2. Early \subseteq Entries
    BY <2>1 DEF Unfinalized, Early, Entries
  <2>3. Early' = Early /\ Entries' = Entries
    BY <2>1 DEF Early, With, Entries
  <2> QED
    BY <2>1, <2>2, <2>3 DEF Finalized
<1>4. ASSUME \/ Scan \/ EndScan \/ SerialStart \/ EndSerial
             \/ \E c \in Calls : TaskEnds(c) \/ SerialEnds(c)
      PROVE  Finalized'
  <2>1. /\ pc \in {"scan", "wait", "serial"} /\ pc' \in {"scan", "wait", "serial", "late"}
        /\ UNCHANGED <<fate, out, sorted>>
    BY <1>4 DEF Scan, EndScan, SerialStart, EndSerial, TaskEnds, SerialEnds, prep, sched
  <2>2. \A d \in Calls : result[d] # "none" => result'[d] # "none"
    <3>1. CASE Scan \/ EndSerial
      BY <3>1 DEF Scan, EndSerial
    <3>2. CASE EndScan
      BY <3>2 DEF EndScan
    <3>3. CASE SerialStart
      <4>1. result' = result \/ \E d : result' = [result EXCEPT ![d] = "skipped"]
        BY <3>3 DEF SerialStart
      <4> QED
        BY <1>t, <4>1
    <3>4. CASE \E c \in Calls : TaskEnds(c) \/ SerialEnds(c)
      BY <1>t, <3>4 DEF TaskEnds, SerialEnds
    <3> QED
      BY <1>4, <3>1, <3>2, <3>3, <3>4
  <2>3. Early' = Early /\ Entries' = Entries
    BY <2>1 DEF Early, With, Entries
  <2> QED
    BY <1>e, <2>1, <2>2, <2>3 DEF Finalized
<1>5. ASSUME EndLate PROVE Finalized'
  <2>1. /\ pc = "late" /\ pc' = "sort" /\ UNCHANGED <<fate, result, out, sorted>>
        /\ Unfinalized(With("ready")) = {}
    BY <1>5 DEF EndLate, prep
  <2>2. Ready \subseteq Entries
    BY <2>1 DEF Unfinalized, Ready, Entries
  <2>3. Early' = Early /\ Entries' = Entries /\ Ready' = Ready
    BY <2>1 DEF Early, Ready, With, Entries
  <2> QED
    BY <2>1, <2>2, <2>3 DEF Finalized
<1>6. ASSUME NEW i \in 1..Len(out), SortStep(i) PROVE Finalized'
  <2>1. /\ pc = "sort" /\ pc' = "sort" /\ UNCHANGED <<fate, result>>
        /\ Len(sorted) < N /\ Id[out[i]] = Id[Len(sorted) + 1]
        /\ sorted' = Append(sorted, out[i]) /\ out' = SwapRemove(out, i)
    BY <1>6 DEF SortStep, prep
  <2>2. out[i] \in Calls /\ out[i] \in Range(out)
    BY <1>t, ElementOfSeq, LenProperties DEF Range
  <2>3. out[i] \notin Range(sorted)
    BY <2>2 DEF Finalized
  <2>4. /\ IsInjective(sorted') /\ Range(sorted') = Range(sorted) \cup {out[i]}
    BY <1>t, <2>1, <2>2, <2>3, AppendQueue DEF Finalized
  <2>5. IsInjective(out') /\ Range(out') = Range(out) \ {out[i]}
    BY <1>t, <2>1, SwapRemoveQueue DEF Finalized
  <2>6. Entries' = Entries
    BY <2>2, <2>4, <2>5 DEF Entries
  <2>7. Early' = Early /\ Ready' = Ready
    BY <2>1 DEF Early, Ready, With
  <2>8. Range(out') \cap Range(sorted') = {}
    BY <2>4, <2>5 DEF Finalized
  <2>9. Len(sorted') <= N /\ \A j \in 1..Len(sorted') : Id[sorted'[j]] = Id[j]
    <3>1. PICK k \in Nat : k = Len(sorted)
      BY <1>t, LenProperties
    <3>2. /\ Len(sorted') = k + 1 /\ sorted'[k + 1] = out[i]
          /\ \A j \in 1..k : sorted'[j] = sorted[j]
      BY <1>t, <2>1, <2>2, <3>1, AppendProperties
    <3>3. \A j \in 1..(k + 1) : j \in 1..k \/ j = k + 1
      OBVIOUS
    <3>4. \A j \in 1..k : Id[sorted[j]] = Id[j]
      BY <3>1 DEF Finalized
    <3>5. Id[out[i]] = Id[k + 1]
      BY <2>1, <3>1
    <3>6. k + 1 <= N
      BY <1>n, <2>1, <3>1
    <3> QED
      BY <3>2, <3>3, <3>4, <3>5, <3>6
  <2> QED
    BY <2>1, <2>4, <2>5, <2>6, <2>7, <2>8, <2>9 DEF Finalized
<1>7. ASSUME EndSort PROVE Finalized'
  <2>1. /\ pc = "sort" /\ pc' = "done" /\ UNCHANGED <<fate, result>>
        /\ Len(sorted) = N /\ sorted' = sorted \o out /\ out' = <<>>
    BY <1>7 DEF EndSort, prep
  <2>2. Range(sorted) = Calls
    BY <1>t, <2>1, AllNamed DEF Finalized
  <2>3. Range(out) = {}
    BY <1>r, <2>2 DEF Finalized
  <2>4. out = <<>>
    BY <1>t, <2>3, RangeEmpty
  <2>5. sorted' = sorted /\ out' = out
    BY <1>t, <2>1, <2>4, ConcatEmptySeq
  <2>6. Early' = Early /\ Ready' = Ready /\ Entries' = Entries
    BY <2>1, <2>5 DEF Early, Ready, With, Entries
  <2> QED
    BY <2>1, <2>5, <2>6 DEF Finalized
<1>8. ASSUME Cancel \/ UNCHANGED vars PROVE Finalized'
  <2>1. UNCHANGED <<pc, fate, result, out, sorted>>
    BY <1>8 DEF Cancel, vars, prep
  <2>2. Early' = Early /\ Ready' = Ready /\ Entries' = Entries
    BY <2>1 DEF Early, Ready, With, Entries
  <2> QED
    BY <2>1, <2>2 DEF Finalized
<1> QED
  BY <1>1, <1>2, <1>3, <1>4, <1>5, <1>6, <1>7, <1>8 DEF Next, Pipeline, Returned

(* The step gets exactly one result for each call of the model's response, *)
(* in provider order (execute_tool_calls), however many calls there are    *)
(* and whatever became of them.                                            *)
THEOREM EveryCallAnswered == Spec => []OneResultPerCall
<1>1. IInv /\ Finalized => OneResultPerCall
  <2> SUFFICES ASSUME IInv, Finalized, pc = "done" PROVE OneResultPerCall
    BY DEF OneResultPerCall
  <2>1. sorted \in Seq(Calls) /\ Len(sorted) = N /\ IsInjective(sorted)
    BY DEF IInv, TypeOK, Finalized
  <2>2. Calls = 1..Len(sorted) /\ Range(sorted) = Calls
    BY <2>1, AllNamed DEF Calls
  <2>3. \A i \in Calls : result[i] # "none"
    BY <2>2 DEF Finalized, Entries
  <2>4. \A i \in Calls : Id[sorted[i]] = Id[i]
    BY <2>2 DEF Finalized
  <2> QED
    BY <2>1, <2>3, <2>4 DEF OneResultPerCall
<1> QED
  BY <1>1, InitIInv, NextIInv, InitFinalized, NextFinalized, PTL DEF Spec
=============================================================================
