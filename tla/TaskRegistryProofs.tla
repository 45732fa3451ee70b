------------------------- MODULE TaskRegistryProofs -------------------------
(***************************************************************************)
(* Proofs about the task registry: the capacity limit holds and a task     *)
(* terminates once, for any number of commands, callers and calls.         *)
(*                                                                         *)
(* A step is sound when its task has a row, and a step that takes a task   *)
(* out of the background set or announces its end is sound when the row is *)
(* terminal.  Everything an actor holds is sound, except what the runner   *)
(* of a command holds before its registration is complete (Shape).         *)
(***************************************************************************)
EXTENDS TaskRegistry, QueueLemmas, FiniteSetTheorems, TLAPS

Outcomes == {"completed", "failed", "stopped"}
PlainKinds == {"attach", "fire", "check", "lookup", "convert", "back", "resolve",
               "unsignal", "unback", "unarm", "started", "terminated", "stamp",
               "fingerprint", "kill"}
StatusKinds == {"flip", "settle"}
CopyKinds == {"persist", "dispose"}
GroupKinds == {"fireall", "await"}
ScanKinds == {"suppress", "scan"}
OutKinds == PlainKinds \cup StatusKinds \cup CopyKinds \cup GroupKinds \cup ScanKinds
EntryKinds == {"admit", "arm", "insert", "claim"}

Steps ==
    [do : PlainKinds, t : Tasks]
    \cup [do : StatusKinds, t : Tasks, to : Outcomes]
    \cup [do : CopyKinds, t : Tasks, copy : Rows]
    \cup [do : GroupKinds, of : SUBSET Tasks]
    \cup [do : ScanKinds]
EntrySteps == [do : EntryKinds, t : Tasks]

OneTask(s) == s.do \in PlainKinds \cup StatusKinds \cup CopyKinds

\* Sound with the rows r, and sound without announcing an end.
SoundIn(r, s) ==
    /\ OneTask(s) => r[s.t].status # "none"
    /\ s.do \in GroupKinds => \A t \in s.of : r[t].status # "none"
    /\ s.do \in {"unback", "terminated"} => Terminal(r[s.t])
SoundSteps(r) == {s \in Steps : SoundIn(r, s)}
QuietSteps(r) == {s \in SoundSteps(r) : s.do # "terminated"}

RunStates == {"idle", "exec", "background", "foreground", "handover", "continued",
              "ended", "lost"}
Active == {"exec", "background", "foreground", "handover", "continued"}

Typed ==
    /\ TypeOK
    /\ run \in [Tasks -> RunStates]
    /\ events \in [Tasks -> Seq({"started", "terminated"})]
    /\ todo \in [Actors -> Seq(Steps \cup EntrySteps)]

\* A command that was never started has no row, and what is on disk has one.
Fresh == \A t \in Tasks :
    /\ run[t] = "idle" => row[t].status = "none"
    /\ archive[t].status # "none" => row[t].status # "none"

E1(what, t) == [do |-> what, t |-> t]
\* Where the runner of a command is in its registration.
Registered(a) ==
    /\ todo[a] \in Seq(SoundSteps(row)) /\ bgLock # a
    /\ a \in Tasks /\ run[a] \in Active => Visible(a)
Entering(a) ==
    /\ a \in Tasks /\ run[a] = "exec" /\ row[a].status = "none"
    /\ \/ /\ a \in Background /\ bgLock # a
          /\ todo[a] = <<E1("admit", a), E1("attach", a)>>
       \/ /\ a \in Background /\ bgLock = a
          /\ todo[a] = <<E1("insert", a), E1("claim", a), E1("attach", a)>>
       \/ /\ a \in Foreground /\ bgLock # a
          /\ todo[a] = <<E1("arm", a), E1("insert", a)>>
       \/ /\ a \in Foreground /\ bgLock # a
          /\ todo[a] = <<E1("insert", a)>>
Claiming(a) ==
    /\ a \in Background /\ run[a] = "exec" /\ Visible(a) /\ bgLock = a
    /\ \E p \in Seq(SoundSteps(row)) : todo[a] = p \o <<E1("claim", a), E1("attach", a)>>

Shape == \A a \in Actors : Registered(a) \/ Entering(a) \/ Claiming(a)

\* The background commands the limit counts.
Live == {t \in Background : Running(t) /\ run[t] # "lost"}
Admitted ==
    /\ Live \ {bgLock} \subseteq background
    /\ MaxRunningTasks > 0 =>
          /\ Cardinality(Live) <= MaxRunningTasks
          /\ bgLock # Nobody => Cardinality(Live \ {bgLock}) < MaxRunningTasks

\* Step i of actor a publishes the end of t.
Announces(t, a, i) ==
    i \in DOMAIN todo[a] /\ todo[a][i].do = "terminated" /\ todo[a][i].t = t
\* The ends of t that were published.
Ends(t) == {i \in DOMAIN events[t] : events[t][i] = "terminated"}
Announced(t) == Ends(t) # {}
\* The end of a task is announced, or one actor is about to.
Ended(t) ==
    /\ \A a, b \in Actors : \A i \in DOMAIN todo[a], j \in DOMAIN todo[b] :
          Announces(t, a, i) /\ Announces(t, b, j) => a = b /\ i = j
    /\ \A i, j \in Ends(t) : i = j
    /\ \A a \in Actors : \A i \in DOMAIN todo[a] :
          Announces(t, a, i) => Terminal(row[t]) /\ ~Announced(t)
    /\ Announced(t) => Terminal(row[t])
    /\ run[t] # "lost" /\ Terminal(row[t]) =>
          Announced(t) \/ \E a \in Actors : \E i \in DOMAIN todo[a] : Announces(t, a, i)
Endings == \A t \in Tasks : Ended(t)

RegistryInv == Typed /\ Fresh /\ Shape /\ Admitted /\ Endings

-----------------------------------------------------------------------------
(* What a step carries. *)
LEMMA StepFields ==
    ASSUME NEW s \in Steps
    PROVE  /\ s.do \in OutKinds
           /\ OneTask(s) => s.t \in Tasks
           /\ s.do \in StatusKinds => s.to \in Outcomes
           /\ s.do \in CopyKinds => s.copy \in Rows
           /\ s.do \in GroupKinds => s.of \in SUBSET Tasks
BY DEF Steps, OneTask, OutKinds, PlainKinds, StatusKinds, CopyKinds, GroupKinds, ScanKinds

(* Calls made of sound steps. *)
LEMMA PlainIsQuiet ==
    ASSUME NEW r, NEW t \in Tasks, r[t].status # "none",
           NEW k \in PlainKinds, k # "terminated", k = "unback" => Terminal(r[t])
    PROVE  Do(k, t) \in Seq(QuietSteps(r))
<1> DEFINE s == [do |-> k, t |-> t]
<1>1. s \in Steps /\ s.do = k /\ s.t = t
  BY DEF Steps
<1>2. s.do \notin GroupKinds
  BY <1>1 DEF PlainKinds, GroupKinds
<1>3. SoundIn(r, s)
  BY <1>1, <1>2 DEF SoundIn
<1>4. s \in QuietSteps(r)
  BY <1>1, <1>3 DEF QuietSteps, SoundSteps
<1>5. Do(k, t) = <<s>>
  BY DEF Do
<1> HIDE DEF s
<1> QED
  BY <1>4, <1>5

LEMMA StatusIsQuiet ==
    ASSUME NEW r, NEW t \in Tasks, r[t].status # "none", NEW to \in Outcomes
    PROVE  /\ Transition(t, to) \in Seq(QuietSteps(r))
           /\ SettleRun(t, to) \in Seq(QuietSteps(r))
<1>1. ASSUME NEW k \in StatusKinds
      PROVE  <<[do |-> k, t |-> t, to |-> to]>> \in Seq(QuietSteps(r))
  <2> DEFINE s == [do |-> k, t |-> t, to |-> to]
  <2>1. s \in Steps /\ s.do = k /\ s.t = t
    BY DEF Steps
  <2>2. SoundIn(r, s) /\ s.do # "terminated"
    BY <2>1 DEF SoundIn, StatusKinds, GroupKinds
  <2>3. s \in QuietSteps(r)
    BY <2>1, <2>2 DEF QuietSteps, SoundSteps
  <2> HIDE DEF s
  <2>4. <<s>> \in Seq(QuietSteps(r))
    BY <2>3
  <2> QED
    BY <2>4 DEF s
<1> QED
  BY <1>1 DEF Transition, SettleRun, StatusKinds

LEMMA CopyIsQuiet ==
    ASSUME NEW r, NEW t \in Tasks, r[t].status # "none", NEW copy \in Rows
    PROVE  /\ Persist(t, copy) \in Seq(QuietSteps(r))
           /\ <<[do |-> "dispose", t |-> t, copy |-> copy]>> \in Seq(QuietSteps(r))
<1>1. ASSUME NEW k \in CopyKinds
      PROVE  <<[do |-> k, t |-> t, copy |-> copy]>> \in Seq(QuietSteps(r))
  <2> DEFINE s == [do |-> k, t |-> t, copy |-> copy]
  <2>1. s \in Steps /\ s.do = k /\ s.t = t
    BY DEF Steps
  <2>2. SoundIn(r, s) /\ s.do # "terminated"
    BY <2>1 DEF SoundIn, CopyKinds, GroupKinds
  <2>3. s \in QuietSteps(r)
    BY <2>1, <2>2 DEF QuietSteps, SoundSteps
  <2> HIDE DEF s
  <2>4. <<s>> \in Seq(QuietSteps(r))
    BY <2>3
  <2> QED
    BY <2>4 DEF s
<1> QED
  BY <1>1 DEF Persist, CopyKinds

LEMMA GroupIsQuiet ==
    ASSUME NEW r, NEW S \in SUBSET Tasks, \A t \in S : r[t].status # "none",
           NEW k \in GroupKinds
    PROVE  <<[do |-> k, of |-> S]>> \in Seq(QuietSteps(r))
<1> DEFINE s == [do |-> k, of |-> S]
<1>1. s \in Steps /\ s.do = k /\ s.of = S
  BY DEF Steps
<1>2. SoundIn(r, s) /\ s.do # "terminated"
  BY <1>1 DEF SoundIn, GroupKinds, OneTask, PlainKinds, StatusKinds, CopyKinds
<1>3. s \in QuietSteps(r)
  BY <1>1, <1>2 DEF QuietSteps, SoundSteps
<1> HIDE DEF s
<1>4. <<s>> \in Seq(QuietSteps(r))
  BY <1>3
<1> QED
  BY <1>4 DEF s

LEMMA StopIsQuiet ==
    ASSUME NEW r, NEW t \in Tasks, r[t].status # "none"
    PROVE  Stop(t) \in Seq(QuietSteps(r))
<1>1. Do("fire", t) \in Seq(QuietSteps(r))
  BY PlainIsQuiet DEF PlainKinds
<1>2. Transition(t, "stopped") \in Seq(QuietSteps(r))
  BY StatusIsQuiet DEF Outcomes
<1> QED
  BY <1>1, <1>2, ConcatProperties DEF Stop

(* A set of tasks in some order. *)
LEMMA SetToSeqType ==
    ASSUME NEW S \in SUBSET Tasks
    PROVE  /\ Cardinality(S) \in Nat
           /\ \A i \in 1..Cardinality(S) : SetToSeq(S)[i] \in S
<1>1. IsFiniteSet(S)
  BY RegistryAssumption, FS_Subset
<1>2. Cardinality(S) \in Nat /\ ExistsBijection(1..Cardinality(S), S)
  BY <1>1, FS_CardinalityType
<1>3. \E f \in [1..Cardinality(S) -> S] : IsInjective(f)
  BY <1>2 DEF ExistsBijection, Bijection, Injection, IsInjective, Surjection
<1>4. SetToSeq(S) \in [1..Cardinality(S) -> S]
  BY <1>3 DEF SetToSeq
<1> QED
  BY <1>2, <1>4

LEMMA StopEachIsQuiet ==
    ASSUME NEW r, NEW S \in SUBSET Tasks, \A t \in S : r[t].status # "none"
    PROVE  ForEach(S, Stop) \in Seq(QuietSteps(r))
<1> DEFINE N == Cardinality(S)
           e == [i \in 1..N |-> Stop(SetToSeq(S)[i])]
<1>1. N \in Nat /\ \A i \in 1..N : SetToSeq(S)[i] \in S
  BY SetToSeqType
<1>2. \A i \in 1..N : Stop(SetToSeq(S)[i]) \in Seq(QuietSteps(r))
  BY <1>1, StopIsQuiet
<1>3. e \in Seq(Seq(QuietSteps(r)))
  <2> HIDE DEF N
  <2> QED
    BY <1>1, <1>2
<1>4. ForEach(S, Stop) = FlattenSeq(e)
  BY DEF ForEach
<1> HIDE DEF e
<1> QED
  BY <1>3, <1>4, FlattenSeqType

LEMMA WriteEachIsQuiet ==
    ASSUME NEW r \in [Tasks -> Rows], NEW S \in SUBSET Tasks,
           \A t \in S : r[t].status # "none"
    PROVE  LET Write(t) == Persist(t, r[t])
           IN  ForEach(S, Write) \in Seq(QuietSteps(r))
<1> DEFINE N == Cardinality(S)
           e == [i \in 1..N |-> Persist(SetToSeq(S)[i], r[SetToSeq(S)[i]])]
<1>1. N \in Nat /\ \A i \in 1..N : SetToSeq(S)[i] \in S
  BY SetToSeqType
<1>2. \A i \in 1..N : e[i] \in Seq(QuietSteps(r))
  BY <1>1, CopyIsQuiet
<1>3. e \in Seq(Seq(QuietSteps(r)))
  <2>1. e = [i \in 1..N |-> e[i]]
    OBVIOUS
  <2> HIDE DEF N, e
  <2> QED
    BY <1>1, <1>2, <2>1
<1>4. (LET Write(t) == Persist(t, r[t]) IN ForEach(S, Write)) = FlattenSeq(e)
  BY DEF ForEach
<1> HIDE DEF e
<1> QED
  BY <1>3, <1>4, FlattenSeqType

-----------------------------------------------------------------------------
AllSteps == Steps \cup EntrySteps

(* The two steps that are left when a registration has its row. *)
LEMMA ClaimTail ==
    ASSUME NEW a \in Background
    PROVE  /\ <<E1("claim", a), E1("attach", a)>> \in Seq(AllSteps)
           /\ <<E1("claim", a), E1("attach", a)>> # <<>>
           /\ Head(<<E1("claim", a), E1("attach", a)>>) = E1("claim", a)
           /\ Tail(<<E1("claim", a), E1("attach", a)>>) = <<E1("attach", a)>>
           /\ E1("claim", a).do = "claim" /\ E1("claim", a).t = a
<1>1. E1("claim", a) \in AllSteps /\ E1("attach", a) \in AllSteps
  BY DEF AllSteps, EntrySteps, Steps, E1, EntryKinds, PlainKinds, Tasks
<1>2. E1("claim", a).do = "claim" /\ E1("claim", a).t = a
  BY DEF E1
<1> QED
  BY <1>1, <1>2

LEMMA SoundIsAll ==
    ASSUME NEW r, NEW p \in Seq(SoundSteps(r))
    PROVE  p \in Seq(AllSteps)
<1>1. SoundSteps(r) \subseteq AllSteps
  BY DEF SoundSteps, AllSteps
<1> QED
  BY <1>1, SeqMonotonic

LEMMA QuietIsSound ==
    ASSUME NEW r, NEW p \in Seq(QuietSteps(r))
    PROVE  p \in Seq(SoundSteps(r))
<1>1. QuietSteps(r) \subseteq SoundSteps(r)
  BY DEF QuietSteps
<1> QED
  BY <1>1, SeqMonotonic

\* A runner that waits for its claim, with other steps p before it.
ClaimingAfter(a, p) ==
    /\ a \in Background /\ run[a] = "exec" /\ Visible(a) /\ bgLock = a
    /\ p \in Seq(SoundSteps(row))
    /\ todo[a] = p \o <<E1("claim", a), E1("attach", a)>>

(* An actor at a step that is not of a registration is at a sound one. *)
LEMMA HeadIsSound ==
    ASSUME RegistryInv, NEW a \in Actors, todo[a] # <<>>, Head(todo[a]).do \in OutKinds
    PROVE  /\ Head(todo[a]) \in SoundSteps(row)
           /\ Registered(a) \/ \E p : p # <<>> /\ ClaimingAfter(a, p)
<1>0. Registered(a) \/ Entering(a) \/ Claiming(a)
  BY DEF RegistryInv, Shape
<1>1. CASE Registered(a)
  <2>1. Head(todo[a]) \in SoundSteps(row)
    BY <1>1, HeadTailProperties DEF Registered
  <2> QED
    BY <1>1, <2>1
<1>2. CASE Entering(a)
  <2>1. Head(todo[a]).do \in {"admit", "insert", "arm"}
    BY <1>2 DEF Entering, E1
  <2> QED
    BY <2>1 DEF OutKinds, PlainKinds, StatusKinds, CopyKinds, GroupKinds, ScanKinds
<1>3. CASE Claiming(a)
  <2>1. PICK p \in Seq(SoundSteps(row)) : todo[a] = p \o <<E1("claim", a), E1("attach", a)>>
    BY <1>3 DEF Claiming
  <2>2. a \in Background
    BY <1>3 DEF Claiming
  <2>3. p # <<>>
    <3>1. ASSUME p = <<>> PROVE FALSE
      <4>1. todo[a] = <<E1("claim", a), E1("attach", a)>>
        BY <2>1, <2>2, <3>1, ClaimTail, ConcatEmptySeq
      <4>2. Head(todo[a]).do = "claim"
        BY <2>2, <4>1, ClaimTail, ZenonT(30)
      <4> QED
        BY <4>2 DEF OutKinds, PlainKinds, StatusKinds, CopyKinds, GroupKinds, ScanKinds
    <3> QED
      BY <3>1
  <2>4. Head(todo[a]) = Head(p)
    BY <2>1, <2>2, <2>3, SoundIsAll, ClaimTail, HeadOfConcat
  <2>5. Head(p) \in SoundSteps(row)
    BY <2>3, HeadTailProperties
  <2>6. ClaimingAfter(a, p)
    BY <1>3, <2>1 DEF Claiming, ClaimingAfter
  <2> QED
    BY <2>3, <2>4, <2>5, <2>6
<1> QED
  BY <1>0, <1>1, <1>2, <1>3

\* Rows only move forward, and no row comes or goes.
RowsAdvance ==
    /\ row' \in [Tasks -> Rows]
    /\ \A t \in Tasks : /\ Visible(t) <=> row'[t].status # "none"
                        /\ Terminal(row[t]) => Terminal(row'[t])

LEMMA SoundStaysSound ==
    ASSUME \A t \in Tasks : /\ Visible(t) => row'[t].status # "none"
                            /\ Terminal(row[t]) => Terminal(row'[t])
    PROVE  SoundSteps(row) \subseteq SoundSteps(row')
<1> SUFFICES ASSUME NEW s \in Steps, SoundIn(row, s)
             PROVE  SoundIn(row', s)
  BY DEF SoundSteps
<1>1. OneTask(s) => s.t \in Tasks
  BY StepFields
<1>2. s.do \in {"unback", "terminated"} => OneTask(s)
  BY DEF OneTask, PlainKinds
<1>3. s.do \in GroupKinds => s.of \in SUBSET Tasks
  BY StepFields
<1> QED
  BY <1>1, <1>2, <1>3 DEF SoundIn, Visible

(* A step that is not of a registration leaves every actor with sound      *)
(* steps, whatever it calls.                                               *)
LEMMA MoveKeepsShape ==
    ASSUME RegistryInv, NEW a \in Actors, todo[a] # <<>>, Head(todo[a]).do \in OutKinds,
           NEW n \in Seq(SoundSteps(row')), GoOn(a, n), RowsAdvance,
           UNCHANGED <<run, bgLock>>
    PROVE  Shape' /\ todo' \in [Actors -> Seq(AllSteps)]
<1> USE DEF Visible
<1>0. /\ todo \in [Actors -> Seq(AllSteps)] /\ todo' = [todo EXCEPT ![a] = n \o Tail(todo[a])]
      /\ Actors = Tasks \cup Callers /\ Background \subseteq Tasks
  BY DEF RegistryInv, Typed, AllSteps, GoOn, Actors, Tasks
<1>1. SoundSteps(row) \subseteq SoundSteps(row')
  BY SoundStaysSound DEF RowsAdvance
<1>2. todo'[a] = n \o Tail(todo[a])
  BY <1>0
<1>3. \A b \in Actors \ {a} : todo'[b] = todo[b]
  BY <1>0
<1>4. todo' \in [Actors -> Seq(AllSteps)]
  <2>1. n \in Seq(AllSteps) /\ todo[a] \in Seq(AllSteps)
    BY <1>0, SoundIsAll
  <2>2. n \o Tail(todo[a]) \in Seq(AllSteps)
    BY <2>1, ReplaceHead
  <2> QED
    BY <1>0, <2>2
<1>5. ASSUME NEW b \in Actors, b # a PROVE (Registered(b) \/ Entering(b) \/ Claiming(b))'
  <2>1. CASE Registered(b)
    <3>1. todo[b] \in Seq(SoundSteps(row'))
      BY <1>1, <2>1, SeqMonotonic DEF Registered
    <3> QED
      BY <1>3, <1>5, <2>1, <3>1 DEF Registered, RowsAdvance
  <2>2. CASE Entering(b)
    BY <1>3, <1>5, <2>2 DEF Entering, RowsAdvance
  <2>3. CASE Claiming(b)
    <3>1. PICK p \in Seq(SoundSteps(row)) : todo[b] = p \o <<E1("claim", b), E1("attach", b)>>
      BY <2>3 DEF Claiming
    <3>2. p \in Seq(SoundSteps(row'))
      BY <1>1, SeqMonotonic
    <3> QED
      BY <1>0, <1>3, <1>5, <2>3, <3>1, <3>2 DEF Claiming, RowsAdvance
  <2> QED
    BY <2>1, <2>2, <2>3 DEF RegistryInv, Shape
<1>6. (Registered(a) \/ Entering(a) \/ Claiming(a))'
  <2>1. CASE Registered(a)
    <3>1. todo[a] \in Seq(SoundSteps(row'))
      BY <1>1, <2>1, SeqMonotonic DEF Registered
    <3>2. n \o Tail(todo[a]) \in Seq(SoundSteps(row'))
      BY <3>1, ReplaceHead
    <3> QED
      BY <1>2, <2>1, <3>2 DEF Registered, RowsAdvance
  <2>2. CASE \E p : p # <<>> /\ ClaimingAfter(a, p)
    <3>1. PICK p : p # <<>> /\ ClaimingAfter(a, p)
      BY <2>2
    <3> DEFINE q == <<E1("claim", a), E1("attach", a)>>
    <3>2. p \in Seq(SoundSteps(row')) /\ a \in Background /\ todo[a] = p \o q
      BY <1>1, <3>1, SeqMonotonic DEF ClaimingAfter
    <3>3. p \in Seq(AllSteps) /\ q \in Seq(AllSteps) /\ n \in Seq(AllSteps)
      BY <3>2, SoundIsAll, ClaimTail
    <3> HIDE DEF q
    <3>4. Tail(todo[a]) = Tail(p) \o q
      BY <3>1, <3>2, <3>3, HeadOfConcat
    <3>5. n \o Tail(p) \in Seq(SoundSteps(row'))
      BY <3>1, <3>2, ReplaceHead
    <3>6. Tail(p) \in Seq(AllSteps)
      BY <3>1, <3>3, HeadTailProperties
    <3>7. todo'[a] = (n \o Tail(p)) \o q
      <4>1. \A x, y, z \in Seq(AllSteps) : (x \o y) \o z = x \o (y \o z)
        BY ConcatAssociative
      <4>2. (n \o Tail(p)) \o q = n \o (Tail(p) \o q)
        BY <3>3, <3>6, <4>1
      <4> QED
        BY <1>2, <3>4, <4>2
    <3>8. run'[a] = "exec" /\ row'[a].status # "none" /\ bgLock' = a
      BY <1>0, <3>1 DEF ClaimingAfter, RowsAdvance
    <3>9. \E pp \in Seq(SoundSteps(row')) : todo'[a] = pp \o q
      BY <3>5, <3>7
    <3> QED
      BY <3>2, <3>8, <3>9 DEF Claiming, q
  <2> QED
    BY <2>1, <2>2, HeadIsSound
<1>7. Shape'
  BY <1>5, <1>6 DEF Shape, Actors, Tasks
<1> QED
  BY <1>4, <1>7

(* What the limit counts does not grow unless a row becomes running. *)
LEMMA CapacityKept ==
    ASSUME RegistryInv, UNCHANGED <<run, bgLock>>, RowsAdvance,
           \A t \in Tasks : row'[t].status = "running" => Running(t),
           \A t \in background \ background' : Terminal(row'[t])
    PROVE  Admitted'
<1>1. Live' \subseteq Live
  BY DEF Live, Running, Tasks
<1>2. Live \in SUBSET Tasks /\ IsFiniteSet(Live) /\ IsFiniteSet(Live')
  <2>1. Live \in SUBSET Tasks /\ Live' \in SUBSET Tasks
    BY DEF Live, Tasks
  <2> QED
    BY <2>1, RegistryAssumption, FS_Subset
<1>3. Cardinality(Live') <= Cardinality(Live)
  BY <1>1, <1>2, FS_Subset
<1>4. Cardinality(Live' \ {bgLock}) <= Cardinality(Live \ {bgLock})
  <2>1. IsFiniteSet(Live \ {bgLock}) /\ Live' \ {bgLock} \subseteq Live \ {bgLock}
    BY <1>1, <1>2, FS_RemoveElement
  <2> QED
    BY <2>1, FS_Subset
<1>5. /\ Cardinality(Live) \in Nat /\ Cardinality(Live') \in Nat
      /\ Cardinality(Live \ {bgLock}) \in Nat /\ Cardinality(Live' \ {bgLock}) \in Nat
      /\ MaxRunningTasks \in Nat
  BY <1>2, FS_CardinalityType, FS_RemoveElement, RegistryAssumption
<1>6. Live' \ {bgLock'} \subseteq background'
  <2> SUFFICES ASSUME NEW t \in Live', t # bgLock PROVE t \in background'
    OBVIOUS
  <2>1. t \in background
    BY <1>1 DEF RegistryInv, Admitted
  <2>2. ~Terminal(row'[t])
    BY DEF Live, Running, Terminal
  <2> QED
    BY <2>1, <2>2
<1>7. ASSUME MaxRunningTasks > 0
      PROVE  /\ Cardinality(Live') <= MaxRunningTasks
             /\ bgLock' # Nobody => Cardinality(Live' \ {bgLock'}) < MaxRunningTasks
  BY <1>3, <1>4, <1>5, <1>7 DEF RegistryInv, Admitted
<1> QED
  BY <1>6, <1>7 DEF Admitted

(* Where the steps are after actor a went on with n. *)
LEMMA StepsMoved ==
    ASSUME RegistryInv, NEW a \in Actors, todo[a] # <<>>, NEW n \in Seq(AllSteps), GoOn(a, n)
    PROVE  /\ Len(n) \in Nat /\ 1 \in DOMAIN todo[a] /\ Head(todo[a]) = todo[a][1]
           /\ \A b \in Actors : DOMAIN todo[b] \subseteq Nat
           /\ \A b \in Actors \ {a} : todo'[b] = todo[b]
           /\ \A i \in 1..Len(n) : i \in DOMAIN todo'[a] /\ todo'[a][i] = n[i]
           /\ \A i \in DOMAIN todo[a] : i # 1 =>
                 Len(n) + i - 1 \in DOMAIN todo'[a] /\ todo'[a][Len(n) + i - 1] = todo[a][i]
           /\ \A i \in DOMAIN todo'[a] : i \notin 1..Len(n) =>
                 /\ i - Len(n) + 1 \in DOMAIN todo[a] /\ i - Len(n) + 1 # 1
                 /\ i \in Nat /\ todo'[a][i] = todo[a][i - Len(n) + 1]
<1> DEFINE s == todo[a]
           u == n \o Tail(todo[a])
<1>0. /\ todo \in [Actors -> Seq(AllSteps)] /\ todo' = [todo EXCEPT ![a] = u]
      /\ s \in Seq(AllSteps) /\ Len(s) \in Nat \ {0} /\ Len(n) \in Nat
      /\ DOMAIN s = 1..Len(s) /\ Head(s) = s[1]
  BY EmptySeq, LenProperties DEF RegistryInv, Typed, AllSteps, GoOn
<1>1. /\ DOMAIN u = 1..(Len(n) + Len(s) - 1)
      /\ \A i \in 1..Len(n) : u[i] = n[i]
      /\ \A j \in 2..Len(s) : /\ Len(n) + j - 1 \in 1..(Len(n) + Len(s) - 1)
                              /\ u[Len(n) + j - 1] = s[j]
      /\ \A i \in 1..(Len(n) + Len(s) - 1) : i > Len(n) =>
            i - Len(n) + 1 \in 2..Len(s) /\ u[i] = s[i - Len(n) + 1]
  BY <1>0, ReplaceHead
<1>2. todo'[a] = u /\ \A b \in Actors \ {a} : todo'[b] = todo[b]
  BY <1>0
<1>3. \A b \in Actors : DOMAIN todo[b] \subseteq Nat
  <2> TAKE b \in Actors
  <2>1. DOMAIN todo[b] = 1..Len(todo[b])
    BY <1>0, LenProperties
  <2> QED
    BY <2>1
<1> HIDE DEF s, u
<1>4. ASSUME NEW i \in 1..Len(n) PROVE i \in DOMAIN u /\ u[i] = n[i]
  BY <1>0, <1>1
<1>5. ASSUME NEW i \in 1..Len(s), i # 1
      PROVE  Len(n) + i - 1 \in DOMAIN u /\ u[Len(n) + i - 1] = s[i]
  <2>1. i \in 2..Len(s)
    BY <1>0, <1>5
  <2> QED
    BY <1>1, <2>1
<1>6. ASSUME NEW i \in DOMAIN u, i \notin 1..Len(n)
      PROVE  /\ i - Len(n) + 1 \in 1..Len(s) /\ i - Len(n) + 1 # 1
             /\ i \in Nat /\ u[i] = s[i - Len(n) + 1]
  <2>1. i \in 1..(Len(n) + Len(s) - 1) /\ i > Len(n)
    BY <1>0, <1>1, <1>6
  <2>2. i - Len(n) + 1 \in 2..Len(s) /\ u[i] = s[i - Len(n) + 1]
    BY <1>1, <2>1
  <2> QED
    BY <1>0, <2>1, <2>2
<1> QED
  BY <1>0, <1>2, <1>3, <1>4, <1>5, <1>6 DEF s

(* A step that neither settles t nor announces its end keeps the account   *)
(* of t's end.                                                             *)
LEMMA MoveKeepsEnded ==
    ASSUME RegistryInv, NEW a \in Actors, todo[a] # <<>>, NEW t \in Tasks,
           ~Announces(t, a, 1), NEW n \in Seq(AllSteps),
           \A i \in 1..Len(n) : ~(n[i].do = "terminated" /\ n[i].t = t),
           GoOn(a, n), UNCHANGED run, Ends(t)' = Ends(t),
           Terminal(row'[t]) <=> Terminal(row[t])
    PROVE  Ended(t)'
<1> DEFINE shift(b, i) == IF b = a THEN i - Len(n) + 1 ELSE i
<1>1. /\ Len(n) \in Nat /\ \A b \in Actors : DOMAIN todo[b] \subseteq Nat
      /\ \A b \in Actors \ {a} : todo'[b] = todo[b]
      /\ \A i \in 1..Len(n) : i \in DOMAIN todo'[a] /\ todo'[a][i] = n[i]
      /\ \A i \in DOMAIN todo[a] : i # 1 =>
            Len(n) + i - 1 \in DOMAIN todo'[a] /\ todo'[a][Len(n) + i - 1] = todo[a][i]
      /\ \A i \in DOMAIN todo'[a] : i \notin 1..Len(n) =>
            /\ i - Len(n) + 1 \in DOMAIN todo[a] /\ i - Len(n) + 1 # 1
            /\ i \in Nat /\ todo'[a][i] = todo[a][i - Len(n) + 1]
  BY StepsMoved
<1>3. ASSUME NEW b \in Actors, NEW i \in DOMAIN todo'[b], Announces(t, b, i)'
      PROVE  /\ shift(b, i) \in DOMAIN todo[b] /\ Announces(t, b, shift(b, i))
             /\ i = IF b = a THEN shift(b, i) + Len(n) - 1 ELSE shift(b, i)
  <2>1. CASE b # a
    BY <1>1, <1>3, <2>1 DEF Announces
  <2>2. CASE b = a
    <3>1. i \notin 1..Len(n)
      BY <1>1, <1>3, <2>2 DEF Announces
    <3>2. /\ i - Len(n) + 1 \in DOMAIN todo[a] /\ i \in Nat
          /\ todo'[a][i] = todo[a][i - Len(n) + 1]
      BY <1>1, <2>2, <3>1
    <3>3. i = (i - Len(n) + 1) + Len(n) - 1
      BY <1>1, <3>2
    <3> QED
      BY <1>3, <2>2, <3>2, <3>3 DEF Announces
  <2> QED
    BY <2>1, <2>2
<1>4. ASSUME NEW b \in Actors, NEW i \in DOMAIN todo[b], Announces(t, b, i)
      PROVE  \E j \in DOMAIN todo'[b] : Announces(t, b, j)'
  <2>1. CASE b # a
    BY <1>1, <1>4, <2>1 DEF Announces
  <2>2. CASE b = a
    <3>1. i # 1
      BY <1>4, <2>2
    <3>2. Len(n) + i - 1 \in DOMAIN todo'[a] /\ todo'[a][Len(n) + i - 1] = todo[a][i]
      BY <1>1, <2>2, <3>1
    <3> QED
      BY <1>4, <2>2, <3>2 DEF Announces
  <2> QED
    BY <2>1, <2>2
<1> HIDE DEF shift
<1>5. Ended(t)
  BY DEF RegistryInv, Endings
<1>6. Announced(t)' <=> Announced(t)
  BY DEF Announced
<1>7. ASSUME NEW b \in Actors, NEW c \in Actors, NEW i \in DOMAIN todo'[b],
             NEW j \in DOMAIN todo'[c], Announces(t, b, i)', Announces(t, c, j)'
      PROVE  b = c /\ i = j
  <2>1. /\ shift(b, i) \in DOMAIN todo[b] /\ Announces(t, b, shift(b, i))
        /\ shift(c, j) \in DOMAIN todo[c] /\ Announces(t, c, shift(c, j))
    BY <1>3, <1>7
  <2>2. b = c /\ shift(b, i) = shift(c, j)
    BY <1>5, <2>1 DEF Ended
  <2>3. /\ i = IF b = a THEN shift(b, i) + Len(n) - 1 ELSE shift(b, i)
        /\ j = IF c = a THEN shift(c, j) + Len(n) - 1 ELSE shift(c, j)
    BY <1>3, <1>7
  <2> QED
    BY <2>2, <2>3
<1>8. ASSUME NEW b \in Actors, NEW i \in DOMAIN todo'[b], Announces(t, b, i)'
      PROVE  Terminal(row'[t]) /\ ~Announced(t)'
  BY <1>3, <1>5, <1>6, <1>8 DEF Ended
<1>9. (run[t] # "lost" /\ Terminal(row[t]))' =>
         Announced(t)' \/ \E b \in Actors : \E j \in DOMAIN todo'[b] : Announces(t, b, j)'
  BY <1>4, <1>5, <1>6 DEF Ended
<1>10. /\ Announced(t)' => Terminal(row'[t])
       /\ \A i, j \in Ends(t)' : i = j
  BY <1>5, <1>6 DEF Ended
<1>11. Actors' = Actors
  BY DEF Actors, Tasks
<1> QED
  BY <1>7, <1>8, <1>9, <1>10, <1>11 DEF Ended

\* A step that neither registers a command, nor settles a row, nor announces
\* an end: it may call other such steps, write a row to disk, and take
\* settled tasks out of the background set.
QuietMove(a) ==
    /\ todo[a] # <<>> /\ Head(todo[a]).do \in OutKinds \ {"terminated"}
    /\ \E n \in Seq(QuietSteps(row')) : GoOn(a, n)
    /\ row' \in [Tasks -> Rows] /\ \A t \in Tasks : row'[t].status = row[t].status
    /\ archive' \in [Tasks -> Rows]
    /\ \A t \in Tasks : archive'[t] = archive[t] \/ Visible(t)
    /\ \A t \in background \ background' : Terminal(row'[t])
    /\ events' \in [Tasks -> Seq({"started", "terminated"})]
    /\ \A t \in Tasks : Ends(t)' = Ends(t)
    /\ UNCHANGED <<run, bgLock>>

LEMMA QuietMoveKeeps ==
    ASSUME RegistryInv, NEW a \in Actors, QuietMove(a), TypeOK'
    PROVE  RegistryInv'
<1>1. PICK n \in Seq(QuietSteps(row')) : GoOn(a, n)
  BY DEF QuietMove
<1>2. n \in Seq(SoundSteps(row')) /\ n \in Seq(AllSteps)
  BY QuietIsSound, SoundIsAll
<1>3. \A i \in 1..Len(n) : n[i].do # "terminated"
  BY <1>1, ElementOfSeq DEF QuietSteps
<1>4. RowsAdvance
  BY DEF RowsAdvance, QuietMove, Visible, Terminal
<1>5. Shape' /\ todo' \in [Actors -> Seq(AllSteps)]
  BY <1>1, <1>2, <1>4, MoveKeepsShape DEF QuietMove
<1>6. Admitted'
  BY <1>4, CapacityKept DEF QuietMove, Running
<1>7. Endings'
  <2> SUFFICES ASSUME NEW t \in Tasks PROVE Ended(t)'
    BY DEF Endings
  <2>1. todo[a] # <<>> /\ Head(todo[a]) = todo[a][1] /\ todo[a][1].do # "terminated"
    BY <1>1, <1>2, StepsMoved DEF QuietMove
  <2> QED
    BY <1>1, <1>2, <1>3, <2>1, MoveKeepsEnded DEF QuietMove, Terminal, Announces
<1>8. Typed'
  BY <1>5 DEF QuietMove, RegistryInv, Typed, AllSteps, Actors, Tasks, Steps, EntrySteps, Rows
<1>9. Fresh'
  BY DEF QuietMove, RegistryInv, Fresh, Visible
<1> QED
  BY <1>5, <1>6, <1>7, <1>8, <1>9 DEF RegistryInv

(* The task of a sound step has a row. *)
LEMMA HeadTask ==
    ASSUME RegistryInv, NEW a \in Actors, todo[a] # <<>>, Head(todo[a]).do \in OutKinds
    PROVE  /\ OneTask(Head(todo[a])) => Task(a) \in Tasks /\ Visible(Task(a))
           /\ Head(todo[a]).do \in StatusKinds => Head(todo[a]).to \in Outcomes
           /\ Head(todo[a]).do \in CopyKinds => Head(todo[a]).copy \in Rows
           /\ Head(todo[a]).do \in GroupKinds =>
                 /\ Head(todo[a]).of \in SUBSET Tasks
                 /\ \A t \in Head(todo[a]).of : Visible(t)
           /\ Head(todo[a]).do \in {"unback", "terminated"} => Terminal(row[Task(a)])
<1>1. Head(todo[a]) \in SoundSteps(row)
  BY HeadIsSound
<1>2. Head(todo[a]) \in Steps /\ SoundIn(row, Head(todo[a]))
  BY <1>1 DEF SoundSteps
<1> QED
  BY <1>2, StepFields DEF SoundIn, Task, Visible

LEMMA NothingIsQuiet == ASSUME NEW r PROVE <<>> \in Seq(QuietSteps(r))
BY EmptySeq

(* Steps that only return: resolving a release, attaching or firing a      *)
(* signal, disarming, killing, entering or leaving the background set.     *)
LEMMA ReturningSteps ==
    ASSUME RegistryInv, NEW a \in Actors,
           \/ Back(a) \/ Resolve(a) \/ Unsignal(a) \/ Unback(a) \/ Unarm(a)
           \/ PersistTask(a) \/ AttachSignal(a) \/ FireSignal(a) \/ Kill(a)
    PROVE  RegistryInv'
<1> USE DEF At
<1> DEFINE k == Head(todo[a]).do
<1>1. /\ todo[a] # <<>> /\ GoOn(a, <<>>)
      /\ \/ k \in PlainKinds \ {"terminated"}
         \/ k = "persist"
  BY DEF Back, Resolve, Unsignal, Unback, Unarm, PersistTask, AttachSignal, FireSignal,
         Kill, PlainKinds
<1>2. k \in OutKinds \ {"terminated"}
  BY <1>1 DEF OutKinds, CopyKinds
<1>3. OneTask(Head(todo[a]))
  BY <1>1 DEF OneTask, CopyKinds
<1>4. Task(a) \in Tasks /\ Visible(Task(a))
  BY <1>1, <1>2, <1>3, HeadTask
<1>5. k = "persist" => Head(todo[a]).copy \in Rows
  BY <1>1, <1>2, HeadTask DEF CopyKinds
<1>6. k = "unback" => Terminal(row[Task(a)])
  BY <1>1, <1>2, HeadTask
<1>7. TypeOK /\ row \in [Tasks -> Rows] /\ archive \in [Tasks -> Rows]
      /\ events \in [Tasks -> Seq({"started", "terminated"})]
  BY DEF RegistryInv, Typed, TypeOK
<1>8. UNCHANGED <<row, run, bgLock, events, calls, restarts>>
  BY DEF Back, Resolve, Unsignal, Unback, Unarm, PersistTask, AttachSignal, FireSignal,
         Kill, mem
<1>9. TypeOK'
  BY <1>4, <1>5, <1>7, <1>8 DEF TypeOK, Back, Resolve, Unsignal, Unback, Unarm, PersistTask,
         AttachSignal, FireSignal, Kill, mem, Fire
<1>10. archive' \in [Tasks -> Rows] /\ \A t \in Tasks : archive'[t] = archive[t] \/ Visible(t)
  BY <1>4, <1>5, <1>7 DEF Back, Resolve, Unsignal, Unback, Unarm, PersistTask,
         AttachSignal, FireSignal, Kill, mem
<1>11. \A t \in background \ background' : Terminal(row'[t])
  BY <1>6, <1>8 DEF Back, Resolve, Unsignal, Unback, Unarm, PersistTask,
         AttachSignal, FireSignal, Kill, mem
<1>12. \A t \in Tasks : Ends(t)' = Ends(t)
  BY <1>8 DEF Ends
<1>13. QuietMove(a)
  BY <1>1, <1>2, <1>7, <1>8, <1>10, <1>11, <1>12, NothingIsQuiet DEF QuietMove
<1> QED
  BY <1>9, <1>13, QuietMoveKeeps

(* A step that calls on and changes no row, archive, event or set. *)
LEMMA CallingOn ==
    ASSUME RegistryInv, NEW a \in Actors, todo[a] # <<>>,
           Head(todo[a]).do \in OutKinds \ {"terminated"},
           NEW n \in Seq(QuietSteps(row)), GoOn(a, n),
           UNCHANGED <<mem, archive, run, calls, restarts>>, TypeOK'
    PROVE  RegistryInv'
<1>1. row \in [Tasks -> Rows] /\ archive \in [Tasks -> Rows]
      /\ events \in [Tasks -> Seq({"started", "terminated"})]
  BY DEF RegistryInv, Typed, TypeOK
<1>2. QuietMove(a)
  BY <1>1 DEF QuietMove, mem, Ends
<1> QED
  BY <1>2, QuietMoveKeeps

LEMMA CallingSteps ==
    ASSUME RegistryInv, NEW a \in Actors,
           \/ Lookup(a) \/ CheckGrace(a) \/ AwaitSettlement(a) \/ StopAllScan(a)
           \/ StopAllFire(a) \/ SuppressAll(a) \/ Settle(a) \/ Dispose(a)
    PROVE  RegistryInv'
<1> USE DEF At
<1>1. /\ todo[a] # <<>>
      /\ Head(todo[a]).do \in {"lookup", "check", "await", "scan", "fireall", "suppress",
                               "settle", "dispose"}
      /\ UNCHANGED <<mem, archive, run, calls, restarts>>
  BY DEF Lookup, CheckGrace, AwaitSettlement, StopAllScan, StopAllFire, SuppressAll,
         Settle, Dispose
<1>2. Head(todo[a]).do \in OutKinds \ {"terminated"}
  BY <1>1 DEF OutKinds, PlainKinds, StatusKinds, CopyKinds, GroupKinds, ScanKinds
<1>3. /\ Head(todo[a]).do \in {"lookup", "check", "settle", "dispose"} =>
            Task(a) \in Tasks /\ row[Task(a)].status # "none"
      /\ Head(todo[a]).do = "settle" => Head(todo[a]).to \in Outcomes
      /\ Head(todo[a]).do = "dispose" => Head(todo[a]).copy \in Rows
      /\ Head(todo[a]).do \in {"await", "fireall"} =>
            /\ Head(todo[a]).of \in SUBSET Tasks
            /\ \A t \in Head(todo[a]).of : row[t].status # "none"
  BY <1>1, <1>2, HeadTask DEF OneTask, PlainKinds, StatusKinds, CopyKinds, GroupKinds, Visible
<1>4. TypeOK /\ row \in [Tasks -> Rows] /\ signals \subseteq Tasks
  BY DEF RegistryInv, Typed, TypeOK
<1>5. TypeOK'
  BY <1>1, <1>3, <1>4 DEF TypeOK, mem, Lookup, CheckGrace, AwaitSettlement, StopAllScan,
         StopAllFire, SuppressAll, Settle, Dispose
<1>6. ASSUME NEW n \in Seq(QuietSteps(row)), GoOn(a, n) PROVE RegistryInv'
  BY <1>1, <1>2, <1>5, <1>6, CallingOn
<1>7. CASE Lookup(a)
  <2>1. Do("convert", Task(a)) \in Seq(QuietSteps(row))
    BY <1>3, <1>7, PlainIsQuiet DEF Lookup, PlainKinds
  <2> QED
    BY <1>6, <1>7, <2>1, NothingIsQuiet DEF Lookup
<1>8. CASE CheckGrace(a)
  <2>1. Task(a) \in Tasks /\ row[Task(a)].status # "none"
    BY <1>3, <1>8 DEF CheckGrace
  <2>2. Stop(Task(a)) \in Seq(QuietSteps(row))
    BY <2>1, StopIsQuiet
  <2>3. <<[do |-> "await", of |-> {Task(a)}]>> \in Seq(QuietSteps(row))
    BY <2>1, GroupIsQuiet DEF GroupKinds
  <2>4. CASE Terminal(row[Task(a)])
    BY <1>6, <1>8, <2>4, NothingIsQuiet DEF CheckGrace
  <2>5. CASE ~Terminal(row[Task(a)]) /\ Task(a) \in signals
    BY <1>6, <1>8, <2>3, <2>5 DEF CheckGrace
  <2>6. CASE ~Terminal(row[Task(a)]) /\ Task(a) \notin signals
    BY <1>6, <1>8, <2>2, <2>6 DEF CheckGrace
  <2> QED
    BY <2>4, <2>5, <2>6
<1>9. CASE AwaitSettlement(a)
  <2>1. ForEach(Head(todo[a]).of, Stop) \in Seq(QuietSteps(row))
    BY <1>3, <1>9, StopEachIsQuiet DEF AwaitSettlement
  <2> QED
    BY <1>6, <1>9, <2>1, NothingIsQuiet DEF AwaitSettlement
<1>10. CASE StopAllScan(a)
  <2> DEFINE running == {t \in Tasks : Running(t)}
  <2>1. <<[do |-> "fireall", of |-> running]>> \in Seq(QuietSteps(row))
    BY GroupIsQuiet DEF GroupKinds, Running
  <2> QED
    BY <1>6, <1>10, <2>1, NothingIsQuiet DEF StopAllScan
<1>11. CASE StopAllFire(a)
  <2> DEFINE signaled == Head(todo[a]).of \cap signals
             calm == Head(todo[a]).of \ signaled
  <2>1. /\ calm \in SUBSET Tasks /\ \A t \in calm : row[t].status # "none"
        /\ signaled \in SUBSET Tasks /\ \A t \in signaled : row[t].status # "none"
    BY <1>3, <1>11 DEF StopAllFire
  <2>2. GoOn(a, ForEach(calm, Stop) \o <<[do |-> "await", of |-> signaled]>>)
    BY <1>11 DEF StopAllFire
  <2> HIDE DEF signaled, calm
  <2>3. ForEach(calm, Stop) \in Seq(QuietSteps(row))
    BY <2>1, StopEachIsQuiet
  <2>4. <<[do |-> "await", of |-> signaled]>> \in Seq(QuietSteps(row))
    BY <2>1, GroupIsQuiet DEF GroupKinds
  <2>5. ForEach(calm, Stop) \o <<[do |-> "await", of |-> signaled]>> \in Seq(QuietSteps(row))
    BY <2>3, <2>4, ConcatProperties
  <2> QED
    BY <1>6, <2>2, <2>5
<1>12. CASE SuppressAll(a)
  <2> DEFINE running == {t \in Tasks : Running(t)}
             Write(t) == Persist(t, row[t])
  <2>1. running \in SUBSET Tasks /\ \A t \in running : row[t].status # "none"
    BY DEF Running
  <2>2. GoOn(a, ForEach(running, Write))
    BY <1>12 DEF SuppressAll
  <2>3. ForEach(running, Write) \in Seq(QuietSteps(row))
    BY <1>4, <2>1, WriteEachIsQuiet
  <2> HIDE DEF Write, running
  <2> QED
    BY <1>6, <2>2, <2>3
<1>13. CASE Settle(a)
  <2>1. Task(a) \in Tasks /\ row[Task(a)].status # "none" /\ Head(todo[a]).to \in Outcomes
    BY <1>3, <1>13 DEF Settle
  <2>2. Stop(Task(a)) \in Seq(QuietSteps(row))
    BY <2>1, StopIsQuiet
  <2>3. Transition(Task(a), Head(todo[a]).to) \in Seq(QuietSteps(row))
    BY <2>1, StatusIsQuiet
  <2> QED
    BY <1>6, <1>13, <2>2, <2>3 DEF Settle
<1>14. CASE Dispose(a)
  <2>1. /\ Task(a) \in Tasks /\ row[Task(a)].status # "none"
        /\ [Head(todo[a]).copy EXCEPT !.status = "stopped"] \in Rows
    BY <1>3, <1>14 DEF Dispose, Rows, Statuses
  <2>2. Persist(Task(a), [Head(todo[a]).copy EXCEPT !.status = "stopped"])
            \in Seq(QuietSteps(row))
    BY <2>1, CopyIsQuiet
  <2> QED
    BY <1>6, <1>14, <2>2, NothingIsQuiet DEF Dispose
<1> QED
  BY <1>7, <1>8, <1>9, <1>10, <1>11, <1>12, <1>13, <1>14

(* The setters that touch a row without settling it. *)
LEMMA TouchingSteps ==
    ASSUME RegistryInv, NEW a \in Actors, Convert(a) \/ Stamp(a)
    PROVE  RegistryInv'
<1> USE DEF At
<1> DEFINE t == Task(a)
<1>1. /\ todo[a] # <<>> /\ Head(todo[a]).do \in {"convert", "stamp", "fingerprint"}
      /\ UNCHANGED <<archive, signals, fired, background, bgLock, releases, released,
                     events, child, run, calls, restarts>>
  BY DEF Convert, Stamp
<1>2. Head(todo[a]).do \in OutKinds \ {"terminated"}
  BY <1>1 DEF OutKinds, PlainKinds
<1>3. t \in Tasks /\ row[t].status # "none"
  BY <1>1, <1>2, HeadTask DEF OneTask, PlainKinds, Visible
<1>4. TypeOK /\ row \in [Tasks -> Rows] /\ archive \in [Tasks -> Rows]
      /\ events \in [Tasks -> Seq({"started", "terminated"})]
  BY DEF RegistryInv, Typed, TypeOK
<1> HIDE DEF t
<1>5. ASSUME NEW touched \in Rows, touched.status = row[t].status,
             row' = [row EXCEPT ![t] = touched],
             NEW n, GoOn(a, n), n \in Seq(QuietSteps(row'))
      PROVE  RegistryInv'
  <2>1. row' \in [Tasks -> Rows] /\ \A u \in Tasks : row'[u].status = row[u].status
    BY <1>3, <1>4, <1>5
  <2>2. TypeOK'
    BY <1>1, <1>4, <2>1 DEF TypeOK
  <2>3. QuietMove(a)
    BY <1>1, <1>2, <1>4, <1>5, <2>1 DEF QuietMove, Ends
  <2> QED
    BY <2>2, <2>3, QuietMoveKeeps
<1>6. CASE Convert(a)
  <2> DEFINE converted == [row[t] EXCEPT !.detached = TRUE]
             n == Do("back", t) \o Persist(t, converted) \o Do("started", t) \o Do("resolve", t)
  <2>1. CASE GoOn(a, <<>>) /\ UNCHANGED row
    <3>1. row' = [row EXCEPT ![t] = row[t]] /\ row[t] \in Rows
      BY <1>3, <1>4, <2>1
    <3> QED
      BY <1>5, <2>1, <3>1, NothingIsQuiet
  <2>2. CASE row' = [row EXCEPT ![t] = converted] /\ GoOn(a, n)
    <3>1. converted \in Rows /\ converted.status = row[t].status
      BY <1>3, <1>4 DEF Rows
    <3> HIDE DEF converted
    <3>2. row'[t] = converted /\ row'[t].status # "none"
      BY <1>3, <1>4, <2>2, <3>1
    <3>3. /\ Do("back", t) \in Seq(QuietSteps(row')) /\ Do("started", t) \in Seq(QuietSteps(row'))
          /\ Do("resolve", t) \in Seq(QuietSteps(row'))
      BY <1>3, <3>2, PlainIsQuiet DEF PlainKinds
    <3>4. Persist(t, converted) \in Seq(QuietSteps(row'))
      BY <1>3, <3>1, <3>2, CopyIsQuiet
    <3>5. n \in Seq(QuietSteps(row'))
      BY <3>3, <3>4, ConcatProperties
    <3> QED
      BY <1>5, <2>2, <3>1, <3>5
  <2> QED
    BY <1>6, <2>1, <2>2 DEF Convert, t
<1>7. CASE Stamp(a)
  <2> DEFINE stamped == IF Head(todo[a]).do = "stamp" THEN row[t]
                        ELSE [row[t] EXCEPT !.fingerprint = TRUE]
  <2>1. stamped \in Rows /\ stamped.status = row[t].status
    BY <1>3, <1>4 DEF Rows
  <2>2. row' = [row EXCEPT ![t] = stamped] /\ GoOn(a, Persist(t, stamped))
    BY <1>1, <1>7 DEF Stamp, t
  <2> HIDE DEF stamped
  <2>3. row'[t].status # "none"
    BY <1>3, <1>4, <2>1, <2>2
  <2>4. Persist(t, stamped) \in Seq(QuietSteps(row'))
    BY <1>3, <2>1, <2>3, CopyIsQuiet
  <2> QED
    BY <1>5, <2>1, <2>2, <2>4
<1> QED
  BY <1>6, <1>7

(* A started event changes nothing that is counted; a terminated event is  *)
(* the one its task was waiting for.                                       *)
LEMMA PublishingSteps ==
    ASSUME RegistryInv, NEW a \in Actors, Publish(a)
    PROVE  RegistryInv'
<1> USE DEF At
<1> PICK t : t = Task(a)
  OBVIOUS
<1> PICK what : what = Head(todo[a]).do
  OBVIOUS
<1>1. /\ todo[a] # <<>> /\ what \in {"started", "terminated"} /\ GoOn(a, <<>>)
      /\ events' = [events EXCEPT ![t] = Append(@, what)]
      /\ UNCHANGED <<row, archive, signals, fired, background, bgLock, releases,
                     released, child, run, calls, restarts>>
  BY DEF Publish
<1>2. what \in OutKinds /\ OneTask(Head(todo[a]))
  BY <1>1 DEF OutKinds, PlainKinds, OneTask
<1>3. t \in Tasks /\ (what = "terminated" => Terminal(row[t]))
  BY <1>1, <1>2, HeadTask
<1>4. TypeOK /\ row \in [Tasks -> Rows] /\ archive \in [Tasks -> Rows]
      /\ events \in [Tasks -> Seq({"started", "terminated"})]
  BY DEF RegistryInv, Typed, TypeOK
<1>5. TypeOK'
  BY <1>1, <1>4 DEF TypeOK
<1> PICK l : l = Len(events[t])
  OBVIOUS
<1>6. /\ events[t] \in Seq({"started", "terminated"}) /\ l \in Nat
      /\ DOMAIN events[t] = 1..l
  BY <1>3, <1>4, LenProperties
<1>7. /\ events'[t] = Append(events[t], what)
      /\ events'[t] \in Seq({"started", "terminated"}) /\ DOMAIN events'[t] = 1..(l + 1)
      /\ \A i \in 1..l : events'[t][i] = events[t][i]
      /\ events'[t][l + 1] = what
  <2>1. events'[t] = Append(events[t], what)
    BY <1>1, <1>3, <1>4
  <2> QED
    BY <1>1, <1>6, <2>1, AppendProperties, LenProperties
<1>8. events' \in [Tasks -> Seq({"started", "terminated"})]
      /\ \A u \in Tasks \ {t} : events'[u] = events[u]
  BY <1>1, <1>3, <1>4, <1>7
<1>9. \A u \in Tasks \ {t} : Ends(u)' = Ends(u)
  BY <1>8 DEF Ends
<1>10. CASE what = "started"
  <2>1. Ends(t)' = Ends(t)
    BY <1>6, <1>7, <1>10 DEF Ends
  <2>2. \A u \in Tasks : Ends(u)' = Ends(u)
    BY <1>9, <2>1
  <2>3. QuietMove(a)
    BY <1>1, <1>2, <1>4, <1>8, <1>10, <2>2, NothingIsQuiet DEF QuietMove
  <2> QED
    BY <1>5, <2>3, QuietMoveKeeps
<1>11. CASE what = "terminated"
  <2>1. RowsAdvance
    BY <1>1, <1>4 DEF RowsAdvance, Visible
  <2>2. <<>> \in Seq(SoundSteps(row')) /\ <<>> \in Seq(AllSteps) /\ Len(<<>>) = 0
    BY EmptySeq
  <2>3. Shape' /\ todo' \in [Actors -> Seq(AllSteps)]
    BY <1>1, <1>2, <2>1, <2>2, MoveKeepsShape
  <2>4. Admitted'
    BY <1>1, <2>1, CapacityKept DEF Running
  <2>5. Fresh'
    BY <1>1 DEF RegistryInv, Fresh
  <2>6. Typed'
    BY <1>1, <1>5, <1>8, <2>3 DEF RegistryInv, Typed, AllSteps, Actors, Tasks, Steps, EntrySteps, Rows
  <2>7. /\ 1 \in DOMAIN todo[a] /\ Head(todo[a]) = todo[a][1] /\ Announces(t, a, 1)
    <3>1. 1 \in DOMAIN todo[a] /\ Head(todo[a]) = todo[a][1]
      BY <1>1, <2>2, StepsMoved
    <3> QED
      BY <1>11, <3>1 DEF Announces, Task
  <2>8. ASSUME NEW u \in Tasks, u # t PROVE Ended(u)'
    <3>1. ~Announces(u, a, 1)
      BY <2>7, <2>8 DEF Announces
    <3>2. Terminal(row'[u]) <=> Terminal(row[u])
      BY <1>1
    <3>3. \A i \in 1..Len(<<>>) : FALSE
      BY <2>2
    <3> QED
      BY <1>1, <1>9, <2>2, <2>8, <3>1, <3>2, <3>3, MoveKeepsEnded
  <2>9. Ended(t)'
    <3>1. Ended(t)
      BY <1>3 DEF RegistryInv, Endings
    <3>2. Terminal(row[t]) /\ Ends(t) = {}
      BY <2>7, <3>1 DEF Ended, Announced
    <3>3. Ends(t)' = {l + 1}
      BY <1>6, <1>7, <1>11, <3>2 DEF Ends
    <3>4. ASSUME NEW b \in Actors, NEW i \in DOMAIN todo'[b], Announces(t, b, i)' PROVE FALSE
      <4>1. CASE b # a
        <5>1. i \in DOMAIN todo[b] /\ Announces(t, b, i)
          BY <1>1, <2>2, <3>4, <4>1, StepsMoved DEF Announces
        <5> QED
          BY <2>7, <3>1, <4>1, <5>1 DEF Ended
      <4>2. CASE b = a
        <5> DEFINE none == <<>>
        <5>0. none \in Seq(AllSteps) /\ GoOn(a, none) /\ Len(none) = 0
          BY <1>1, <2>2
        <5> HIDE DEF none
        <5>1. \A j \in DOMAIN todo'[a] : j \notin 1..Len(none) =>
                 /\ j - Len(none) + 1 \in DOMAIN todo[a] /\ j - Len(none) + 1 # 1
                 /\ j \in Nat /\ todo'[a][j] = todo[a][j - Len(none) + 1]
          BY <1>1, <5>0, StepsMoved
        <5>2. PICK j \in DOMAIN todo[a] : j # 1 /\ todo'[a][i] = todo[a][j]
          BY <4>2, <5>0, <5>1
        <5>3. Announces(t, a, j)
          BY <3>4, <4>2, <5>2 DEF Announces
        <5> QED
          BY <2>7, <3>1, <5>2, <5>3 DEF Ended
      <4> QED
        BY <4>1, <4>2
    <3>5. Terminal(row'[t]) /\ Announced(t)'
      BY <1>1, <3>2, <3>3 DEF Announced
    <3>6. Actors' = Actors
      BY DEF Actors, Tasks
    <3> QED
      BY <3>3, <3>4, <3>5, <3>6 DEF Ended
  <2>10. Endings'
    <3>1. \A u \in Tasks : Ended(u)'
      BY <2>8, <2>9
    <3> QED
      BY <3>1 DEF Endings, Tasks
  <2> QED
    BY <2>3, <2>4, <2>5, <2>6, <2>10 DEF RegistryInv
<1> QED
  BY <1>1, <1>10, <1>11


(* The announcement of an end is sound once the row is terminal. *)
LEMMA EndIsSound ==
    ASSUME NEW r, NEW t \in Tasks, Terminal(r[t])
    PROVE  /\ E1("terminated", t) \in SoundSteps(r) /\ Do("terminated", t) = <<E1("terminated", t)>>
           /\ E1("terminated", t).do = "terminated" /\ E1("terminated", t).t = t
<1>1. E1("terminated", t) \in Steps
  BY DEF E1, Steps, PlainKinds
<1>2. E1("terminated", t).do = "terminated" /\ E1("terminated", t).t = t
  BY DEF E1
<1>3. SoundIn(r, E1("terminated", t))
  BY <1>2 DEF SoundIn, GroupKinds, Terminal
<1> QED
  BY <1>1, <1>2, <1>3 DEF SoundSteps, Do, E1

(* The first terminal status wins: the flip that settles a row is the only *)
(* one that goes on to announce the end.                                   *)
LEMMA FlippingSteps ==
    ASSUME RegistryInv, NEW a \in Actors, Flip(a)
    PROVE  RegistryInv'
<1> USE DEF At
<1> PICK t : t = Task(a)
  OBVIOUS
<1> PICK to : to = Head(todo[a]).to
  OBVIOUS
<1>1. /\ todo[a] # <<>> /\ Head(todo[a]).do = "flip"
      /\ UNCHANGED <<archive, signals, fired, background, bgLock, releases,
                     released, events, child, run, calls, restarts>>
  BY DEF Flip
<1>2. Head(todo[a]).do \in OutKinds \ {"terminated"} /\ OneTask(Head(todo[a]))
  BY <1>1 DEF OutKinds, StatusKinds, OneTask
<1>3. t \in Tasks /\ Visible(t) /\ to \in Outcomes
  BY <1>1, <1>2, HeadTask DEF StatusKinds
<1>4. TypeOK /\ row \in [Tasks -> Rows]
  BY DEF RegistryInv, Typed, TypeOK
<1> DEFINE settled == [row[t] EXCEPT !.status = to]
           q == Do("unsignal", t) \o Do("unback", t) \o Do("unarm", t) \o Persist(t, settled)
<1>5. CASE GoOn(a, <<>>) /\ UNCHANGED row
  <2>1. TypeOK'
    BY <1>1, <1>4, <1>5 DEF TypeOK
  <2> QED
    BY <1>1, <1>2, <1>5, <2>1, NothingIsQuiet, CallingOn DEF mem
<1>6. CASE Running(t) /\ row' = [row EXCEPT ![t] = settled] /\ GoOn(a, q \o Do("terminated", t))
  <2>1. settled \in Rows /\ settled.status = to
    BY <1>3, <1>4 DEF Rows, Outcomes, Statuses
  <2> HIDE DEF settled
  <2>2. /\ row' \in [Tasks -> Rows] /\ row'[t] = settled
        /\ \A u \in Tasks \ {t} : row'[u] = row[u]
    BY <1>3, <1>4, <1>6, <2>1
  <2>3. Terminal(row'[t]) /\ row'[t].status # "none" /\ row'[t].status # "running"
    BY <1>3, <2>1, <2>2 DEF Terminal, Outcomes
  <2>4. RowsAdvance
    BY <1>3, <2>2, <2>3 DEF RowsAdvance, Visible
  <2>5. TypeOK'
    BY <1>1, <1>4, <2>2 DEF TypeOK
  <2>6. q \in Seq(QuietSteps(row'))
    <3>1. /\ Do("unsignal", t) \in Seq(QuietSteps(row'))
          /\ Do("unback", t) \in Seq(QuietSteps(row'))
          /\ Do("unarm", t) \in Seq(QuietSteps(row'))
      BY <1>3, <2>3, PlainIsQuiet DEF PlainKinds
    <3>2. Persist(t, settled) \in Seq(QuietSteps(row'))
      BY <1>3, <2>1, <2>3, CopyIsQuiet
    <3> QED
      BY <3>1, <3>2, ConcatProperties
  <2> PICK n : n = q \o Do("terminated", t)
    OBVIOUS
  <2> PICK m : m = Len(q)
    OBVIOUS
  <2> HIDE DEF q
  <2>7. /\ m \in Nat /\ n \in Seq(SoundSteps(row')) /\ Len(n) = m + 1
        /\ \A i \in 1..m : n[i] \in QuietSteps(row')
        /\ n[m + 1] = E1("terminated", t)
    <3>1. q \in Seq(SoundSteps(row')) /\ m \in Nat /\ \A i \in 1..m : q[i] \in QuietSteps(row')
      BY <2>6, QuietIsSound, ElementOfSeq, LenProperties
    <3> DEFINE e == E1("terminated", t)
    <3>2. n = q \o <<e>> /\ e \in SoundSteps(row')
      BY <1>3, <2>3, EndIsSound
    <3> HIDE DEF e
    <3>3. n = Append(q, e)
      BY <3>1, <3>2, AppendIsConcat
    <3>4. /\ n \in Seq(SoundSteps(row')) /\ Len(n) = Len(q) + 1 /\ n[Len(q) + 1] = e
          /\ \A i \in 1..Len(q) : n[i] = q[i]
      <4>1. q \in Seq(SoundSteps(row')) /\ e \in SoundSteps(row')
        BY <3>1, <3>2
      <4>2. /\ Append(q, e) \in Seq(SoundSteps(row')) /\ Len(Append(q, e)) = Len(q) + 1
            /\ Append(q, e)[Len(q) + 1] = e
            /\ \A i \in 1..Len(q) : Append(q, e)[i] = q[i]
        BY <4>1, AppendProperties
      <4> QED
        BY <3>3, <4>2
    <3> QED
      BY <3>1, <3>4 DEF e
  <2>8. n \in Seq(AllSteps) /\ GoOn(a, n)
    BY <1>6, <2>7, SoundIsAll
  <2>9. Shape' /\ todo' \in [Actors -> Seq(AllSteps)]
    BY <1>1, <1>2, <2>4, <2>7, <2>8, MoveKeepsShape
  <2>10. Admitted'
    BY <1>1, <2>2, <2>3, <2>4, CapacityKept DEF Running
  <2>11. Fresh'
    BY <1>1, <1>3, <2>2, <2>3 DEF RegistryInv, Fresh, Visible
  <2>12. Typed'
    BY <1>1, <2>5, <2>9 DEF RegistryInv, Typed, AllSteps, Actors, Tasks, Steps, EntrySteps, Rows
  <2>13. \A i \in 1..Len(n) : n[i].do = "terminated" => i = m + 1 /\ n[i].t = t
    <3> SUFFICES ASSUME NEW i \in 1..Len(n), n[i].do = "terminated"
                 PROVE  i = m + 1 /\ n[i].t = t
      OBVIOUS
    <3>1. i \notin 1..m
      BY <2>7 DEF QuietSteps
    <3>2. i = m + 1
      BY <2>7, <3>1
    <3> QED
      BY <1>3, <2>3, <2>7, <3>2, EndIsSound
  <2>14. 1 \in DOMAIN todo[a] /\ Head(todo[a]) = todo[a][1]
    BY <1>1, <2>8, StepsMoved
  <2>15. \A u \in Tasks : ~Announces(u, a, 1)
    BY <1>1, <2>14 DEF Announces
  <2>16. \A u \in Tasks : Ends(u)' = Ends(u)
    BY <1>1 DEF Ends
  <2>17. ASSUME NEW u \in Tasks, u # t PROVE Ended(u)'
    <3>1. Terminal(row'[u]) <=> Terminal(row[u])
      BY <2>2, <2>17
    <3>2. \A i \in 1..Len(n) : ~(n[i].do = "terminated" /\ n[i].t = u)
      BY <2>13, <2>17
    <3> QED
      BY <1>1, <2>8, <2>15, <2>16, <3>1, <3>2, MoveKeepsEnded
  <2>18. Ended(t)'
    <3>1. Ended(t) /\ ~Terminal(row[t])
      BY <1>3, <1>6 DEF RegistryInv, Endings, Running, Terminal
    <3>2. Ends(t)' = {} /\ ~Announced(t)'
      BY <1>3, <2>16, <3>1 DEF Ended, Announced
    <3>3. /\ \A b \in Actors \ {a} : todo'[b] = todo[b]
          /\ \A i \in 1..Len(n) : i \in DOMAIN todo'[a] /\ todo'[a][i] = n[i]
          /\ \A i \in DOMAIN todo'[a] : i \notin 1..Len(n) =>
                i - Len(n) + 1 \in DOMAIN todo[a] /\ todo'[a][i] = todo[a][i - Len(n) + 1]
      BY <1>1, <2>8, StepsMoved, ZenonT(40)
    <3>4. ASSUME NEW b \in Actors, NEW i \in DOMAIN todo'[b], Announces(t, b, i)'
          PROVE  b = a /\ i = m + 1
      <4>1. ASSUME NEW j \in DOMAIN todo[b], todo'[b][i] = todo[b][j] PROVE FALSE
        BY <3>1, <3>4, <4>1 DEF Ended, Announces
      <4>2. b = a
        BY <3>3, <4>1
      <4>3. i \in 1..Len(n)
        BY <3>3, <4>1, <4>2
      <4>4. n[i].do = "terminated"
        BY <3>3, <3>4, <4>2, <4>3 DEF Announces
      <4> QED
        BY <2>13, <4>2, <4>3, <4>4
    <3>5. m + 1 \in DOMAIN todo'[a] /\ Announces(t, a, m + 1)'
      <4>1. m + 1 \in 1..Len(n)
        BY <2>7
      <4>2. m + 1 \in DOMAIN todo'[a] /\ todo'[a][m + 1] = E1("terminated", t)
        BY <2>7, <3>3, <4>1
      <4> QED
        BY <1>3, <2>3, <4>2, EndIsSound DEF Announces
    <3>6. Actors' = Actors
      BY DEF Actors, Tasks
    <3>7. /\ \A b, c \in Actors : \A i \in DOMAIN todo'[b], j \in DOMAIN todo'[c] :
                Announces(t, b, i)' /\ Announces(t, c, j)' => b = c /\ i = j
          /\ \A b \in Actors : \A i \in DOMAIN todo'[b] :
                Announces(t, b, i)' => Terminal(row'[t]) /\ ~Announced(t)'
          /\ \E b \in Actors : \E i \in DOMAIN todo'[b] : Announces(t, b, i)'
      BY <2>3, <3>2, <3>4, <3>5
    <3> QED
      BY <3>2, <3>6, <3>7 DEF Ended
  <2>19. Endings'
    <3>1. \A u \in Tasks : Ended(u)'
      BY <2>17, <2>18
    <3> QED
      BY <3>1 DEF Endings, Tasks
  <2> QED
    BY <2>9, <2>10, <2>11, <2>12, <2>19 DEF RegistryInv
<1> QED
  BY <1>5, <1>6 DEF Flip


-----------------------------------------------------------------------------
(* A move that touches the steps of actor a alone, none of which announces *)
(* an end, and at most inserts the row of a.                               *)
LEMMA LocalMove ==
    ASSUME RegistryInv, TypeOK', NEW a \in Actors,
           NEW x \in Seq(AllSteps), todo' = [todo EXCEPT ![a] = x],
           \A i \in DOMAIN todo[a] : todo[a][i].do # "terminated",
           \A i \in DOMAIN x : x[i].do # "terminated",
           run' \in [Tasks -> RunStates],
           \A t \in Tasks \ {a} : row'[t] = row[t] /\ run'[t] = run[t],
           a \in Tasks => /\ row'[a] = row[a] \/ (~Visible(a) /\ row'[a].status = "running")
                          /\ run[a] # "lost" /\ run'[a] \notin {"lost", "idle"},
           \A b \in Actors \ {a} : bgLock' = b <=> bgLock = b,
           UNCHANGED <<archive, events>>, Admitted',
           (Registered(a) \/ Entering(a) \/ Claiming(a))'
    PROVE  RegistryInv'
<1> USE DEF Visible
<1>0. /\ todo \in [Actors -> Seq(AllSteps)] /\ Actors = Tasks \cup Callers /\ Actors' = Actors
      /\ Background \subseteq Tasks
  BY DEF RegistryInv, Typed, AllSteps, Actors, Tasks
<1>1. todo' \in [Actors -> Seq(AllSteps)] /\ todo'[a] = x
      /\ \A b \in Actors \ {a} : todo'[b] = todo[b]
  BY <1>0
<1>2. \A t \in Tasks : /\ row[t].status # "none" => row'[t].status # "none"
                       /\ Terminal(row'[t]) <=> Terminal(row[t])
  BY DEF Terminal
<1>3. SoundSteps(row) \subseteq SoundSteps(row')
  BY <1>2, SoundStaysSound
<1>4. ASSUME NEW b \in Actors, b # a PROVE (Registered(b) \/ Entering(b) \/ Claiming(b))'
  <2>0. /\ bgLock' = b <=> bgLock = b
        /\ b \in Tasks => row'[b] = row[b] /\ run'[b] = run[b]
    BY <1>4
  <2>1. CASE Registered(b)
    <3>1. todo[b] \in Seq(SoundSteps(row'))
      BY <1>3, <2>1, SeqMonotonic DEF Registered
    <3> QED
      BY <1>1, <1>4, <2>0, <2>1, <3>1 DEF Registered
  <2>2. CASE Entering(b)
    BY <1>1, <1>4, <2>0, <2>2 DEF Entering
  <2>3. CASE Claiming(b)
    <3>1. PICK p \in Seq(SoundSteps(row)) : todo[b] = p \o <<E1("claim", b), E1("attach", b)>>
      BY <2>3 DEF Claiming
    <3>2. p \in Seq(SoundSteps(row'))
      BY <1>3, SeqMonotonic
    <3> QED
      BY <1>0, <1>1, <1>4, <2>0, <2>3, <3>1, <3>2 DEF Claiming
  <2> QED
    BY <2>1, <2>2, <2>3 DEF RegistryInv, Shape
<1>5. Shape'
  BY <1>0, <1>4 DEF Shape
<1>6. ASSUME NEW t \in Tasks PROVE Ended(t)'
  <2>1. Ended(t)
    BY DEF RegistryInv, Endings
  <2>2. Ends(t)' = Ends(t) /\ (Announced(t)' <=> Announced(t))
    BY DEF Ends, Announced
  <2>3. \A i \in DOMAIN todo[a] : ~Announces(t, a, i)
    BY DEF Announces
  <2>4. \A i \in DOMAIN todo'[a] : ~Announces(t, a, i)'
    BY <1>1 DEF Announces
  <2>5. ASSUME NEW b \in Actors, b # a
        PROVE  DOMAIN todo'[b] = DOMAIN todo[b]
               /\ \A i \in DOMAIN todo[b] : Announces(t, b, i)' <=> Announces(t, b, i)
    BY <1>1, <2>5 DEF Announces
  <2>6. run'[t] # "lost" <=> run[t] # "lost"
    OBVIOUS
  <2>7. /\ \A b, c \in Actors : \A i \in DOMAIN todo'[b], j \in DOMAIN todo'[c] :
              Announces(t, b, i)' /\ Announces(t, c, j)' => b = c /\ i = j
        /\ \A b \in Actors : \A i \in DOMAIN todo'[b] :
              Announces(t, b, i)' => Terminal(row'[t]) /\ ~Announced(t)'
    BY <1>2, <2>1, <2>2, <2>4, <2>5 DEF Ended
  <2>8. run'[t] # "lost" /\ Terminal(row'[t]) =>
           Announced(t)' \/ \E b \in Actors : \E i \in DOMAIN todo'[b] : Announces(t, b, i)'
    BY <1>2, <2>1, <2>2, <2>3, <2>5, <2>6 DEF Ended
  <2>9. (Announced(t)' => Terminal(row'[t])) /\ \A i, j \in Ends(t)' : i = j
    BY <1>2, <2>1, <2>2 DEF Ended
  <2> QED
    BY <1>0, <2>7, <2>8, <2>9 DEF Ended
<1>7. Endings'
  <2>1. \A t \in Tasks : Ended(t)'
    BY <1>6
  <2> QED
    BY <2>1 DEF Endings, Tasks
<1>8. Typed'
  BY <1>1 DEF RegistryInv, Typed, AllSteps, Actors, Tasks, Steps, EntrySteps, Rows
<1>9. Fresh'
  <2>1. \A t \in Tasks : run'[t] = "idle" => run[t] = "idle" /\ row'[t] = row[t]
    OBVIOUS
  <2> QED
    BY <1>2, <2>1 DEF RegistryInv, Fresh
<1> QED
  BY <1>5, <1>7, <1>8, <1>9 DEF RegistryInv

(* What the limit counts, when it does not change. *)
LEMMA SameLive ==
    ASSUME RegistryInv, Live' = Live, background \subseteq background', bgLock' = bgLock
    PROVE  Admitted'
BY DEF RegistryInv, Admitted

LEMMA LiveIsFinite ==
    /\ Live \in SUBSET Tasks /\ IsFiniteSet(Live) /\ Cardinality(Live) \in Nat
    /\ \A t : /\ IsFiniteSet(Live \ {t}) /\ Cardinality(Live \ {t}) \in Nat
              /\ Cardinality(Live) <= Cardinality(Live \ {t}) + 1
<1>1. Live \in SUBSET Tasks
  BY DEF Live, Tasks
<1>2. IsFiniteSet(Live)
  BY <1>1, RegistryAssumption, FS_Subset
<1> QED
  BY <1>1, <1>2, FS_CardinalityType, FS_RemoveElement

(* A runner without steps has finished its registration, or has none. *)
LEMMA FreeIsRegistered ==
    ASSUME RegistryInv, NEW t \in Tasks, todo[t] = <<>>
    PROVE  Registered(t)
<1>1. Registered(t) \/ Entering(t) \/ Claiming(t)
  BY DEF RegistryInv, Shape, Actors
<1>2. ~Entering(t)
  BY DEF Entering
<1>3. ASSUME Claiming(t) PROVE FALSE
  <2>1. PICK p \in Seq(SoundSteps(row)) : todo[t] = p \o <<E1("claim", t), E1("attach", t)>>
    BY <1>3 DEF Claiming
  <2> DEFINE q == <<E1("claim", t), E1("attach", t)>>
  <2>2. p \in Seq(AllSteps) /\ q \in Seq(AllSteps) /\ Len(q) = 2
    BY <1>3, SoundIsAll, ClaimTail DEF Claiming
  <2> HIDE DEF q
  <2>3. Len(p \o q) = Len(p) + 2 /\ Len(p) \in Nat
    <3>1. \A y, z \in Seq(AllSteps) : Len(y \o z) = Len(y) + Len(z) /\ Len(y) \in Nat
      BY ConcatProperties, LenProperties
    <3> QED
      BY <2>2, <3>1
  <2>4. Len(p \o q) = 0
    BY <2>1 DEF q
  <2> QED
    BY <2>3, <2>4
<1> QED
  BY <1>1, <1>2, <1>3

(* A runner between two calls takes a turn. *)
LEMMA TurnKeeps ==
    ASSUME RegistryInv, NEW t \in Tasks, todo[t] = <<>>, run[t] # "lost",
           NEW x \in Seq(QuietSteps(row)), NEW where \in RunStates \ {"idle", "lost"},
           where \in Active => Visible(t), Turn(t, x, where),
           child' \in [Tasks -> {"none", "running", "exited", "killed"}]
    PROVE  RegistryInv'
<1>1. /\ x \in Seq(SoundSteps(row)) /\ x \in Seq(AllSteps)
      /\ \A i \in DOMAIN x : x[i].do # "terminated"
  <2>1. \A i \in DOMAIN x : x[i] \in QuietSteps(row)
    BY ElementOfSeq, LenProperties
  <2> QED
    BY <2>1, QuietIsSound, SoundIsAll DEF QuietSteps
<1>2. /\ todo' = [todo EXCEPT ![t] = x] /\ run' = [run EXCEPT ![t] = where]
      /\ UNCHANGED <<row, archive, signals, fired, background, bgLock, releases, released,
                     events, calls, restarts>>
  BY DEF Turn, mem
<1>3. TypeOK /\ run \in [Tasks -> RunStates] /\ todo \in [Actors -> Seq(AllSteps)] /\ t \in Actors
  BY DEF RegistryInv, Typed, AllSteps, Actors
<1>4. TypeOK'
  BY <1>2, <1>3 DEF TypeOK
<1>5. run' \in [Tasks -> RunStates] /\ run'[t] = where /\ \A u \in Tasks \ {t} : run'[u] = run[u]
  BY <1>2, <1>3
<1>6. Admitted'
  <2>1. Live' = Live
    BY <1>2, <1>5 DEF Live, Running, Tasks
  <2> QED
    BY <1>2, <2>1, SameLive
<1>7. Registered(t)'
  <2>1. Registered(t)
    BY FreeIsRegistered
  <2> QED
    BY <1>1, <1>2, <1>3, <1>5, <2>1 DEF Registered, Visible
<1>8. \A i \in DOMAIN todo[t] : todo[t][i].do # "terminated"
  OBVIOUS
<1> QED
  BY <1>1, <1>2, <1>3, <1>4, <1>5, <1>6, <1>7, <1>8, LocalMove


LEMMA RunnerSteps ==
    ASSUME RegistryInv, NEW t \in Tasks, Runs(t) \/ Interrupted(t)
    PROVE  RegistryInv'
<1> USE DEF Free
<1>1. todo[t] = <<>> /\ run[t] \in Active
  BY DEF Runs, Interrupted, Exec, ExecFails, BackgroundCancelled, BackgroundFinishes,
         ForegroundReleased, ForegroundFinishes, HandOver, ContinuationCancelled,
         ContinuationFinishes, BackgroundTimesOut, ForegroundTimesOut, ForegroundCancelled,
         RearmedDeadline, Active
<1>2. row[t].status # "none" /\ Visible(t) /\ run[t] # "lost"
  BY <1>1, FreeIsRegistered DEF Registered, Visible, Active
<1>3. child \in [Tasks -> {"none", "running", "exited", "killed"}]
  BY DEF RegistryInv, Typed, TypeOK
<1> DEFINE Calls == Seq(QuietSteps(row))
<1>4. ASSUME NEW x \in Calls, NEW where \in RunStates \ {"idle", "lost"},
             Turn(t, x, where), UNCHANGED child \/ child' = [child EXCEPT ![t] = "running"]
      PROVE  RegistryInv'
  <2>1. child' \in [Tasks -> {"none", "running", "exited", "killed"}]
    BY <1>3, <1>4
  <2> QED
    BY <1>1, <1>2, <1>4, <2>1, TurnKeeps
<1>5. /\ Do("kill", t) \in Calls /\ Do("attach", t) \in Calls
      /\ Do("fingerprint", t) \in Calls /\ DetachForeground(t) \in Calls
  BY <1>2, PlainIsQuiet DEF PlainKinds, DetachForeground
<1>6. \A to \in Outcomes : Transition(t, to) \in Calls /\ SettleRun(t, to) \in Calls
  BY <1>2, StatusIsQuiet
<1>7. Stop(t) \in Calls /\ <<>> \in Calls
  BY <1>2, StopIsQuiet, NothingIsQuiet
<1>8. \A x, y \in Calls : x \o y \in Calls
  BY ConcatProperties
<1> HIDE DEF Calls
<1>9. "completed" \in Outcomes /\ "failed" \in Outcomes
  BY DEF Outcomes
<1>10. /\ {"background", "foreground", "handover", "continued", "ended"}
             \subseteq RunStates \ {"idle", "lost"}
       /\ Watching(t) \in RunStates \ {"idle", "lost"}
  BY DEF RunStates, Watching
<1>11. CASE Exec(t)
  BY <1>4, <1>5, <1>7, <1>10, <1>11 DEF Exec
<1>12. CASE ExecFails(t)
  BY <1>4, <1>6, <1>9, <1>10, <1>12 DEF ExecFails
<1>13. CASE BackgroundCancelled(t) \/ BackgroundTimesOut(t) \/ ContinuationCancelled(t)
  BY <1>4, <1>5, <1>6, <1>8, <1>9, <1>10, <1>13
     DEF BackgroundCancelled, BackgroundTimesOut, ContinuationCancelled
<1>14. CASE BackgroundFinishes(t)
  BY <1>4, <1>6, <1>9, <1>10, <1>14 DEF BackgroundFinishes
<1>15. CASE ForegroundTimesOut(t)
  BY <1>4, <1>5, <1>8, <1>10, <1>15 DEF ForegroundTimesOut
<1>16. CASE ForegroundCancelled(t)
  BY <1>4, <1>5, <1>7, <1>8, <1>10, <1>16 DEF ForegroundCancelled
<1>17. CASE ForegroundReleased(t)
  BY <1>4, <1>5, <1>7, <1>8, <1>10, <1>17 DEF ForegroundReleased
<1>18. CASE ForegroundFinishes(t)
  BY <1>4, <1>6, <1>9, <1>10, <1>18 DEF ForegroundFinishes
<1>19. CASE HandOver(t)
  BY <1>4, <1>5, <1>7, <1>10, <1>19 DEF HandOver
<1>20. CASE RearmedDeadline(t)
  BY <1>4, <1>5, <1>6, <1>8, <1>9, <1>10, <1>20 DEF RearmedDeadline
<1>21. CASE ContinuationFinishes(t)
  BY <1>4, <1>6, <1>9, <1>10, <1>21 DEF ContinuationFinishes
<1> QED
  BY <1>11, <1>12, <1>13, <1>14, <1>15, <1>16, <1>17, <1>18, <1>19, <1>20, <1>21
     DEF Runs, Interrupted

(* The steps of a registration. *)
LEMMA EntryTypes ==
    ASSUME NEW t \in Tasks
    PROVE  /\ \A k \in EntryKinds \cup {"attach", "started"} :
                 /\ E1(k, t) \in AllSteps /\ Do(k, t) = <<E1(k, t)>>
                 /\ E1(k, t).do = k /\ E1(k, t).t = t
           /\ EntryKinds = {"admit", "arm", "insert", "claim"}
BY DEF E1, Do, AllSteps, EntrySteps, Steps, PlainKinds, EntryKinds

LEMMA StartSteps ==
    ASSUME RegistryInv, NEW t \in Tasks, StartBackground(t) \/ StartForeground(t)
    PROVE  RegistryInv'
<1> DEFINE x == IF t \in Background THEN <<E1("admit", t), E1("attach", t)>>
                ELSE <<E1("arm", t), E1("insert", t)>>
<1>1. /\ todo[t] = <<>> /\ run[t] = "idle" /\ UNCHANGED child
      /\ (StartBackground(t) /\ t \in Background /\ t \notin Foreground)
            \/ (StartForeground(t) /\ t \in Foreground /\ t \notin Background)
  BY RegistryAssumption DEF StartBackground, StartForeground, Free
<1>2. Turn(t, x, "exec")
  <2>1. /\ Do("admit", t) = <<E1("admit", t)>> /\ Do("attach", t) = <<E1("attach", t)>>
        /\ Do("arm", t) = <<E1("arm", t)>> /\ Do("insert", t) = <<E1("insert", t)>>
    BY EntryTypes
  <2>2. \A e, f : <<e>> \o <<f>> = <<e, f>>
    BY ShortConcat
  <2>3. x = IF t \in Background THEN Do("admit", t) \o Do("attach", t)
            ELSE Do("arm", t) \o Do("insert", t)
    BY <2>1, <2>2
  <2> HIDE DEF x
  <2> QED
    BY <1>1, <2>3 DEF StartBackground, StartForeground
<1>3. /\ x \in Seq(AllSteps) /\ \A i \in DOMAIN x : x[i].do # "terminated"
      /\ t \in Background => x = <<E1("admit", t), E1("attach", t)>>
      /\ t \in Foreground => x = <<E1("arm", t), E1("insert", t)>>
  BY <1>1, EntryTypes
<1> HIDE DEF x
<1>4. /\ todo' = [todo EXCEPT ![t] = x] /\ run' = [run EXCEPT ![t] = "exec"]
      /\ UNCHANGED <<row, archive, signals, fired, background, bgLock, releases, released,
                     events, calls, restarts>>
  BY <1>2 DEF Turn, mem
<1>5. TypeOK /\ run \in [Tasks -> RunStates] /\ todo \in [Actors -> Seq(AllSteps)] /\ t \in Actors
  BY DEF RegistryInv, Typed, AllSteps, Actors
<1>6. TypeOK'
  BY <1>1, <1>4, <1>5 DEF TypeOK
<1>7. run' \in [Tasks -> RunStates] /\ run'[t] = "exec" /\ \A u \in Tasks \ {t} : run'[u] = run[u]
  BY <1>4, <1>5 DEF RunStates
<1>8. Admitted'
  <2>1. Live' = Live
    BY <1>1, <1>4, <1>7 DEF Live, Running, Tasks
  <2> QED
    BY <1>4, <2>1, SameLive
<1>9. row[t].status = "none" /\ bgLock # t
  BY <1>1, FreeIsRegistered DEF RegistryInv, Fresh, Registered
<1>10. Entering(t)'
  BY <1>1, <1>3, <1>4, <1>5, <1>7, <1>9 DEF Entering
<1>11. \A i \in DOMAIN todo[t] : todo[t][i].do # "terminated"
  BY <1>1
<1> QED
  BY <1>1, <1>3, <1>4, <1>5, <1>6, <1>7, <1>8, <1>10, <1>11, LocalMove


(* A runner at a step of its registration. *)
LEMMA EntryHead ==
    ASSUME RegistryInv, NEW a \in Actors, todo[a] # <<>>, Head(todo[a]).do \in EntryKinds
    PROVE  /\ a \in Tasks /\ Task(a) = a /\ run[a] = "exec"
           /\ \A i \in DOMAIN todo[a] : todo[a][i].do # "terminated"
           /\ \/ Entering(a)
              \/ Claiming(a) /\ todo[a] = <<E1("claim", a), E1("attach", a)>>
<1>0. /\ \A s \in SoundSteps(row) : s.do \notin EntryKinds
      /\ Background \subseteq Tasks
  BY StepFields DEF SoundSteps, OutKinds, PlainKinds, StatusKinds, CopyKinds, GroupKinds,
     ScanKinds, EntryKinds, Tasks
<1>1. ~Registered(a)
  <2>1. ASSUME todo[a] \in Seq(SoundSteps(row)) PROVE FALSE
    <3>1. Head(todo[a]) \in SoundSteps(row)
      BY <2>1, HeadTailProperties
    <3> QED
      BY <1>0, <3>1
  <2> QED
    BY <2>1 DEF Registered
<1>2. CASE Entering(a)
  <2>1. a \in Tasks /\ run[a] = "exec"
    BY <1>2 DEF Entering
  <2>2. /\ Head(todo[a]) \in {E1("admit", a), E1("arm", a), E1("insert", a)}
        /\ \A i \in DOMAIN todo[a] :
              todo[a][i] \in {E1("admit", a), E1("arm", a), E1("insert", a), E1("claim", a),
                              E1("attach", a)}
    BY <1>2 DEF Entering
  <2>3. \A k \in EntryKinds \cup {"attach"} : E1(k, a).t = a /\ E1(k, a).do = k
    BY DEF E1
  <2>4. Task(a) = a /\ \A i \in DOMAIN todo[a] : todo[a][i].do # "terminated"
    BY <2>2, <2>3 DEF Task, EntryKinds
  <2> QED
    BY <1>2, <2>1, <2>4
<1>3. CASE Claiming(a)
  <2> DEFINE q == <<E1("claim", a), E1("attach", a)>>
  <2>1. PICK p \in Seq(SoundSteps(row)) : todo[a] = p \o q
    BY <1>3 DEF Claiming
  <2>2. a \in Background /\ run[a] = "exec"
    BY <1>3 DEF Claiming
  <2>3. q \in Seq(AllSteps) /\ p \in Seq(AllSteps) /\ q # <<>> /\ Head(q) = E1("claim", a)
    BY <2>2, ClaimTail, SoundIsAll
  <2>4. q[1] = E1("claim", a) /\ q[2] = E1("attach", a) /\ DOMAIN q = {1, 2}
    OBVIOUS
  <2> HIDE DEF q
  <2>5. p = <<>>
    <3>1. ASSUME p # <<>> PROVE FALSE
      <4>1. Head(todo[a]) = Head(p)
        BY <2>1, <2>3, <3>1, HeadOfConcat
      <4>2. Head(p) \in SoundSteps(row)
        BY <3>1, HeadTailProperties
      <4> QED
        BY <1>0, <4>1, <4>2
    <3> QED
      BY <3>1
  <2>6. todo[a] = q
    BY <2>1, <2>3, <2>5, ConcatEmptySeq
  <2>7. \A k \in EntryKinds \cup {"attach"} : E1(k, a).t = a /\ E1(k, a).do = k
    BY DEF E1
  <2>8. Task(a) = a /\ \A i \in DOMAIN todo[a] : todo[a][i].do # "terminated"
    BY <2>3, <2>4, <2>6, <2>7 DEF Task, EntryKinds
  <2> QED
    BY <1>0, <1>3, <2>2, <2>6, <2>8 DEF q
<1> QED
  BY <1>1, <1>2, <1>3 DEF RegistryInv, Shape


(* Two lists that announce no end, one after the other. *)
LEMMA NoEndConcat ==
    ASSUME NEW p \in Seq(AllSteps), NEW q \in Seq(AllSteps),
           \A i \in DOMAIN p : p[i].do # "terminated",
           \A i \in DOMAIN q : q[i].do # "terminated"
    PROVE  /\ p \o q \in Seq(AllSteps)
           /\ \A i \in DOMAIN (p \o q) : (p \o q)[i].do # "terminated"
<1> DEFINE x == p \o q
<1>1. /\ x \in Seq(AllSteps) /\ Len(x) = Len(p) + Len(q)
      /\ \A i \in 1..Len(p) + Len(q) : x[i] = IF i <= Len(p) THEN p[i] ELSE q[i - Len(p)]
  BY ConcatProperties
<1>2. /\ Len(p) \in Nat /\ DOMAIN p = 1..Len(p) /\ Len(q) \in Nat /\ DOMAIN q = 1..Len(q)
  BY LenProperties
<1> HIDE DEF x
<1>3. DOMAIN x = 1..Len(p) + Len(q)
  BY <1>1, LenProperties
<1>4. ASSUME NEW i \in DOMAIN x PROVE x[i].do # "terminated"
  <2>1. CASE i <= Len(p)
    BY <1>1, <1>2, <1>3, <2>1
  <2>2. CASE ~(i <= Len(p))
    <3>1. i - Len(p) \in 1..Len(q) /\ x[i] = q[i - Len(p)]
      BY <1>1, <1>2, <1>3, <2>2
    <3> QED
      BY <1>2, <3>1
  <2> QED
    BY <2>1, <2>2
<1> QED
  BY <1>1, <1>4 DEF x

(* The lock of background_ids is held from the count to the claim, so the  *)
(* count the check saw still bounds the others when the row appears.       *)
LEMMA EntryMoves ==
    ASSUME RegistryInv, NEW a \in Actors, Admit(a) \/ Arm(a) \/ Insert(a) \/ Claim(a)
    PROVE  RegistryInv'
<1> USE DEF At
<1>1. todo[a] # <<>> /\ Head(todo[a]).do \in EntryKinds
  BY DEF Admit, Arm, Insert, Claim, EntryKinds
<1>2. /\ a \in Tasks /\ Task(a) = a /\ run[a] = "exec"
      /\ \A i \in DOMAIN todo[a] : todo[a][i].do # "terminated"
      /\ \/ Entering(a)
         \/ Claiming(a) /\ todo[a] = <<E1("claim", a), E1("attach", a)>>
  BY <1>1, EntryHead
<1>3. /\ TypeOK /\ row \in [Tasks -> Rows] /\ run \in [Tasks -> RunStates]
      /\ todo \in [Actors -> Seq(AllSteps)] /\ bgLock \in Tasks \cup {Nobody}
  BY DEF RegistryInv, Typed, TypeOK, AllSteps
<1>4. /\ E1("admit", a).do = "admit" /\ E1("insert", a).do = "insert"
      /\ E1("claim", a).do = "claim" /\ E1("arm", a).do = "arm" /\ E1("attach", a).do = "attach"
      /\ E1("started", a).do = "started"
      /\ E1("admit", a) \in AllSteps /\ E1("insert", a) \in AllSteps
      /\ E1("claim", a) \in AllSteps /\ E1("attach", a) \in AllSteps
      /\ Do("insert", a) = <<E1("insert", a)>> /\ Do("claim", a) = <<E1("claim", a)>>
  BY <1>2, EntryTypes
<1>5. a \notin Callers /\ a # Nobody /\ Nobody \notin Actors
  BY <1>2, RegistryAssumption DEF Actors
<1>6. MaxRunningTasks \in Nat /\ Nobody \notin Tasks
  BY RegistryAssumption
<1>7. ASSUME NEW e, NEW f, NEW g
      PROVE  /\ <<e>> \o <<f>> = <<e, f>>
             /\ Tail(<<e, f>>) = <<f>> /\ Tail(<<e, f, g>>) = <<f, g>> /\ Tail(<<e>>) = <<>>
             /\ Head(<<e, f>>) = e /\ Head(<<e, f, g>>) = e /\ Head(<<e>>) = e
  BY ShortConcat
<1>8. /\ Entering(a) => \/ Head(todo[a]) = E1("admit", a) \/ Head(todo[a]) = E1("insert", a)
                        \/ Head(todo[a]) = E1("arm", a)
      /\ Claiming(a) /\ todo[a] = <<E1("claim", a), E1("attach", a)>> =>
            Head(todo[a]) = E1("claim", a)
  BY <1>7 DEF Entering
<1>9. ASSUME NEW x \in Seq(AllSteps), todo' = [todo EXCEPT ![a] = x], TypeOK',
             \A i \in DOMAIN x : x[i].do # "terminated",
             run' = run \/ run' = [run EXCEPT ![a] = "ended"],
             row' = row \/ (row[a].status = "none" /\ \E r \in Rows :
                                r.status = "running" /\ row' = [row EXCEPT ![a] = r]),
             \A b \in Actors \ {a} : bgLock' = b <=> bgLock = b,
             UNCHANGED <<archive, events>>, Admitted',
             (Registered(a) \/ Entering(a) \/ Claiming(a))'
      PROVE  RegistryInv'
  <2>1. run' \in [Tasks -> RunStates] /\ run'[a] \notin {"lost", "idle"}
        /\ \A t \in Tasks \ {a} : run'[t] = run[t]
    BY <1>2, <1>3, <1>9 DEF RunStates
  <2>2. /\ \A t \in Tasks \ {a} : row'[t] = row[t]
        /\ row'[a] = row[a] \/ (~Visible(a) /\ row'[a].status = "running")
    BY <1>2, <1>3, <1>9 DEF Visible
  <2> QED
    BY <1>2, <1>9, <2>1, <2>2, LocalMove, ZenonT(40)
<1>10. CASE Admit(a)
  <2>1. Head(todo[a]).do = "admit" /\ bgLock = Nobody
    BY <1>10 DEF Admit
  <2>2. Entering(a) /\ Head(todo[a]) = E1("admit", a)
    BY <1>2, <1>4, <1>8, <2>1
  <2>3. a \in Background /\ todo[a] = <<E1("admit", a), E1("attach", a)>> /\ row[a].status = "none"
    BY <1>4, <1>7, <2>1, <2>2 DEF Entering
  <2>4. UNCHANGED <<row, archive, signals, fired, background, releases, released, events,
                    child, calls, restarts>>
    BY <1>10 DEF Admit
  <2>5. Live \subseteq background
    BY <1>6, <2>1, LiveIsFinite DEF RegistryInv, Admitted
  <2> DEFINE full == MaxRunningTasks > 0 /\ RunningBackgroundCount >= MaxRunningTasks
  <2>6. CASE full /\ todo' = [todo EXCEPT ![a] = <<>>] /\ run' = [run EXCEPT ![a] = "ended"]
             /\ UNCHANGED bgLock
    <3>1. TypeOK'
      BY <1>3, <2>4, <2>6 DEF TypeOK
    <3>2. Live' = Live
      BY <1>2, <1>3, <2>3, <2>4, <2>6 DEF Live, Running, Tasks
    <3>3. Admitted'
      BY <2>4, <2>6, <3>2, SameLive
    <3>4. <<>> \in Seq(AllSteps) /\ <<>> \in Seq(SoundSteps(row'))
      OBVIOUS
    <3>5. Registered(a)'
      <4>1. todo'[a] = <<>> /\ run'[a] = "ended" /\ bgLock' # a
        BY <1>2, <1>3, <1>5, <2>1, <2>6
      <4> QED
        BY <3>4, <4>1 DEF Registered, Active
    <3> PICK x : x = <<>>
      OBVIOUS
    <3>6. x \in Seq(AllSteps) /\ todo' = [todo EXCEPT ![a] = x]
          /\ \A i \in DOMAIN x : x[i].do # "terminated"
      BY <2>6
    <3>7. run' = [run EXCEPT ![a] = "ended"] /\ UNCHANGED <<row, archive, events, bgLock>>
      BY <2>4, <2>6
    <3> QED
      BY <1>9, <3>1, <3>3, <3>5, <3>6, <3>7
  <2>7. CASE ~full /\ GoOn(a, Do("insert", a) \o Do("claim", a)) /\ bgLock' = a /\ UNCHANGED run
    <3> DEFINE x == <<E1("insert", a), E1("claim", a), E1("attach", a)>>
    <3>1. todo' = [todo EXCEPT ![a] = x]
      <4>1. Tail(todo[a]) = <<E1("attach", a)>>
        BY <1>7, <2>3
      <4>2. ASSUME NEW e, NEW f, NEW g PROVE (<<e>> \o <<f>>) \o <<g>> = <<e, f, g>>
        <5>1. <<e>> \o <<f>> = <<e, f>>
          BY <1>7
        <5>2. <<e, f>> \o <<g>> = <<e, f, g>>
          BY TwoAndOne
        <5> QED
          BY <5>1, <5>2
      <4>3. (Do("insert", a) \o Do("claim", a)) \o Tail(todo[a]) = x
        BY <1>4, <4>1, <4>2
      <4> QED
        BY <2>7, <4>3 DEF GoOn
    <3>2. x \in Seq(AllSteps) /\ \A i \in DOMAIN x : x[i].do # "terminated"
      BY <1>4
    <3>3. TypeOK'
      BY <1>2, <1>3, <2>4, <2>7 DEF TypeOK
    <3>4. Live' = Live
      BY <2>4, <2>7 DEF Live, Running, Tasks
    <3>5. Admitted'
      <4>1. Live' \ {bgLock'} \subseteq background'
        BY <2>4, <2>5, <3>4
      <4> DEFINE seen == {t \in background : Running(t)}
      <4>2. IsFiniteSet(seen) /\ Live \subseteq seen
        <5>1. seen \in SUBSET Tasks
          BY <1>3 DEF TypeOK
        <5>2. Live \subseteq seen
          BY <2>5 DEF Live
        <5> QED
          BY <5>1, <5>2, FS_Subset, RegistryAssumption
      <4>3. Cardinality(Live) <= Cardinality(seen) /\ Cardinality(seen) \in Nat
        BY <4>2, FS_Subset, FS_CardinalityType
      <4>4. Live \ {a} = Live
        BY <2>3 DEF Live, Running
      <4>5. ASSUME MaxRunningTasks > 0 PROVE Cardinality(Live) < MaxRunningTasks
        <5>1. ~(Cardinality(seen) >= MaxRunningTasks)
          BY <2>7, <4>5 DEF RunningBackgroundCount
        <5> HIDE DEF seen
        <5> QED
          BY <1>6, <4>3, <5>1, LiveIsFinite
      <4>6. MaxRunningTasks > 0 => /\ Cardinality(Live') <= MaxRunningTasks
                                   /\ Cardinality(Live' \ {bgLock'}) < MaxRunningTasks
        BY <1>6, <2>7, <3>4, <4>4, <4>5, LiveIsFinite
      <4> QED
        BY <4>1, <4>6 DEF Admitted
    <3>6. Entering(a)'
      BY <1>2, <1>3, <2>3, <2>4, <2>7, <3>1 DEF Entering
    <3>7. \A b \in Actors \ {a} : bgLock' = b <=> bgLock = b
      BY <1>5, <2>1, <2>7
    <3> HIDE DEF x
    <3> QED
      BY <1>9, <2>4, <2>7, <3>1, <3>2, <3>3, <3>5, <3>6, <3>7
  <2> QED
    BY <1>2, <1>10, <2>6, <2>7 DEF Admit
<1>11. CASE Arm(a)
  <2>1. Head(todo[a]).do = "arm" /\ GoOn(a, <<>>) /\ releases' = releases \cup {a}
        /\ UNCHANGED <<row, archive, signals, fired, background, bgLock, released, events,
                       child, run, calls, restarts>>
    BY <1>2, <1>11 DEF Arm
  <2>2. Entering(a) /\ Head(todo[a]) = E1("arm", a)
    BY <1>2, <1>4, <1>8, <2>1
  <2>3. /\ a \in Foreground /\ bgLock # a /\ row[a].status = "none"
        /\ todo[a] = <<E1("arm", a), E1("insert", a)>>
    BY <1>4, <1>7, <2>1, <2>2 DEF Entering
  <2> PICK x : x = <<E1("insert", a)>>
    OBVIOUS
  <2>4. x \in Seq(AllSteps) /\ \A i \in DOMAIN x : x[i].do # "terminated"
    BY <1>4
  <2>5. todo' = [todo EXCEPT ![a] = x]
    <3>1. Tail(todo[a]) = x
      BY <1>7, <2>3
    <3>2. <<>> \o Tail(todo[a]) = x
      BY <2>4, <3>1, ConcatEmptySeq
    <3> QED
      BY <2>1, <3>2 DEF GoOn
  <2>6. TypeOK'
    BY <1>2, <1>3, <2>1 DEF TypeOK
  <2>7. Admitted'
    <3>1. Live' = Live
      BY <2>1 DEF Live, Running, Tasks
    <3> QED
      BY <2>1, <3>1, SameLive
  <2>8. Entering(a)'
    BY <1>2, <1>3, <2>1, <2>3, <2>5 DEF Entering
  <2> QED
    BY <1>9, <2>1, <2>4, <2>5, <2>6, <2>7, <2>8
<1>12. CASE Claim(a)
  <2>1. Head(todo[a]).do = "claim" /\ GoOn(a, <<>>) /\ background' = background \cup {a}
        /\ bgLock' = Nobody
        /\ UNCHANGED <<row, archive, signals, fired, releases, released, events, child, run,
                       calls, restarts>>
    BY <1>2, <1>12 DEF Claim
  <2>2. Claiming(a) /\ todo[a] = <<E1("claim", a), E1("attach", a)>>
    BY <1>2, <1>4, <1>8, <2>1
  <2>3. bgLock = a /\ Visible(a) /\ a \in Background
    BY <2>2 DEF Claiming
  <2> PICK x : x = <<E1("attach", a)>>
    OBVIOUS
  <2>4. x \in Seq(AllSteps) /\ \A i \in DOMAIN x : x[i].do # "terminated"
    BY <1>4
  <2>5. todo' = [todo EXCEPT ![a] = x]
    <3>1. Tail(todo[a]) = x
      BY <1>7, <2>2
    <3>2. <<>> \o Tail(todo[a]) = x
      BY <2>4, <3>1, ConcatEmptySeq
    <3> QED
      BY <2>1, <3>2 DEF GoOn
  <2>6. TypeOK'
    BY <1>2, <1>3, <2>1 DEF TypeOK
  <2>7. Admitted'
    <3>1. Live' = Live /\ Live \ {a} \subseteq background
      BY <2>1, <2>3 DEF Live, Running, Tasks, RegistryInv, Admitted
    <3> QED
      BY <2>1, <3>1 DEF RegistryInv, Admitted
  <2>8. Registered(a)'
    <3>1. Do("attach", a) \in Seq(QuietSteps(row)) /\ Do("attach", a) = x
      BY <1>2, <2>3, PlainIsQuiet, EntryTypes DEF PlainKinds, Visible
    <3>2. x \in Seq(SoundSteps(row))
      BY <3>1, QuietIsSound
    <3> QED
      BY <1>2, <1>3, <1>5, <2>1, <2>3, <2>5, <3>2 DEF Registered, Visible
  <2>9. \A b \in Actors \ {a} : bgLock' = b <=> bgLock = b
    BY <1>5, <2>1, <2>3
  <2> QED
    BY <1>9, <2>1, <2>4, <2>5, <2>6, <2>7, <2>8, <2>9
<1>13. CASE Insert(a)
  <2>1. PICK fresh : fresh = [NoRow EXCEPT !.status = "running", !.detached = a \in Background]
    OBVIOUS
  <2>2. fresh \in Rows /\ fresh.status = "running"
    <3>1. (a \in Background) \in BOOLEAN
      OBVIOUS
    <3> QED
      BY <2>1, <3>1 DEF NoRow, Rows, Statuses
  <2>3. PICK p : p = Persist(a, fresh) \o (IF a \in Background THEN Do("started", a) ELSE <<>>)
    OBVIOUS
  <2>4. /\ Head(todo[a]).do = "insert" /\ row' = [row EXCEPT ![a] = fresh] /\ GoOn(a, p)
        /\ UNCHANGED <<archive, signals, fired, background, bgLock, releases, released,
                       events, child, run, calls, restarts>>
    BY <1>2, <1>13, <2>1, <2>3 DEF Insert
  <2>5. Entering(a) /\ Head(todo[a]) = E1("insert", a)
    BY <1>2, <1>4, <1>8, <2>4
  <2>6. /\ row[a].status = "none"
        /\ \/ /\ a \in Background /\ bgLock = a
              /\ todo[a] = <<E1("insert", a), E1("claim", a), E1("attach", a)>>
           \/ a \in Foreground /\ bgLock # a /\ todo[a] = <<E1("insert", a)>>
    BY <1>4, <1>7, <2>4, <2>5 DEF Entering
  <2>7. /\ row' \in [Tasks -> Rows] /\ row'[a] = fresh /\ row'[a].status # "none"
        /\ \A t \in Tasks \ {a} : row'[t] = row[t]
    BY <1>2, <1>3, <2>2, <2>4
  <2>8. TypeOK'
    BY <1>3, <2>4, <2>7 DEF TypeOK
  <2>9. p \in Seq(QuietSteps(row'))
    <3>1. Persist(a, fresh) \in Seq(QuietSteps(row'))
      BY <1>2, <2>2, <2>7, CopyIsQuiet
    <3>2. Do("started", a) \in Seq(QuietSteps(row')) /\ <<>> \in Seq(QuietSteps(row'))
      BY <1>2, <2>7, PlainIsQuiet, NothingIsQuiet DEF PlainKinds
    <3> QED
      BY <2>3, <3>1, <3>2, ConcatProperties
  <2>10. /\ p \in Seq(SoundSteps(row')) /\ p \in Seq(AllSteps)
         /\ \A i \in DOMAIN p : p[i].do # "terminated"
    <3>1. \A i \in DOMAIN p : p[i] \in QuietSteps(row')
      BY <2>9, ElementOfSeq, LenProperties
    <3> QED
      BY <2>9, <3>1, QuietIsSound, SoundIsAll DEF QuietSteps
  <2>11. PICK q : q = Tail(todo[a])
    OBVIOUS
  <2>12. PICK x : x = p \o q
    OBVIOUS
  <2>13. todo' = [todo EXCEPT ![a] = x]
    BY <2>4, <2>11, <2>12 DEF GoOn
  <2>14. ASSUME q \in Seq(AllSteps), \A i \in DOMAIN q : q[i].do # "terminated"
         PROVE  x \in Seq(AllSteps) /\ \A i \in DOMAIN x : x[i].do # "terminated"
    BY <2>10, <2>12, <2>14, NoEndConcat
  <2>15. CASE /\ a \in Background /\ bgLock = a
              /\ todo[a] = <<E1("insert", a), E1("claim", a), E1("attach", a)>>
    <3>1. q = <<E1("claim", a), E1("attach", a)>>
      BY <1>7, <2>11, <2>15
    <3>2. q \in Seq(AllSteps) /\ \A i \in DOMAIN q : q[i].do # "terminated"
      BY <1>4, <3>1
    <3>3. x \in Seq(AllSteps) /\ \A i \in DOMAIN x : x[i].do # "terminated"
      BY <2>14, <3>2
    <3>4. Live' = Live \cup {a}
      BY <1>2, <2>2, <2>4, <2>7, <2>15 DEF Live, Running, Tasks
    <3>5. a \notin Live /\ Live \ {a} = Live /\ Live' \ {a} = Live
      BY <2>6, <3>4 DEF Live, Running
    <3>6. Cardinality(Live') = Cardinality(Live) + 1
      <4>1. IsFiniteSet(Live)
        BY LiveIsFinite
      <4> QED
        BY <3>4, <3>5, <4>1, FS_AddElement
    <3>7. Admitted'
      <4>1. /\ Live \subseteq background
            /\ MaxRunningTasks > 0 => Cardinality(Live) < MaxRunningTasks
        BY <1>5, <2>15, <3>5 DEF RegistryInv, Admitted
      <4>2. Cardinality(Live) \in Nat
        BY LiveIsFinite
      <4>3. /\ Live' \ {bgLock'} = Live /\ background' = background
        BY <2>4, <2>15, <3>5
      <4>4. MaxRunningTasks > 0 => Cardinality(Live') <= MaxRunningTasks
        BY <1>6, <3>6, <4>1, <4>2
      <4> QED
        BY <4>1, <4>3, <4>4 DEF Admitted
    <3>8. Claiming(a)'
      <4>1. todo'[a] = p \o <<E1("claim", a), E1("attach", a)>>
        BY <1>3, <2>12, <2>13, <3>1
      <4> QED
        BY <1>2, <2>4, <2>7, <2>10, <2>15, <4>1 DEF Claiming, Visible
    <3> QED
      BY <1>9, <2>2, <2>4, <2>6, <2>8, <2>13, <3>3, <3>7, <3>8
  <2>16. CASE a \in Foreground /\ bgLock # a /\ todo[a] = <<E1("insert", a)>>
    <3>1. q = <<>> /\ a \notin Background
      BY <1>7, <2>11, <2>16, RegistryAssumption
    <3>2. Live' = Live
      BY <2>4, <2>7, <3>1 DEF Live, Running, Tasks
    <3>3. Admitted'
      BY <2>4, <3>2, SameLive
    <3>4. x = p
      BY <2>10, <2>12, <3>1, ConcatEmptySeq
    <3>5. Registered(a)'
      BY <1>2, <1>3, <2>4, <2>7, <2>10, <2>13, <2>16, <3>4 DEF Registered, Visible
    <3> QED
      BY <1>9, <2>2, <2>4, <2>6, <2>8, <2>10, <2>13, <3>3, <3>4, <3>5
  <2> QED
    BY <2>6, <2>15, <2>16
<1> QED
  BY <1>10, <1>11, <1>12, <1>13


(* A caller from outside takes on a request. *)
LEMMA CallSteps ==
    ASSUME RegistryInv, NEW c \in Callers, Call(c)
    PROVE  RegistryInv'
<1>1. PICK steps \in Requests : todo' = [todo EXCEPT ![c] = steps]
  BY DEF Call
<1>2. /\ todo[c] = <<>> /\ calls < MaxCalls /\ calls' = calls + 1
      /\ UNCHANGED <<row, archive, signals, fired, background, bgLock, releases, released,
                     events, child, run, restarts>>
  BY DEF Call, mem
<1>3. /\ TypeOK /\ row \in [Tasks -> Rows] /\ archive \in [Tasks -> Rows]
      /\ run \in [Tasks -> RunStates]
      /\ todo \in [Actors -> Seq(AllSteps)] /\ c \in Actors /\ c \notin Tasks /\ bgLock # c
  BY RegistryAssumption DEF RegistryInv, Typed, TypeOK, AllSteps, Actors
<1> DEFINE Quietly == Seq(QuietSteps(row))
<1>4. steps \in Quietly
  <2>1. \A x, y \in Quietly : x \o y \in Quietly
    BY ConcatProperties
  <2>2. ASSUME NEW t \in Tasks, row[t].status # "none"
        PROVE  /\ Stop(t) \in Quietly /\ DetachForeground(t) \in Quietly
               /\ Do("stamp", t) \in Quietly /\ Do("stamp", t) \o StopWithGrace(t) \in Quietly
               /\ Do("fire", t) \o Transition(t, "failed") \in Quietly
               /\ \A copy \in Rows : <<[do |-> "dispose", t |-> t, copy |-> copy]>> \in Quietly
    <3>1. /\ DetachForeground(t) \in Quietly /\ Do("stamp", t) \in Quietly
          /\ Do("fire", t) \in Quietly /\ Do("check", t) \in Quietly
      BY <2>2, PlainIsQuiet DEF PlainKinds, DetachForeground
    <3>2. Stop(t) \in Quietly
      BY <2>2, StopIsQuiet
    <3>3. Transition(t, "failed") \in Quietly
      BY <2>2, StatusIsQuiet DEF Outcomes
    <3>4. \A copy \in Rows : <<[do |-> "dispose", t |-> t, copy |-> copy]>> \in Quietly
      BY <2>2, CopyIsQuiet
    <3> HIDE DEF Quietly
    <3>5. StopWithGrace(t) \in Quietly
      BY <2>1, <3>1 DEF StopWithGrace
    <3> QED
      BY <2>1, <3>1, <3>2, <3>3, <3>4, <3>5
  <2>3. <<[do |-> "suppress"], [do |-> "scan"]>> \in Quietly
    <3> DEFINE s1 == [do |-> "suppress"]
               s2 == [do |-> "scan"]
    <3>1. s1 \in Steps /\ s2 \in Steps /\ s1.do = "suppress" /\ s2.do = "scan"
      BY DEF Steps, ScanKinds
    <3> HIDE DEF s1, s2
    <3>2. s1 \in QuietSteps(row) /\ s2 \in QuietSteps(row)
      BY <3>1 DEF QuietSteps, SoundSteps, SoundIn, OneTask, PlainKinds, StatusKinds, CopyKinds,
                  GroupKinds
    <3>3. <<s1, s2>> \in Quietly
      BY <3>2
    <3> QED
      BY <3>3 DEF s1, s2
  <2>4. /\ \A t \in {u \in Tasks : Visible(u)} : t \in Tasks /\ row[t].status # "none"
        /\ \A t \in {u \in Tasks : Running(u)} : t \in Tasks /\ row[t].status # "none"
        /\ \A t \in Candidates : t \in Tasks /\ row[t].status # "none" /\ archive[t] \in Rows
    BY <1>3 DEF Visible, Running, Candidates, RegistryInv, Fresh
  <2> HIDE DEF Quietly
  <2> DEFINE seen == {u \in Tasks : Visible(u)}
             going == {u \in Tasks : Running(u)}
  <2>5. \/ \E t \in seen : steps = Stop(t)
        \/ \E t \in going : steps = Do("stamp", t) \o StopWithGrace(t)
        \/ \E t \in seen : steps = DetachForeground(t)
        \/ \E t \in going : steps = Do("fire", t) \o Transition(t, "failed")
        \/ \E t \in seen : steps = Do("stamp", t)
        \/ steps = <<[do |-> "suppress"], [do |-> "scan"]>>
        \/ \E t \in Candidates : steps = <<[do |-> "dispose", t |-> t, copy |-> archive[t]]>>
    BY <1>1, Zenon DEF Requests
  <2> QED
    BY <2>2, <2>3, <2>4, <2>5
<1>5. /\ steps \in Seq(SoundSteps(row)) /\ steps \in Seq(AllSteps)
      /\ \A i \in DOMAIN steps : steps[i].do # "terminated"
  <2>1. \A i \in DOMAIN steps : steps[i] \in QuietSteps(row)
    BY <1>4, ElementOfSeq, LenProperties
  <2> QED
    BY <1>4, <2>1, QuietIsSound, SoundIsAll DEF QuietSteps
<1>6. TypeOK'
  BY <1>2, <1>3, RegistryAssumption DEF TypeOK
<1>7. Admitted'
  <2>1. Live' = Live
    BY <1>2 DEF Live, Running, Tasks
  <2> QED
    BY <1>2, <2>1, SameLive
<1>8. Registered(c)'
  BY <1>1, <1>2, <1>3, <1>5 DEF Registered
<1>9. \A i \in DOMAIN todo[c] : todo[c][i].do # "terminated"
  BY <1>2
<1> QED
  BY <1>1, <1>2, <1>3, <1>5, <1>6, <1>7, <1>8, <1>9, LocalMove

(* Nothing the invariant speaks of changes. *)
LEMMA OutsideSteps ==
    ASSUME RegistryInv, TypeOK', UNCHANGED <<mem, archive, run, todo>>
    PROVE  RegistryInv'
<1>0. /\ row' = row /\ archive' = archive /\ background' = background /\ bgLock' = bgLock
      /\ events' = events /\ run' = run /\ todo' = todo /\ Actors' = Actors /\ Tasks' = Tasks
  BY DEF mem, Actors, Tasks
<1>1. Typed'
  BY <1>0 DEF RegistryInv, Typed, Steps, EntrySteps, Rows
<1>2. Fresh'
  BY <1>0 DEF RegistryInv, Fresh
<1>3. Shape'
  BY <1>0 DEF RegistryInv, Shape, Registered, Entering, Claiming, Visible
<1>4. Admitted'
  <2>1. Live' = Live
    BY <1>0 DEF Live, Running
  <2> QED
    BY <1>0, <2>1, SameLive
<1>5. Endings'
  BY <1>0 DEF RegistryInv, Endings, Ended, Announces, Announced, Ends
<1> QED
  BY <1>1, <1>2, <1>3, <1>4, <1>5 DEF RegistryInv

(* A restart forgets every step and every event, and what it leaves        *)
(* running is counted no more.                                             *)
LEMMA RestartSteps ==
    ASSUME RegistryInv, Restart
    PROVE  RegistryInv'
<1>1. /\ TypeOK /\ archive \in [Tasks -> Rows] /\ run \in [Tasks -> RunStates]
      /\ child \in [Tasks -> {"none", "running", "exited", "killed"}]
      /\ restarts \in 0..MaxRestarts /\ restarts < MaxRestarts /\ MaxRestarts \in Nat
  BY RegistryAssumption DEF RegistryInv, Typed, TypeOK, Restart
<1>2. PICK left \in SUBSET Candidates :
          archive' = [t \in Tasks |-> IF archive[t].status = "running" /\ t \notin left
                                      THEN [archive[t] EXCEPT !.status = "stopped"]
                                      ELSE archive[t]]
  BY DEF Restart
<1>3. /\ archive' \in [Tasks -> Rows]
      /\ \A t \in Tasks : archive[t].status = "none" => archive'[t].status = "none"
  BY <1>1, <1>2 DEF Rows, Statuses
<1>4. child' \in [Tasks -> {"none", "running", "exited", "killed"}]
  BY <1>1 DEF Restart
<1>5. /\ row' = archive' /\ signals' = {} /\ fired' = {} /\ background' = {} /\ releases' = {}
      /\ bgLock' = Nobody /\ released' = [t \in Tasks |-> "none"]
      /\ events' = [t \in Tasks |-> <<>>]
      /\ run' = [t \in Tasks |-> IF run[t] = "idle" THEN "idle" ELSE "lost"]
      /\ todo' = [a \in Actors |-> <<>>] /\ calls' = calls /\ restarts' = restarts + 1
  BY DEF Restart
<1>6. TypeOK'
  BY <1>1, <1>3, <1>4, <1>5 DEF TypeOK
<1>7. Typed'
  <2>1. run' \in [Tasks -> RunStates]
    BY <1>5 DEF RunStates
  <2>2. events' \in [Tasks -> Seq({"started", "terminated"})]
    BY <1>5
  <2>3. todo' \in [Actors -> Seq(AllSteps)]
    BY <1>5
  <2> QED
    BY <1>6, <2>1, <2>2, <2>3 DEF Typed, AllSteps, Actors, Tasks, Steps, EntrySteps, Rows
<1>8. \A t \in Tasks : run'[t] = "idle" => row'[t].status = "none"
  BY <1>3, <1>5 DEF RegistryInv, Fresh
<1>9. Fresh'
  BY <1>5, <1>8 DEF Fresh
<1>10. Shape'
  <2> SUFFICES ASSUME NEW a \in Actors PROVE Registered(a)'
    BY DEF Shape, Actors, Tasks
  <2>1. todo'[a] = <<>> /\ <<>> \in Seq(SoundSteps(row'))
    BY <1>5
  <2>2. bgLock' # a
    BY <1>5, RegistryAssumption DEF Actors
  <2>3. a \in Tasks => run'[a] \notin Active
    BY <1>5 DEF Active
  <2> QED
    BY <2>1, <2>2, <2>3 DEF Registered, Tasks
<1>11. Admitted'
  <2>1. Live' = {}
    BY <1>5, <1>8 DEF Live, Running, Tasks
  <2>2. Cardinality({}) = 0
    BY FS_EmptySet
  <2> QED
    BY <1>5, <2>1, <2>2, RegistryAssumption DEF Admitted
<1>12. Endings'
  <2> SUFFICES ASSUME NEW t \in Tasks PROVE Ended(t)'
    BY DEF Endings, Tasks
  <2>1. \A a \in Actors : DOMAIN todo'[a] = {}
    BY <1>5
  <2>2. Ends(t)' = {} /\ ~Announced(t)'
    BY <1>5 DEF Ends, Announced
  <2>3. run'[t] # "lost" => ~Terminal(row'[t])
    BY <1>5, <1>8 DEF Terminal
  <2>4. Actors' = Actors
    BY DEF Actors, Tasks
  <2> QED
    BY <2>1, <2>2, <2>3, <2>4 DEF Ended
<1> QED
  BY <1>7, <1>9, <1>10, <1>11, <1>12 DEF RegistryInv


LEMMA NextKeeps ==
    ASSUME RegistryInv, [Next]_vars
    PROVE  RegistryInv'
<1>1. ASSUME NEW a \in Actors, Step(a) PROVE RegistryInv'
  BY <1>1, EntryMoves, ReturningSteps, CallingSteps, TouchingSteps, PublishingSteps,
     FlippingSteps DEF Step
<1>2. ASSUME NEW t \in Tasks,
             \/ StartBackground(t) \/ StartForeground(t) \/ Runs(t) \/ Interrupted(t)
      PROVE  RegistryInv'
  BY <1>2, StartSteps, RunnerSteps
<1>3. ASSUME NEW t \in Tasks, ChildExits(t) PROVE RegistryInv'
  <2>1. TypeOK
    BY DEF RegistryInv, Typed
  <2>2. TypeOK'
    BY <1>3, <2>1 DEF TypeOK, ChildExits, mem
  <2> QED
    BY <1>3, <2>2, OutsideSteps DEF ChildExits
<1>4. CASE \E c \in Callers : Call(c)
  BY <1>4, CallSteps
<1>5. CASE Restart
  BY <1>5, RestartSteps
<1>6. CASE Idle \/ UNCHANGED vars
  <2>1. TypeOK /\ UNCHANGED vars
    BY <1>6 DEF RegistryInv, Typed, Idle
  <2>2. TypeOK'
    BY <2>1 DEF TypeOK, vars
  <2> QED
    BY <2>1, <2>2, OutsideSteps DEF vars, mem
<1> QED
  BY <1>1, <1>2, <1>3, <1>4, <1>5, <1>6 DEF Next

LEMMA InitHolds ==
    ASSUME Init
    PROVE  RegistryInv
<1>0. /\ row = [t \in Tasks |-> NoRow] /\ archive = row
      /\ signals = {} /\ fired = {} /\ background = {} /\ releases = {} /\ bgLock = Nobody
      /\ released = [t \in Tasks |-> "none"] /\ events = [t \in Tasks |-> <<>>]
      /\ child = [t \in Tasks |-> "none"] /\ run = [t \in Tasks |-> "idle"]
      /\ todo = [a \in Actors |-> <<>>] /\ calls = 0 /\ restarts = 0
  BY DEF Init
<1>1. NoRow \in Rows /\ NoRow.status = "none"
  BY DEF NoRow, Rows, Statuses
<1>2. row \in [Tasks -> Rows] /\ \A t \in Tasks : row[t].status = "none"
  BY <1>0, <1>1
<1>3. TypeOK
  BY <1>0, <1>2, RegistryAssumption DEF TypeOK
<1>4. Typed
  <2>1. run \in [Tasks -> RunStates] /\ events \in [Tasks -> Seq({"started", "terminated"})]
    BY <1>0 DEF RunStates
  <2>2. todo \in [Actors -> Seq(AllSteps)]
    BY <1>0
  <2> QED
    BY <1>3, <2>1, <2>2 DEF Typed, AllSteps
<1>5. Fresh
  BY <1>0, <1>2 DEF Fresh
<1>6. Shape
  <2> SUFFICES ASSUME NEW a \in Actors PROVE Registered(a)
    BY DEF Shape
  <2>1. todo[a] = <<>> /\ <<>> \in Seq(SoundSteps(row))
    BY <1>0
  <2> QED
    BY <1>0, <2>1, RegistryAssumption DEF Registered, Active, Actors
<1>7. Admitted
  <2>1. Live = {}
    BY <1>2 DEF Live, Running, Tasks
  <2>2. Cardinality({}) = 0
    BY FS_EmptySet
  <2> QED
    BY <1>0, <2>1, <2>2, RegistryAssumption DEF Admitted
<1>8. Endings
  <2> SUFFICES ASSUME NEW t \in Tasks PROVE Ended(t)
    BY DEF Endings
  <2>1. \A a \in Actors : DOMAIN todo[a] = {}
    BY <1>0
  <2>2. Ends(t) = {} /\ ~Announced(t)
    BY <1>0 DEF Ends, Announced
  <2>3. ~Terminal(row[t])
    BY <1>2 DEF Terminal
  <2> QED
    BY <2>1, <2>2, <2>3 DEF Ended
<1> QED
  BY <1>4, <1>5, <1>6, <1>7, <1>8 DEF RegistryInv

(***************************************************************************)
(* Rows, sets, releases and processes keep their types, and every list of  *)
(* pending steps is one the manager can execute: the strengthened          *)
(* invariant holds in every reachable state.                               *)
(***************************************************************************)
THEOREM RegistryInvariant == Spec => []RegistryInv
<1>1. Init => RegistryInv
  BY InitHolds
<1>2. RegistryInv /\ [Next]_vars => RegistryInv'
  BY NextKeeps
<1> QED
  BY <1>1, <1>2, PTL DEF Spec

THEOREM RegistryTypeCorrect == Spec => []TypeOK
<1>1. RegistryInv => TypeOK
  BY DEF RegistryInv, Typed
<1> QED
  BY <1>1, RegistryInvariant, PTL

(***************************************************************************)
(* register_background never lets more commands run in the background than *)
(* maxRunningTasks allows, for any number of commands and callers: the     *)
(* lock it keeps from the count to the claim makes the count a bound.      *)
(***************************************************************************)
THEOREM CapacityNeverExceeded == Spec => []CapacityHeld
<1>1. RegistryInv => CapacityHeld
  BY DEF RegistryInv, Admitted, CapacityHeld, Live
<1> QED
  BY <1>1, RegistryInvariant, PTL

(***************************************************************************)
(* However many stops, timeouts and settlements race in transition,        *)
(* subscribers see at most one termination of a task, none before its row  *)
(* is terminal, and exactly one once everybody has returned.               *)
(***************************************************************************)
THEOREM TerminatesOnce == Spec => []OneTermination
<1>1. RegistryInv => OneTermination
  <2> SUFFICES ASSUME RegistryInv, NEW t \in Tasks
               PROVE  /\ Cardinality(Ends(t)) <= 1
                      /\ Cardinality(Ends(t)) = 1 => Terminal(row[t])
                      /\ run[t] # "lost" /\ Terminal(row[t]) /\ Quiet(t) =>
                            Cardinality(Ends(t)) = 1
    BY DEF OneTermination, Ends
  <2>1. Ended(t)
    BY DEF RegistryInv, Endings
  <2>2. CASE Ends(t) = {}
    <3>1. Cardinality(Ends(t)) = 0
      BY <2>2, FS_EmptySet
    <3>2. ASSUME run[t] # "lost", Terminal(row[t]), Quiet(t) PROVE FALSE
      <4>0. PICK a \in Actors : \E i \in DOMAIN todo[a] : Announces(t, a, i)
        BY <2>1, <2>2, <3>2 DEF Ended, Announced
      <4>1. PICK i \in DOMAIN todo[a] : Announces(t, a, i)
        BY <4>0
      <4>2. todo[a][i] \in Steps \cup EntrySteps /\ todo[a][i].do = "terminated"
            /\ todo[a][i].t = t
        <5>1. todo[a] \in Seq(Steps \cup EntrySteps)
          BY DEF RegistryInv, Typed
        <5> QED
          BY <4>1, <5>1, ElementOfSeq, LenProperties DEF Announces
      <4>3. todo[a][i] \in [do : PlainKinds, t : Tasks]
        BY <4>2 DEF Steps, EntrySteps, StatusKinds, CopyKinds, GroupKinds, ScanKinds, EntryKinds
      <4>4. "t" \in DOMAIN todo[a][i]
        BY <4>3
      <4> QED
        BY <3>2, <4>2, <4>4 DEF Quiet
    <3> QED
      BY <3>1, <3>2
  <2>3. CASE Ends(t) # {}
    <3>1. PICK i : Ends(t) = {i}
      <4>1. \A i, j \in Ends(t) : i = j
        BY <2>1 DEF Ended
      <4>2. PICK i : i \in Ends(t)
        BY <2>3
      <4>3. Ends(t) = {i}
        BY <4>1, <4>2
      <4> QED
        BY <4>3
    <3>2. Cardinality(Ends(t)) = 1
      BY <3>1, FS_Singleton
    <3>3. Terminal(row[t])
      BY <2>1, <2>3 DEF Ended, Announced
    <3> QED
      BY <3>2, <3>3
  <2> QED
    BY <2>2, <2>3
<1> QED
  BY <1>1, RegistryInvariant, PTL
=============================================================================
