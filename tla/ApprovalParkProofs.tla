------------------------ MODULE ApprovalParkProofs --------------------------
(***************************************************************************)
(* The gate lists no zombie request, for every number of members and asks. *)
(***************************************************************************)
EXTENDS ApprovalPark, QueueLemmas

\* What the argument needs of the types.
GateTypes ==
    /\ pc \in [Agents -> {"working", "waiting", "gateonly", "done"}]
    /\ asked \in [Agents -> Nat]
    /\ gate \in [Asks -> {"none", "pending", "resolved", "withdrawn", "drained"}]
    /\ DOMAIN box = Asks

\* A decision in the box means that the entry has left the gate: a turn that
\* takes it leaves nothing pending behind.
BoxIsDecided == \A q \in Asks : box[q] # "none" => gate[q] \notin {"none", "pending"}

\* The gate knows only asks that were made: a new ask finds no entry, and no
\* decision, under its id.
AskedInOrder == \A q \in Asks : gate[q] # "none" => q[2] <= asked[q[1]]

IInv == GateTypes /\ PendingHasAsker /\ BoxIsDecided /\ AskedInOrder

\* An ask is a pair of an agent and its number.
LEMMA AskParts ==
    \A q \in Asks : q[1] \in Agents /\ q[2] \in Nat /\ q = <<q[1], q[2]>>
BY ApprovalAssumption DEF Asks

\* Registering: the turn worked, so none of its entries was pending, and the
\* new one is its current ask.
LEMMA RegisterKeeps ==
    ASSUME IInv, NEW a \in Agents, Register(a),
           \E w \in {"waiting", "gateonly"} : pc' = [pc EXCEPT ![a] = w]
    PROVE  IInv'
<1> DEFINE new == <<a, asked[a] + 1>>
<1> USE DEF IInv, GateTypes
<1>1. /\ asked' = [asked EXCEPT ![a] = @ + 1]
      /\ gate' = [gate EXCEPT ![new] = "pending"]
      /\ box' = box /\ pc[a] = "working"
  BY DEF Register
<1>2. GateTypes'
  <2>1. PICK w \in {"waiting", "gateonly"} : pc' = [pc EXCEPT ![a] = w]
    OBVIOUS
  <2>2. pc' \in [Agents -> {"working", "waiting", "gateonly", "done"}]
    BY <2>1
  <2>3. asked' \in [Agents -> Nat]
    BY <1>1
  <2>4. gate' \in [Asks -> {"none", "pending", "resolved", "withdrawn", "drained"}]
    BY <1>1
  <2> QED
    BY <1>1, <2>2, <2>3, <2>4
<1>3. ASSUME NEW q \in Asks, gate'[q] = "pending"
      PROVE  Waits(q[1])' /\ Current(q[1])' = q
  <2>1. q[1] \in Agents /\ q = <<q[1], q[2]>>
    BY AskParts
  <2>2. CASE q = new
    <3>1. q[1] = a
      BY <2>2
    <3>2. Waits(a)'
      BY <1>1 DEF Waits
    <3>3. Current(a)' = q
      BY <1>1, <2>2 DEF Current
    <3> QED
      BY <3>1, <3>2, <3>3
  <2>3. CASE q # new
    <3>1. gate[q] = "pending"
      BY <1>1, <1>3, <2>3
    <3>2. Waits(q[1]) /\ Current(q[1]) = q
      BY <3>1 DEF PendingHasAsker
    <3>3. q[1] # a
      BY <1>1, <3>2 DEF Waits
    <3> QED
      BY <1>1, <2>1, <3>2, <3>3 DEF Waits, Current
  <2> QED
    BY <2>2, <2>3
<1>4. ASSUME NEW q \in Asks, box'[q] # "none"
      PROVE  gate'[q] \notin {"none", "pending"}
  <2>1. gate[q] \notin {"none", "pending"}
    BY <1>1, <1>4 DEF BoxIsDecided
  <2>2. q # new
    <3> SUFFICES ASSUME q = new PROVE FALSE
      OBVIOUS
    <3>1. asked[a] + 1 <= asked[a]
      BY <2>1 DEF AskedInOrder
    <3> QED
      BY <3>1
  <2> QED
    BY <1>1, <2>1, <2>2
<1>5. ASSUME NEW q \in Asks, gate'[q] # "none"
      PROVE  q[2] <= asked'[q[1]]
  <2>1. q[1] \in Agents /\ q[2] \in Nat
    BY AskParts
  <2>2. CASE q = new
    BY <1>1, <2>1, <2>2
  <2>3. CASE q # new
    <3>1. q[2] <= asked[q[1]]
      BY <1>1, <1>5, <2>3 DEF AskedInOrder
    <3>2. asked'[q[1]] = asked[q[1]] \/ asked'[q[1]] = asked[q[1]] + 1
      BY <1>1, <2>1
    <3> QED
      BY <2>1, <3>1, <3>2
  <2> QED
    BY <2>2, <2>3
<1> QED
  BY <1>2, <1>3, <1>4, <1>5 DEF PendingHasAsker, BoxIsDecided, AskedInOrder

\* A turn that stops waiting leaves no entry: its current ask is no longer
\* pending and it had no other, whatever became of the turn and of the box.
LEMMA LeavingKeeps ==
    ASSUME IInv, NEW a \in Agents, NEW w \in {"working", "done"},
           pc' = [pc EXCEPT ![a] = w], asked' = asked,
           GateTypes',
           \A q \in Asks : gate'[q] = gate[q] \/ (gate[q] = "pending" /\ gate'[q] # "none"),
           \A q \in Asks : gate'[q] = "pending" => gate[q] = "pending",
           \A q \in Asks : box'[q] # "none" => box[q] # "none",
           Current(a) \in Asks => gate'[Current(a)] # "pending"
    PROVE  IInv'
<1> USE DEF IInv, GateTypes
<1>1. ASSUME NEW q \in Asks, gate'[q] = "pending"
      PROVE  Waits(q[1])' /\ Current(q[1])' = q
  <2>1. q[1] \in Agents /\ Waits(q[1]) /\ Current(q[1]) = q
    BY <1>1, AskParts DEF PendingHasAsker
  <2>2. q[1] # a
    BY <1>1, <2>1
  <2> QED
    BY <2>1, <2>2 DEF Waits, Current
<1>2. ASSUME NEW q \in Asks, box'[q] # "none"
      PROVE  gate'[q] \notin {"none", "pending"}
  BY <1>2 DEF BoxIsDecided
<1>3. ASSUME NEW q \in Asks, gate'[q] # "none"
      PROVE  q[2] <= asked'[q[1]]
  BY <1>3 DEF AskedInOrder
<1> QED
  BY <1>1, <1>2, <1>3 DEF PendingHasAsker, BoxIsDecided, AskedInOrder

\* A turn that works has no pending entry.
LEMMA WorkingHasNone ==
    ASSUME IInv, NEW a \in Agents, ~Waits(a), Current(a) \in Asks
    PROVE  gate[Current(a)] # "pending"
BY DEF IInv, PendingHasAsker, Current

\* Dropping a parked or resumed attempt: the guard withdraws the entry.
LEMMA AbortKeeps ==
    ASSUME IInv, NEW m \in Members, Abort(m)
    PROVE  IInv'
<1>1. m \in Agents
  BY DEF Agents
<1>2. /\ pc' = [pc EXCEPT ![m] = "done"] /\ asked' = asked
      /\ gate' = gate \/ gate' = [gate EXCEPT ![Current(m)] = "withdrawn"]
      /\ box' = box \/ box' = [box EXCEPT ![Current(m)] = "none"]
  BY DEF Abort, Withdraw
<1>3. GateTypes'
  BY <1>1, <1>2 DEF IInv, GateTypes
<1>4. \A q \in Asks : gate'[q] = gate[q] \/ (gate[q] = "pending" /\ gate'[q] # "none")
  <2>1. CASE Waits(m) /\ gate[Current(m)] = "pending"
    BY <2>1, <1>2 DEF IInv, GateTypes
  <2>2. CASE ~(Waits(m) /\ gate[Current(m)] = "pending")
    BY <2>2 DEF Abort, Withdraw
  <2> QED
    BY <2>1, <2>2
<1>5. \A q \in Asks : gate'[q] = "pending" => gate[q] = "pending"
  BY <1>4
<1>6. \A q \in Asks : box'[q] # "none" => box[q] # "none"
  BY <1>2 DEF IInv, GateTypes
<1>7. Current(m) \in Asks => gate'[Current(m)] # "pending"
  <2> SUFFICES ASSUME Current(m) \in Asks PROVE gate'[Current(m)] # "pending"
    OBVIOUS
  <2>1. CASE Waits(m)
    BY <2>1 DEF Abort, Withdraw, IInv, GateTypes
  <2>2. CASE ~Waits(m)
    BY <2>2, <1>1, <1>5, WorkingHasNone
  <2> QED
    BY <2>1, <2>2
<1> QED
  BY <1>1, <1>2, <1>3, <1>4, <1>5, <1>6, <1>7, LeavingKeeps

\* An ask that ends, by reply, decision or cancellation, is not pending.
LEMMA EndsKeeps ==
    ASSUME IInv, NEW a \in Agents,
           TurnTakesReply(a) \/ TurnTakesGate(a) \/ TurnCancelled(a)
    PROVE  IInv'
<1>1. /\ pc' = [pc EXCEPT ![a] = "working"] /\ asked' = asked
      /\ box' = [box EXCEPT ![Current(a)] = "none"]
  BY DEF TurnTakesReply, TurnTakesGate, TurnCancelled, Ends
<1>2. \/ gate' = gate /\ box[Current(a)] # "none"
      \/ gate' = gate /\ gate[Current(a)] # "pending"
      \/ /\ gate[Current(a)] = "pending"
         /\ \E g \in {"resolved", "withdrawn"} : gate' = [gate EXCEPT ![Current(a)] = g]
  BY DEF TurnTakesReply, TurnTakesGate, TurnCancelled, Resolve, Withdraw
<1>3. GateTypes'
  BY <1>1, <1>2 DEF IInv, GateTypes
<1>4. \A q \in Asks : gate'[q] = gate[q] \/ (gate[q] = "pending" /\ gate'[q] # "none")
  BY <1>2 DEF IInv, GateTypes
<1>5. \A q \in Asks : gate'[q] = "pending" => gate[q] = "pending"
  BY <1>4
<1>6. \A q \in Asks : box'[q] # "none" => box[q] # "none"
  BY <1>1 DEF IInv, GateTypes
<1>7. Current(a) \in Asks => gate'[Current(a)] # "pending"
  BY <1>2 DEF IInv, GateTypes, BoxIsDecided
<1> QED
  BY <1>1, <1>3, <1>4, <1>5, <1>6, <1>7, LeavingKeeps

\* A handler's decision and the drain take entries out of the gate and leave
\* the turns alone.
LEMMA DecidedKeeps ==
    ASSUME IInv, DecideResolves \/ Drain
    PROVE  IInv'
<1> USE DEF IInv, GateTypes
<1>1. pc' = pc /\ asked' = asked
  BY DEF DecideResolves, Drain
<1>2. ASSUME NEW q \in Asks
      PROVE  \/ gate'[q] = gate[q] /\ box'[q] = box[q]
             \/ gate[q] = "pending" /\ gate'[q] \in {"resolved", "drained"}
  BY DEF DecideResolves, Resolve, Drain
<1>3. GateTypes'
  <2>1. CASE Drain
    BY <2>1 DEF Drain
  <2>2. CASE DecideResolves
    <3>1. gate' \in [Asks -> {"none", "pending", "resolved", "withdrawn", "drained"}]
      BY <2>2 DEF DecideResolves, Resolve
    <3>2. DOMAIN box' = Asks
      BY <2>2 DEF DecideResolves
    <3> QED
      BY <1>1, <3>1, <3>2
  <2> QED
    BY <2>1, <2>2
<1>4. PendingHasAsker'
  BY <1>1, <1>2 DEF PendingHasAsker, Waits, Current
<1>5. BoxIsDecided'
  BY <1>2 DEF BoxIsDecided
<1>6. AskedInOrder'
  BY <1>1, <1>2 DEF AskedInOrder
<1> QED
  BY <1>3, <1>4, <1>5, <1>6

\* The scheduler, the client, the cancels and the reading handler change
\* neither turns nor entries; a failed delivery only narrows the wait.
LEMMA OthersKeep ==
    ASSUME IInv, NEW a \in Agents,
           \/ pc' = pc
           \/ Waits(a) /\ pc' = [pc EXCEPT ![a] = "gateonly"],
           asked' = asked, gate' = gate, box' = box
    PROVE  IInv'
<1> USE DEF IInv, GateTypes
<1>1. GateTypes'
  OBVIOUS
<1>2. \A b \in Agents : Waits(b) => Waits(b)'
  BY DEF Waits
<1>3. PendingHasAsker'
  BY <1>2, AskParts DEF PendingHasAsker, Current
<1>4. BoxIsDecided' /\ AskedInOrder'
  BY DEF BoxIsDecided, AskedInOrder
<1> QED
  BY <1>1, <1>3, <1>4

\* Every step keeps the invariant.
LEMMA StepKeeps == IInv /\ [Next]_vars => IInv'
<1> SUFFICES ASSUME IInv, [Next]_vars PROVE IInv'
  OBVIOUS
<1>0. Main \in Agents
  BY DEF Agents
<1>1. ASSUME NEW a \in Agents, Ask(a) \/ AskUnattended(a) PROVE IInv'
  BY <1>1, RegisterKeeps DEF Ask, AskUnattended
<1>2. ASSUME NEW a \in Agents,
             TurnTakesReply(a) \/ TurnTakesGate(a) \/ TurnCancelled(a)
      PROVE  IInv'
  BY <1>2, EndsKeeps
<1>3. ASSUME NEW a \in Agents, TurnTakesFailure(a) PROVE IInv'
  BY <1>3, OthersKeep DEF TurnTakesFailure, Waits
<1>4. ASSUME NEW a \in Agents, TurnEnds(a) PROVE IInv'
  <2>1. /\ pc' = [pc EXCEPT ![a] = "done"] /\ asked' = asked
        /\ gate' = gate /\ box' = box /\ pc[a] = "working"
    BY <1>4 DEF TurnEnds
  <2>2. GateTypes'
    BY <2>1 DEF IInv, GateTypes
  <2>3. Current(a) \in Asks => gate'[Current(a)] # "pending"
    BY <2>1, WorkingHasNone DEF Waits
  <2> QED
    BY <2>1, <2>2, <2>3, LeavingKeeps
<1>5. ASSUME NEW m \in Members, ParkedCancelled(m) \/ ReadyAborted(m) PROVE IInv'
  BY <1>5, AbortKeeps DEF ParkedCancelled, ReadyAborted
<1>6. CASE DecideResolves \/ Drain
  BY <1>6, DecidedKeeps
<1>7. ASSUME \/ \E a \in Agents : StopAgent(a)
             \/ \E m \in Members : Notice(m) \/ ParkedResumes(m) \/ Relaunch(m)
             \/ \E q \in Asks, v \in Answers : Reply(q, v) \/ DecideReads(q, v)
             \/ CancelBatch \/ LoopSeesCancel \/ ConnectionLost \/ CloseStops
             \/ Finished \/ UNCHANGED vars
      PROVE  IInv'
  <2>1. pc' = pc /\ asked' = asked /\ gate' = gate /\ box' = box
    BY <1>7 DEF StopAgent, Notice, ParkedResumes, Relaunch, Reply, DecideReads,
                CancelBatch, LoopSeesCancel, ConnectionLost, CloseStops, Finished, vars
  <2> QED
    BY <1>0, <2>1, OthersKeep
<1> QED
  BY <1>1, <1>2, <1>3, <1>4, <1>5, <1>6, <1>7 DEF Next

\* The approval gate never lists a zombie: whatever the turn, the scheduler,
\* the client, the handlers and the close do, a pending entry is the current
\* ask of a turn that waits for it (withdraw in the cancel arm and in the drop
\* of PendingAskGuard, hooks.rs).
THEOREM NoZombieRequests == Spec => []PendingHasAsker
<1>1. Init => IInv
  BY DEF Init, IInv, GateTypes, PendingHasAsker, BoxIsDecided, AskedInOrder
<1>2. IInv => PendingHasAsker
  BY DEF IInv
<1> QED
  BY <1>1, <1>2, StepKeeps, PTL DEF Spec

-----------------------------------------------------------------------------
(* The suspension feeds.  A feed holds notices that the scheduler has not  *)
(* read; Unread counts the suspensions among them.                         *)
Notices == {"suspended", "resumed"}
Unread(s) == Cardinality({i \in DOMAIN s : s[i] = "suspended"})

FeedTypes ==
    /\ feed \in [Members -> Seq(Notices)] /\ DOMAIN place = Members
    /\ unattended \in BOOLEAN
    /\ decider # Idle => decider.ask \in Asks

\* Asks are numbered without a gap, and there are no more than MaxAsks.
AllMade ==
    /\ IsFiniteSet({q \in Asks : gate[q] # "none"})
    /\ \A a \in Agents : asked[a] <= MaxAsks /\ \A k \in 1..asked[a] : gate[<<a, k>>] # "none"

\* A run nobody watches announces nothing.
Silent == unattended => \A m \in Members : feed[m] = <<>>

\* Behind the suspension of an ask that is still pending there is no other
\* notice: whatever ends the ask takes the entry out before it says so.
FeedEndsWithAsk ==
    \A m \in Members :
        Current(m) \in Asks /\ gate[Current(m)] = "pending" =>
            feed[m] = <<>> \/ feed[m][Len(feed[m])] = "suspended"

\* A member is parked for an ask it made: the suspensions read and unread are
\* not more than the asks.
FeedCounted ==
    \A m \in Members : Unread(feed[m]) + (IF place[m] = "parked" THEN 1 ELSE 0) <= asked[m]

FInv == FeedTypes /\ AllMade /\ Silent /\ FeedEndsWithAsk /\ FeedCounted

\* Counting the suspensions of a feed.
LEMMA UnreadCount ==
    ASSUME NEW s \in Seq(Notices)
    PROVE  /\ Unread(s) \in Nat /\ Unread(s) = Len(Pick(s, {"suspended"}))
           /\ Unread(s) = 0 => \A i \in 1..Len(s) : s[i] # "suspended"
<1> DEFINE P == {"suspended"}
<1>1. Len(s) \in Nat /\ DOMAIN s = 1..Len(s)
  BY LenProperties
<1>2. PickedAt(s, P) = {i \in DOMAIN s : s[i] = "suspended"}
  BY DEF PickedAt
<1>3. IsFiniteSet(1..Len(s))
  <2> DEFINE n == Len(s)
  <2>1. n \in Int /\ 1 \in Int
    BY <1>1
  <2> HIDE DEF n
  <2>2. IsFiniteSet(1..n)
    BY <2>1, FS_Interval
  <2> QED
    BY <2>2 DEF n
<1>4. IsFiniteSet(PickedAt(s, P))
  BY <1>1, <1>2, <1>3, FS_Subset
<1>5. Unread(s) \in Nat /\ Unread(s) = Cardinality(PickedAt(s, P))
  BY <1>2, <1>4, FS_CardinalityType DEF Unread
<1>6. Pick(s, P) \in Seq(Notices \cap P)
  BY PickType
<1>7. DOMAIN Pick(s, P) = 1..Unread(s)
  BY <1>5 DEF Pick
<1>8. Unread(s) = Len(Pick(s, P))
  <2> DEFINE p == Pick(s, P)
             c == Unread(s)
  <2> HIDE DEF p, c
  <2>1. p \in Seq(Notices \cap P) /\ DOMAIN p = 1..c /\ c \in Nat
    BY <1>5, <1>6, <1>7 DEF p, c
  <2>2. DOMAIN p = 1..Len(p) /\ Len(p) \in Nat
    BY <2>1, LenProperties
  <2>3. c = Len(p)
    BY <2>1, <2>2
  <2> QED
    BY <2>3 DEF p, c
<1>9. Unread(s) = 0 => \A i \in 1..Len(s) : s[i] # "suspended"
  <2> SUFFICES ASSUME Unread(s) = 0 PROVE PickedAt(s, P) = {}
    BY <1>1, <1>2
  <2> QED
    BY <1>4, <1>5, FS_EmptySet
<1> QED
  BY <1>5, <1>8, <1>9

\* Notices put at the end, and the one taken from the front.
LEMMA UnreadMoves ==
    /\ \A s, u \in Seq(Notices) : Unread(s \o u) = Unread(s) + Unread(u)
    /\ <<"suspended">> \in Seq(Notices) /\ Unread(<<"suspended">>) = 1
    /\ <<"resumed">> \in Seq(Notices) /\ Unread(<<"resumed">>) = 0
    /\ Unread(<<>>) = 0
<1> DEFINE P == {"suspended"}
<1>1. ASSUME NEW s \in Seq(Notices), NEW u \in Seq(Notices)
      PROVE  Unread(s \o u) = Unread(s) + Unread(u)
  <2>1. s \o u \in Seq(Notices)
    BY ConcatProperties
  <2>2. Pick(s \o u, P) = Pick(s, P) \o Pick(u, P)
    BY PickConcat
  <2>3. Pick(s, P) \in Seq(Notices \cap P) /\ Pick(u, P) \in Seq(Notices \cap P)
    BY PickType
  <2>4. Len(Pick(s, P) \o Pick(u, P)) = Len(Pick(s, P)) + Len(Pick(u, P))
    BY <2>3, ConcatProperties
  <2> QED
    BY <2>1, <2>2, <2>4, UnreadCount
<1>2. <<"suspended">> \in Seq(Notices) /\ <<"resumed">> \in Seq(Notices)
  BY DEF Notices
<1>3. Unread(<<"suspended">>) = 1
  <2>1. {i \in DOMAIN <<"suspended">> : <<"suspended">>[i] = "suspended"} = {1}
    OBVIOUS
  <2> QED
    BY <2>1, FS_Singleton DEF Unread
<1>4. Unread(<<"resumed">>) = 0
  <2>1. {i \in DOMAIN <<"resumed">> : <<"resumed">>[i] = "suspended"} = {}
    OBVIOUS
  <2> QED
    BY <2>1, FS_EmptySet DEF Unread
<1>5. Unread(<<>>) = 0
  <2>1. {i \in DOMAIN <<>> : <<>>[i] = "suspended"} = {}
    OBVIOUS
  <2> QED
    BY <2>1, FS_EmptySet DEF Unread
<1> QED
  BY <1>1, <1>2, <1>3, <1>4, <1>5

LEMMA UnreadTail ==
    ASSUME NEW s \in Seq(Notices), s # <<>>
    PROVE  /\ Tail(s) \in Seq(Notices) /\ Head(s) \in Notices
           /\ Unread(s) = Unread(Tail(s)) + (IF Head(s) = "suspended" THEN 1 ELSE 0)
           /\ Tail(s) # <<>> => Tail(s)[Len(Tail(s))] = s[Len(s)]
<1>1. /\ Head(s) \in Notices /\ Tail(s) \in Seq(Notices) /\ Len(Tail(s)) = Len(s) - 1
      /\ Len(s) \in Nat /\ Len(s) # 0
      /\ \A i \in 1..Len(Tail(s)) : Tail(s)[i] = s[i + 1]
  BY HeadTailProperties, LenProperties, EmptySeq
<1>2. s = <<Head(s)>> \o Tail(s)
  BY HeadTailProperties
<1>3. Head(s) = "suspended" \/ Head(s) = "resumed"
  BY <1>1 DEF Notices
<1>4. <<Head(s)>> \in Seq(Notices)
  BY <1>1
<1>5. Unread(s) = Unread(<<Head(s)>>) + Unread(Tail(s))
  BY <1>1, <1>2, <1>4, UnreadMoves
<1>6. Unread(s) = Unread(Tail(s)) + (IF Head(s) = "suspended" THEN 1 ELSE 0)
  <2>1. Unread(Tail(s)) \in Nat
    BY <1>1, UnreadCount
  <2>2. CASE Head(s) = "suspended"
    BY <1>5, <2>1, <2>2, UnreadMoves
  <2>3. CASE Head(s) = "resumed"
    BY <1>5, <2>1, <2>3, UnreadMoves
  <2> QED
    BY <1>3, <2>2, <2>3
<1>7. Tail(s) # <<>> => Tail(s)[Len(Tail(s))] = s[Len(s)]
  <2> SUFFICES ASSUME Tail(s) # <<>> PROVE Tail(s)[Len(Tail(s))] = s[Len(s)]
    OBVIOUS
  <2>1. Len(Tail(s)) # 0
    BY <1>1, EmptySeq
  <2> QED
    BY <1>1, <2>1
<1> QED
  BY <1>1, <1>6, <1>7

\* A step that makes no ask: each feed stays, gets the end of an ask that has
\* left the gate, or is read.
LEMMA FeedStep ==
    ASSUME FInv, GateTypes, GateTypes', FeedTypes', asked' = asked, unattended' = unattended,
           \A q \in Asks : gate'[q] = "none" <=> gate[q] = "none",
           \A q \in Asks : gate'[q] = "pending" => gate[q] = "pending",
           \A m \in Members :
              \/ feed'[m] = feed[m] /\ (place'[m] = "parked" => place[m] = "parked")
              \/ /\ ~unattended /\ place'[m] = place[m]
                 /\ feed'[m] = feed[m] \o <<"resumed">>
                      \/ feed'[m] = feed[m] \o (<<"resumed">> \o <<"resumed">>)
                 /\ Current(m) \in Asks => gate'[Current(m)] # "pending"
              \/ /\ feed[m] # <<>> /\ feed'[m] = Tail(feed[m])
                 /\ place'[m] = "parked" => Head(feed[m]) = "suspended"
    PROVE  FInv'
<1>0. \A m \in Members : m \in Agents
  BY DEF Agents
<1>1. AllMade'
  <2>1. {q \in Asks : gate'[q] # "none"} = {q \in Asks : gate[q] # "none"}
    OBVIOUS
  <2>2. ASSUME NEW a \in Agents, NEW k \in 1..asked[a]
        PROVE  gate'[<<a, k>>] # "none"
    <3>1. asked[a] <= MaxAsks /\ gate[<<a, k>>] # "none" /\ asked[a] \in Nat /\ MaxAsks \in Nat
      BY ApprovalAssumption DEF FInv, AllMade, GateTypes
    <3>2. <<a, k>> \in Asks
      BY <3>1 DEF Asks
    <3> QED
      BY <3>1, <3>2
  <2>3. \A a \in Agents : asked[a] <= MaxAsks
    BY DEF FInv, AllMade
  <2>4. IsFiniteSet({q \in Asks : gate'[q] # "none"})
    BY <2>1 DEF FInv, AllMade
  <2> QED
    BY <2>2, <2>3, <2>4 DEF AllMade
<1>2. Silent'
  <2> SUFFICES ASSUME unattended, NEW m \in Members PROVE feed'[m] = <<>>
    BY DEF Silent
  <2>1. feed[m] = <<>>
    BY DEF FInv, Silent
  <2> QED
    BY <2>1
<1>3. ASSUME NEW m \in Members
      PROVE  /\ Current(m)' \in Asks /\ gate'[Current(m)'] = "pending" =>
                   feed'[m] = <<>> \/ feed'[m][Len(feed'[m])] = "suspended"
             /\ Unread(feed'[m]) + (IF place'[m] = "parked" THEN 1 ELSE 0) <= asked'[m]
  <2>1. /\ feed[m] \in Seq(Notices) /\ asked[m] \in Nat
        /\ Current(m)' = Current(m)
    BY <1>0 DEF FInv, FeedTypes, GateTypes, Current
  <2>2. Unread(feed[m]) \in Nat
    BY <2>1, UnreadCount
  <2>3. /\ Unread(feed[m]) + (IF place[m] = "parked" THEN 1 ELSE 0) <= asked[m]
        /\ Current(m) \in Asks /\ gate[Current(m)] = "pending" =>
              feed[m] = <<>> \/ feed[m][Len(feed[m])] = "suspended"
    BY DEF FInv, FeedCounted, FeedEndsWithAsk
  <2>4. CASE feed'[m] = feed[m] /\ (place'[m] = "parked" => place[m] = "parked")
    BY <2>1, <2>2, <2>3, <2>4
  <2>5. CASE /\ place'[m] = place[m]
             /\ feed'[m] = feed[m] \o <<"resumed">>
                  \/ feed'[m] = feed[m] \o (<<"resumed">> \o <<"resumed">>)
             /\ Current(m) \in Asks => gate'[Current(m)] # "pending"
    <3> DEFINE r == <<"resumed">>
               s == feed[m]
    <3>0. r \in Seq(Notices) /\ Unread(r) = 0
      BY UnreadMoves
    <3> HIDE DEF r, s
    <3>1. s \in Seq(Notices) /\ Unread(s) \in Nat
      BY <2>1, <2>2 DEF s
    <3>2. r \o r \in Seq(Notices) /\ Unread(r \o r) = 0
      BY <3>0, UnreadMoves, ConcatProperties
    <3>3. Unread(s \o r) = Unread(s) /\ Unread(s \o (r \o r)) = Unread(s)
      <4>1. Unread(s \o r) = Unread(s) + Unread(r)
        BY <3>0, <3>1, UnreadMoves
      <4>2. Unread(s \o (r \o r)) = Unread(s) + Unread(r \o r)
        BY <3>1, <3>2, UnreadMoves
      <4> QED
        BY <3>0, <3>1, <3>2, <4>1, <4>2
    <3>4. Unread(feed'[m]) = Unread(feed[m])
      BY <2>5, <3>3 DEF r, s
    <3> QED
      BY <2>1, <2>3, <2>5, <3>4
  <2>6. CASE /\ feed[m] # <<>> /\ feed'[m] = Tail(feed[m])
             /\ place'[m] = "parked" => Head(feed[m]) = "suspended"
    <3>1. /\ Tail(feed[m]) \in Seq(Notices)
          /\ Unread(feed[m]) = Unread(Tail(feed[m]))
                                 + (IF Head(feed[m]) = "suspended" THEN 1 ELSE 0)
          /\ Tail(feed[m]) # <<>> => Tail(feed[m])[Len(Tail(feed[m]))] = feed[m][Len(feed[m])]
      BY <2>1, <2>6, UnreadTail
    <3>2. Unread(Tail(feed[m])) \in Nat
      BY <3>1, UnreadCount
    <3>3. Unread(feed'[m]) + (IF place'[m] = "parked" THEN 1 ELSE 0) <= asked'[m]
      BY <2>1, <2>2, <2>3, <2>6, <3>1, <3>2
    <3> QED
      BY <2>1, <2>3, <2>6, <3>1, <3>3
  <2> QED
    BY <2>4, <2>5, <2>6
<1>4. FeedEndsWithAsk' /\ FeedCounted'
  BY <1>3 DEF FeedEndsWithAsk, FeedCounted
<1> QED
  BY <1>1, <1>2, <1>4 DEF FInv

\* Registering an ask: its number is the next, and its suspension is the last
\* notice of the feed.
LEMMA FeedRegister ==
    ASSUME IInv, IInv', FInv, NEW a \in Agents, Register(a)
    PROVE  FInv'
<1> DEFINE new == <<a, asked[a] + 1>>
           made == {q \in Asks : gate[q] # "none"}
<1> USE DEF FInv
<1>1. /\ asked' = [asked EXCEPT ![a] = @ + 1] /\ gate' = [gate EXCEPT ![new] = "pending"]
      /\ feed' = Notified(a, <<"suspended">>) /\ place' = place /\ decider' = decider
      /\ unattended' = unattended /\ Cardinality(made) < MaxAsks
  BY DEF Register
<1>2. /\ asked \in [Agents -> Nat] /\ feed \in [Members -> Seq(Notices)] /\ MaxAsks \in Nat
      /\ DOMAIN gate = Asks /\ \A m \in Members : m \in Agents
      /\ asked[a] \in Nat
  BY ApprovalAssumption DEF IInv, GateTypes, FeedTypes, Agents
<1>3. asked[a] + 1 <= MaxAsks
  <2> DEFINE n == asked[a]
             f == [k \in 1..n |-> <<a, k>>]
  <2>0. IsFiniteSet(made)
    BY DEF AllMade
  <2>1. \A k \in 1..n : <<a, k>> \in made
    <3> SUFFICES ASSUME NEW k \in 1..n PROVE <<a, k>> \in made
      OBVIOUS
    <3>1. gate[<<a, k>>] # "none" /\ n <= MaxAsks
      BY DEF AllMade
    <3>2. <<a, k>> \in Asks
      BY <1>2, <3>1 DEF Asks
    <3> QED
      BY <3>1, <3>2
  <2>2. n \in Nat
    BY <1>2
  <2> HIDE DEF n, made
  <2>3. f \in [1..n -> made] /\ \A j, k \in 1..n : f[j] = f[k] => j = k
    BY <2>1
  <2>4. DOMAIN f = 1..n
    OBVIOUS
  <2> HIDE DEF f
  <2>5. f \in Injection(1..n, made)
    BY <2>3, <2>4 DEF Injection, IsInjective
  <2>6. Cardinality(1..n) <= Cardinality(made)
    BY <2>0, <2>5, FS_Injection
  <2>7. Cardinality(1..n) = n
    BY <2>2, FS_Interval
  <2>8. Cardinality(made) \in Nat
    BY <2>0, FS_CardinalityType
  <2>9. n + 1 <= MaxAsks
    BY <1>1, <1>2, <2>2, <2>6, <2>7, <2>8
  <2> QED
    BY <2>9 DEF n
<1>4. new \in Asks
  BY <1>2, <1>3 DEF Asks
<1>5. FeedTypes'
  <2>1. feed' \in [Members -> Seq(Notices)]
    <3> DEFINE v == <<"suspended">>
    <3>1. v \in Seq(Notices)
      BY UnreadMoves
    <3> HIDE DEF v
    <3>2. \A m \in Members : feed[m] \o v \in Seq(Notices)
      BY <1>2, <3>1, ConcatProperties
    <3>3. feed' = Notified(a, v)
      BY <1>1 DEF v
    <3> QED
      BY <1>2, <3>2, <3>3 DEF Notified
  <2> QED
    BY <1>1, <2>1 DEF FeedTypes
<1>6. AllMade'
  <2>1. {q \in Asks : gate'[q] # "none"} = made \cup {new}
    BY <1>1, <1>2, <1>4
  <2>2. IsFiniteSet(made)
    BY DEF AllMade
  <2> HIDE DEF made, new
  <2>3. IsFiniteSet(made \cup {new})
    BY <2>2, FS_AddElement
  <2>4. ASSUME NEW b \in Agents
        PROVE  asked'[b] <= MaxAsks /\ \A k \in 1..asked'[b] : gate'[<<b, k>>] # "none"
    <3>1. asked[b] <= MaxAsks /\ \A k \in 1..asked[b] : gate[<<b, k>>] # "none"
      BY DEF AllMade
    <3>2. asked[b] \in Nat
      BY <1>2
    <3>3. asked'[b] <= MaxAsks
      BY <1>1, <1>2, <1>3, <3>1
    <3>4. \A k \in 1..asked'[b] : <<b, k>> \in Asks
      BY <1>1, <1>2, <1>3, <3>1, <3>2 DEF Asks
    <3>5. ASSUME NEW k \in 1..asked'[b] PROVE gate'[<<b, k>>] # "none"
      <4>1. CASE <<b, k>> = new
        BY <1>1, <1>2, <1>4, <4>1
      <4>2. CASE <<b, k>> # new
        <5>1. k \in 1..asked[b]
          BY <1>1, <1>2, <3>2, <4>2 DEF new
        <5> QED
          BY <1>1, <1>2, <3>1, <3>4, <4>2, <5>1
      <4> QED
        BY <4>1, <4>2
    <3> QED
      BY <3>3, <3>5
  <2> QED
    BY <2>1, <2>3, <2>4 DEF AllMade
<1>7. Silent'
  BY <1>1 DEF Silent, Notified
<1>8. ASSUME NEW m \in Members
      PROVE  /\ Current(m)' \in Asks /\ gate'[Current(m)'] = "pending" =>
                   feed'[m] = <<>> \/ feed'[m][Len(feed'[m])] = "suspended"
             /\ Unread(feed'[m]) + (IF place'[m] = "parked" THEN 1 ELSE 0) <= asked'[m]
  <2>1. /\ feed[m] \in Seq(Notices) /\ asked[m] \in Nat
    BY <1>2
  <2>2. Unread(feed[m]) \in Nat
    BY <2>1, UnreadCount
  <2>3. /\ Unread(feed[m]) + (IF place[m] = "parked" THEN 1 ELSE 0) <= asked[m]
        /\ Current(m) \in Asks /\ gate[Current(m)] = "pending" =>
              feed[m] = <<>> \/ feed[m][Len(feed[m])] = "suspended"
    BY DEF FeedCounted, FeedEndsWithAsk
  <2>4. CASE m # a
    <3>1. asked'[m] = asked[m] /\ feed'[m] = feed[m]
      BY <1>1, <1>2, <2>4 DEF Notified
    <3>2. Current(m)' = Current(m) /\ Current(m) # new
      BY <2>4, <3>1 DEF Current
    <3> QED
      BY <1>1, <1>2, <2>3, <3>1, <3>2
  <2>5. CASE m = a /\ unattended
    <3>1. feed[m] = <<>> /\ feed'[m] = <<>> /\ asked'[m] = asked[m] + 1
      BY <1>1, <1>2, <2>5 DEF Silent, Notified
    <3> QED
      BY <1>1, <2>1, <2>2, <2>3, <3>1
  <2>6. CASE m = a /\ ~unattended
    <3> DEFINE v == <<"suspended">>
               s == feed[m]
    <3>1. feed'[m] = s \o v /\ asked'[m] = asked[m] + 1
      BY <1>1, <1>2, <2>6 DEF Notified
    <3>2. v \in Seq(Notices) /\ Unread(v) = 1 /\ Len(v) = 1 /\ v[1] = "suspended"
      BY UnreadMoves
    <3> HIDE DEF v, s
    <3>3. s \in Seq(Notices) /\ Unread(s) \in Nat /\ Len(s) \in Nat
      BY <2>1, <2>2, LenProperties DEF s
    <3>4. Unread(s \o v) = Unread(s) + 1
      BY <3>2, <3>3, UnreadMoves
    <3>5. Len(s \o v) = Len(s) + 1 /\ (s \o v)[Len(s) + 1] = "suspended"
      <4>1. /\ Len(s \o v) = Len(s) + Len(v)
            /\ \A i \in 1..(Len(s) + Len(v)) :
                 (s \o v)[i] = IF i <= Len(s) THEN s[i] ELSE v[i - Len(s)]
        BY <3>2, <3>3, ConcatProperties
      <4> QED
        BY <3>2, <3>3, <4>1
    <3>6. Unread(s) + (IF place[m] = "parked" THEN 1 ELSE 0) <= asked[m]
      BY <2>3 DEF s
    <3>7. PICK k \in Nat : k = (IF place[m] = "parked" THEN 1 ELSE 0)
      OBVIOUS
    <3>8. Unread(s) + 1 + k <= asked[m] + 1
      BY <2>1, <3>3, <3>6, <3>7
    <3>9. Unread(feed'[m]) + (IF place'[m] = "parked" THEN 1 ELSE 0) <= asked'[m]
      BY <1>1, <3>1, <3>4, <3>7, <3>8
    <3>10. feed'[m][Len(feed'[m])] = "suspended"
      BY <3>1, <3>5
    <3> QED
      BY <3>9, <3>10
  <2> QED
    BY <2>4, <2>5, <2>6
<1>9. FeedEndsWithAsk' /\ FeedCounted'
  BY <1>8 DEF FeedEndsWithAsk, FeedCounted
<1> QED
  BY <1>5, <1>6, <1>7, <1>9

\* The end of an ask is announced to its member, once or twice.
LEMMA NotifiedFeed ==
    ASSUME FeedTypes, NEW a \in Agents, NEW n \in Seq(Notices)
    PROVE  /\ Notified(a, n) \in [Members -> Seq(Notices)]
           /\ \A m \in Members :
                \/ Notified(a, n)[m] = feed[m]
                \/ m = a /\ ~unattended /\ Notified(a, n)[m] = feed[m] \o n
<1>1. \A m \in Members : feed[m] \o n \in Seq(Notices)
  BY ConcatProperties DEF FeedTypes
<1> QED
  BY <1>1 DEF Notified, FeedTypes

\* Every step keeps the feeds' invariant.
LEMMA FeedKeeps == IInv /\ IInv' /\ FInv /\ [Next]_vars => FInv'
<1> SUFFICES ASSUME IInv, IInv', FInv, [Next]_vars PROVE FInv'
  OBVIOUS
<1>0. /\ GateTypes /\ GateTypes' /\ FeedTypes /\ \A m \in Members : m \in Agents
      /\ feed \in [Members -> Seq(Notices)] /\ DOMAIN place = Members
  BY DEF IInv, FInv, FeedTypes, Agents
<1>1. ASSUME NEW a \in Agents, Ask(a) \/ AskUnattended(a) PROVE FInv'
  BY <1>1, FeedRegister DEF Ask, AskUnattended
<1>2. ASSUME NEW a \in Agents,
             TurnTakesReply(a) \/ TurnTakesGate(a) \/ TurnCancelled(a)
      PROVE  FInv'
  <2> DEFINE r == <<"resumed">>
  <2>0. r \in Seq(Notices) /\ r \o r \in Seq(Notices)
    BY UnreadMoves, ConcatProperties
  <2>1. /\ asked' = asked /\ unattended' = unattended /\ place' = place /\ decider' = decider
    BY <1>2 DEF TurnTakesReply, TurnTakesGate, TurnCancelled, Ends
  <2>2. \/ gate' = gate /\ box[Current(a)] # "none"
        \/ gate' = gate /\ gate[Current(a)] # "pending"
        \/ /\ gate[Current(a)] = "pending"
           /\ \E g \in {"resolved", "withdrawn"} : gate' = [gate EXCEPT ![Current(a)] = g]
    BY <1>2 DEF TurnTakesReply, TurnTakesGate, TurnCancelled, Resolve, Withdraw
  <2>3. Current(a) \in Asks => gate'[Current(a)] # "pending"
    BY <2>2 DEF IInv, GateTypes, BoxIsDecided
  <2>4. /\ \A q \in Asks : gate'[q] = "none" <=> gate[q] = "none"
        /\ \A q \in Asks : gate'[q] = "pending" => gate[q] = "pending"
    BY <1>0, <2>2 DEF GateTypes
  <2>5. Current(a)[1] = a
    BY DEF Current
  <2>6. feed' = Notified(a, r) \/ feed' = Notified(a, r \o r)
    <3>1. CASE TurnTakesReply(a)
      BY <2>5, <3>1 DEF TurnTakesReply, Resolve
    <3>2. CASE TurnTakesGate(a) \/ TurnCancelled(a)
      BY <3>2 DEF TurnTakesGate, TurnCancelled
    <3> QED
      BY <1>2, <3>1, <3>2
  <2>7. PICK n \in {r, r \o r} : feed' = Notified(a, n)
    BY <2>6
  <2>8. n \in Seq(Notices)
    BY <2>0, <2>7
  <2>9. /\ feed' \in [Members -> Seq(Notices)]
        /\ \A m \in Members :
             feed'[m] = feed[m] \/ (m = a /\ ~unattended /\ feed'[m] = feed[m] \o n)
    BY <1>0, <2>7, <2>8, NotifiedFeed, SMTT(30)
  <2>10. FeedTypes'
    BY <1>0, <2>1, <2>9 DEF FeedTypes
  <2>11. \A m \in Members :
              \/ feed'[m] = feed[m] /\ (place'[m] = "parked" => place[m] = "parked")
              \/ /\ ~unattended /\ place'[m] = place[m]
                 /\ feed'[m] = feed[m] \o <<"resumed">>
                      \/ feed'[m] = feed[m] \o (<<"resumed">> \o <<"resumed">>)
                 /\ Current(m) \in Asks => gate'[Current(m)] # "pending"
    <3> SUFFICES ASSUME NEW m \in Members
                 PROVE  \/ feed'[m] = feed[m] /\ (place'[m] = "parked" => place[m] = "parked")
                        \/ /\ ~unattended /\ place'[m] = place[m]
                           /\ feed'[m] = feed[m] \o r \/ feed'[m] = feed[m] \o (r \o r)
                           /\ Current(m) \in Asks => gate'[Current(m)] # "pending"
      OBVIOUS
    <3> HIDE DEF r
    <3>1. feed'[m] = feed[m] \/ (m = a /\ ~unattended /\ feed'[m] = feed[m] \o n)
      BY <2>9
    <3> QED
      BY <2>1, <2>3, <2>7, <3>1
  <2> QED
    BY <1>0, <2>1, <2>4, <2>10, <2>11, FeedStep
<1>3. CASE DecideResolves
  <2> DEFINE q == decider.ask
             r == <<"resumed">>
  <2>1. /\ asked' = asked /\ unattended' = unattended /\ place' = place /\ decider' = Idle
        /\ decider # Idle /\ Resolve(q, <<>>)
    BY <1>3 DEF DecideResolves
  <2>2. q \in Asks /\ q[1] \in Agents /\ q = <<q[1], q[2]>>
    BY <1>0, <2>1, AskParts DEF FeedTypes
  <2>3. CASE gate[q] # "pending"
    <3>1. gate' = gate /\ feed' = Notified(q[1], <<>>)
      BY <2>1, <2>3 DEF Resolve
    <3>2. feed' = feed
      <4>1. \A m \in Members : feed[m] \o <<>> = feed[m]
        BY <1>0, ConcatEmptySeq
      <4>2. [m \in Members |-> feed[m]] = feed
        BY <1>0
      <4>3. CASE q[1] \in Members /\ ~unattended
        <5>1. feed' = [feed EXCEPT ![q[1]] = feed[q[1]] \o <<>>]
          BY <3>1, <4>3 DEF Notified
        <5>2. feed' = [feed EXCEPT ![q[1]] = feed[q[1]]]
          BY <4>1, <4>3, <5>1
        <5> QED
          BY <1>0, <5>2
      <4>4. CASE ~(q[1] \in Members /\ ~unattended)
        BY <3>1, <4>4 DEF Notified
      <4> QED
        BY <4>3, <4>4
    <3>3. FeedTypes'
      BY <1>0, <2>1, <3>2 DEF FeedTypes
    <3> QED
      BY <1>0, <2>1, <3>1, <3>2, <3>3, FeedStep
  <2>4. CASE gate[q] = "pending"
    <3>0. r \in Seq(Notices)
      BY UnreadMoves
    <3>1. gate' = [gate EXCEPT ![q] = "resolved"] /\ feed' = Notified(q[1], r)
      <4>1. r \o <<>> = r
        BY <3>0, ConcatEmptySeq
      <4> QED
        BY <2>1, <2>4, <4>1 DEF Resolve
    <3>2. Current(q[1]) = q
      BY <2>2, <2>4 DEF IInv, PendingHasAsker
    <3>3. /\ feed' \in [Members -> Seq(Notices)]
          /\ \A m \in Members :
               feed'[m] = feed[m] \/ (m = q[1] /\ ~unattended /\ feed'[m] = feed[m] \o r)
      BY <1>0, <2>2, <3>0, <3>1, NotifiedFeed
    <3>4. FeedTypes'
      BY <1>0, <2>1, <3>3 DEF FeedTypes
    <3>5. /\ \A p \in Asks : gate'[p] = "none" <=> gate[p] = "none"
          /\ \A p \in Asks : gate'[p] = "pending" => gate[p] = "pending"
          /\ gate'[q] # "pending"
      BY <1>0, <2>2, <2>4, <3>1 DEF GateTypes
    <3>6. \A m \in Members :
              \/ feed'[m] = feed[m] /\ (place'[m] = "parked" => place[m] = "parked")
              \/ /\ ~unattended /\ place'[m] = place[m]
                 /\ feed'[m] = feed[m] \o <<"resumed">>
                 /\ Current(m) \in Asks => gate'[Current(m)] # "pending"
      BY <2>1, <3>2, <3>3, <3>5
    <3> QED
      BY <1>0, <2>1, <3>4, <3>5, <3>6, FeedStep
  <2> QED
    BY <2>3, <2>4
<1>4. ASSUME NEW m \in Members, Notice(m) \/ ParkedResumes(m) PROVE FInv'
  <2>1. /\ asked' = asked /\ unattended' = unattended /\ decider' = decider /\ gate' = gate
        /\ feed[m] # <<>> /\ feed' = [feed EXCEPT ![m] = Tail(@)]
        /\ \/ place' = [place EXCEPT ![m] = "parked"] /\ Head(feed[m]) = "suspended"
           \/ place' = [place EXCEPT ![m] = "active"]
           \/ place' = [place EXCEPT ![m] = "ready"]
    BY <1>4 DEF Notice, ParkedResumes
  <2>2. Tail(feed[m]) \in Seq(Notices)
    BY <1>0, <2>1, UnreadTail
  <2>3. FeedTypes'
    BY <1>0, <2>1, <2>2 DEF FeedTypes
  <2>4. \A x \in Members :
              \/ feed'[x] = feed[x] /\ (place'[x] = "parked" => place[x] = "parked")
              \/ /\ feed[x] # <<>> /\ feed'[x] = Tail(feed[x])
                 /\ place'[x] = "parked" => Head(feed[x]) = "suspended"
    BY <1>0, <2>1
  <2> QED
    BY <1>0, <2>1, <2>3, <2>4, FeedStep
<1>5. ASSUME NEW m \in Members, ParkedCancelled(m) \/ ReadyAborted(m) PROVE FInv'
  <2>1. Abort(m)
    BY <1>5 DEF ParkedCancelled, ReadyAborted
  <2>2. /\ asked' = asked /\ unattended' = unattended /\ decider' = decider /\ feed' = feed
        /\ place' = [place EXCEPT ![m] = "settled"]
    BY <2>1 DEF Abort
  <2>3. /\ \A q \in Asks : gate'[q] = "none" <=> gate[q] = "none"
        /\ \A q \in Asks : gate'[q] = "pending" => gate[q] = "pending"
    BY <1>0, <2>1 DEF Abort, Withdraw, GateTypes
  <2>4. FeedTypes'
    BY <1>0, <2>2 DEF FeedTypes
  <2>5. \A x \in Members : feed'[x] = feed[x] /\ (place'[x] = "parked" => place[x] = "parked")
    BY <1>0, <2>2
  <2> QED
    BY <1>0, <2>2, <2>3, <2>4, <2>5, FeedStep
<1>6. CASE Drain
  <2>1. /\ asked' = asked /\ unattended' = unattended /\ decider' = decider /\ feed' = feed
        /\ place' = place
        /\ \A q \in Asks : gate'[q] = "none" <=> gate[q] = "none"
        /\ \A q \in Asks : gate'[q] = "pending" => gate[q] = "pending"
    BY <1>0, <1>6 DEF Drain, GateTypes
  <2>2. FeedTypes'
    BY <1>0, <2>1 DEF FeedTypes
  <2> QED
    BY <1>0, <2>1, <2>2, FeedStep
<1>7. ASSUME \/ \E a \in Agents : StopAgent(a) \/ TurnTakesFailure(a) \/ TurnEnds(a)
             \/ \E m \in Members : Relaunch(m)
             \/ \E q \in Asks, v \in Answers : Reply(q, v) \/ DecideReads(q, v)
             \/ CancelBatch \/ LoopSeesCancel \/ ConnectionLost \/ CloseStops
             \/ Finished \/ UNCHANGED vars
      PROVE  FInv'
  <2>1. asked' = asked /\ gate' = gate /\ feed' = feed /\ unattended' = unattended
    BY <1>7 DEF StopAgent, TurnTakesFailure, TurnEnds, Relaunch, Reply, DecideReads,
                CancelBatch, LoopSeesCancel, ConnectionLost, CloseStops, Finished, vars
  <2>2. place' = place \/ \E m \in Members, w \in {"active", "settled"} :
                             place' = [place EXCEPT ![m] = w]
    BY <1>7 DEF StopAgent, TurnTakesFailure, TurnEnds, Relaunch, Reply, DecideReads,
                CancelBatch, LoopSeesCancel, ConnectionLost, CloseStops, Finished, vars
  <2>3. decider' = decider \/ \E q \in Asks, v \in Answers : decider' = [ask |-> q, answer |-> v]
    BY <1>7 DEF StopAgent, TurnTakesFailure, TurnEnds, Relaunch, Reply, DecideReads,
                CancelBatch, LoopSeesCancel, ConnectionLost, CloseStops, Finished, vars
  <2>4. FeedTypes'
    BY <1>0, <2>1, <2>2, <2>3 DEF FeedTypes
  <2>5. \A x \in Members : feed'[x] = feed[x] /\ (place'[x] = "parked" => place[x] = "parked")
    BY <1>0, <2>1, <2>2
  <2> QED
    BY <1>0, <2>1, <2>4, <2>5, FeedStep
<1> QED
  BY <1>1, <1>2, <1>3, <1>4, <1>5, <1>6, <1>7 DEF Next

LEMMA FeedInit == Init => IInv /\ FInv
<1> SUFFICES ASSUME Init PROVE IInv /\ FInv
  OBVIOUS
<1>1. IInv
  BY DEF Init, IInv, GateTypes, PendingHasAsker, BoxIsDecided, AskedInOrder
<1>2. FeedTypes
  <2>1. <<>> \in Seq(Notices)
    OBVIOUS
  <2> QED
    BY <2>1 DEF Init, FeedTypes
<1>3. AllMade
  <2>1. {q \in Asks : gate[q] # "none"} = {}
    BY DEF Init
  <2>2. \A a \in Agents : asked[a] = 0 /\ asked[a] <= MaxAsks
    BY ApprovalAssumption DEF Init
  <2> QED
    BY <2>1, <2>2, FS_EmptySet DEF AllMade
<1>4. Silent /\ FeedEndsWithAsk
  BY DEF Init, Silent, FeedEndsWithAsk
<1>5. FeedCounted
  <2> SUFFICES ASSUME NEW m \in Members
               PROVE  Unread(feed[m]) + (IF place[m] = "parked" THEN 1 ELSE 0) <= asked[m]
    BY DEF FeedCounted
  <2>1. feed[m] = <<>> /\ place[m] = "active" /\ asked[m] = 0
    BY DEF Init, Agents
  <2> QED
    BY <2>1, UnreadMoves
<1> QED
  BY <1>1, <1>2, <1>3, <1>4, <1>5 DEF FInv

(***************************************************************************)
(* A parked member is sent back to compete for a slot only when the ask it *)
(* was parked for has left the gate (park_member wakes on any notice of    *)
(* the feed): no notice of an earlier ask can be unread behind the         *)
(* suspension of a pending one, for any number of members and asks.        *)
(***************************************************************************)
THEOREM ResumedAfterDecision == Spec => ResumedIsDecided
<1> DEFINE A == \A m \in Members :
                   place[m] = "parked" /\ place'[m] = "ready" =>
                       gate[<<m, ParkedFor(m)>>] # "pending"
<1>1. IInv /\ FInv /\ [Next]_vars => [A]_vars
  <2> SUFFICES ASSUME IInv, FInv, Next, NEW m \in Members,
                      place[m] = "parked", place'[m] = "ready",
                      gate[<<m, ParkedFor(m)>>] = "pending"
               PROVE  FALSE
    OBVIOUS
  <2> DEFINE q == <<m, ParkedFor(m)>>
  <2>0. /\ feed[m] \in Seq(Notices) /\ DOMAIN place = Members /\ m \in Agents
        /\ asked[m] \in Nat /\ asked[m] <= MaxAsks /\ MaxAsks \in Nat
    BY ApprovalAssumption DEF IInv, GateTypes, FInv, FeedTypes, AllMade, Agents
  <2>1. feed[m] # <<>>
    BY <2>0 DEF Next, Ask, AskUnattended, Register, TurnTakesReply, TurnTakesFailure,
           TurnTakesGate, TurnCancelled, TurnEnds, StopAgent, Notice, ParkedResumes,
           ParkedCancelled, Relaunch, ReadyAborted, Abort, Reply, DecideReads, CancelBatch,
           LoopSeesCancel, ConnectionLost, DecideResolves, CloseStops, Drain, Finished, vars
  <2>2. ParkedFor(m) = asked[m] - Unread(feed[m])
    BY DEF ParkedFor, Unread
  <2>3. Unread(feed[m]) \in Nat /\ Unread(feed[m]) + 1 <= asked[m]
    BY <2>0, UnreadCount DEF FInv, FeedCounted
  <2>4. q \in Asks
    BY <2>0, <2>2, <2>3 DEF Asks
  <2>5. Current(m) = q
    BY <2>4 DEF IInv, PendingHasAsker
  <2>6. asked[m] = ParkedFor(m)
    BY <2>5 DEF Current
  <2>7. Unread(feed[m]) = 0
    BY <2>0, <2>2, <2>3, <2>6
  <2>8. feed[m][Len(feed[m])] = "suspended"
    BY <2>1, <2>4, <2>5 DEF FInv, FeedEndsWithAsk
  <2>9. Len(feed[m]) \in 1..Len(feed[m])
    BY <2>0, <2>1, LenProperties, EmptySeq
  <2> QED
    BY <2>0, <2>7, <2>8, <2>9, UnreadCount
<1> QED
  BY FeedInit, StepKeeps, FeedKeeps, <1>1, PTL DEF Spec, ResumedIsDecided
=============================================================================
