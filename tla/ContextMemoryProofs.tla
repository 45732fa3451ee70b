------------------------ MODULE ContextMemoryProofs ------------------------
(***************************************************************************)
(* Proofs about the agent's history (ContextMemory).                       *)
(*                                                                         *)
(* The exchange: which calls may be awaited when (ExchangeInv), so that    *)
(* the deferred buffer never outlives what it waits for.  The contents:    *)
(* every step but clear and a compaction is an edit, which takes some      *)
(* messages out and appends some (Edits); from that the types, the entry   *)
(* numbers and the coverage point (CoverageInv), the order of arrival      *)
(* (ArrivalInv), the compaction round (RoundInv), calls and their results  *)
(* (CallsInv), and what a request has in common with the one before it     *)
(* (RequestInv).                                                           *)
(***************************************************************************)
EXTENDS ContextMemory, QueueLemmas

Counters ==
    /\ step \in Nat /\ dispatched \in Nat /\ recorded \in Nat
    /\ recorded <= dispatched

(* During a batch only calls of the current step that were dispatched and  *)
(* whose results are still to be recorded are awaited.                     *)
InBatch == pc \in {"tools", "results", "inject"}
AwaitedInBatch ==
    InBatch => \A c \in pendingIds : \E k \in (recorded + 1)..dispatched : c = <<step, k>>

(* The inductive invariant of both theorems. *)
ExchangeInv ==
    Counters /\ AwaitedInBatch /\ QuietBetweenSteps /\ DeferredOnlyWhileOpen

(* Recording a result: the id is no longer awaited, nothing else is new,   *)
(* and the buffer is emptied with the last one.                            *)
LEMMA ResultRecorded ==
    ASSUME NEW c, RecordToolResult(c), DeferredOnlyWhileOpen
    PROVE  pendingIds' = pendingIds \ {c} /\ DeferredOnlyWhileOpen'
<1>1. CASE c \notin pendingIds
  BY <1>1 DEF RecordToolResult, DeferredOnlyWhileOpen
<1>2. CASE c \in pendingIds
  <2>1. /\ pendingIds' = pendingIds \ {c}
        /\ deferred' = IF pendingIds = {c} THEN <<>> ELSE deferred
    BY <1>2 DEF RecordToolResult
  <2>2. pendingIds # {c} => pendingIds \ {c} # {}
    BY <1>2
  <2> QED  BY <2>1, <2>2 DEF DeferredOnlyWhileOpen
<1> QED  BY <1>1, <1>2

(* Appending a message defers it only while something is awaited. *)
LEMMA MessageAppended ==
    ASSUME NEW m, AppendMessage(m), DeferredOnlyWhileOpen, pendingIds' = pendingIds
    PROVE  DeferredOnlyWhileOpen'
BY DEF AppendMessage, DeferredOnlyWhileOpen

(* The actions that touch neither the counters, the awaited calls nor the  *)
(* buffer, and do not enter or leave a batch.                              *)
LEMMA Undisturbed ==
    ASSUME ExchangeInv, DeferredOnlyWhileOpen',
           UNCHANGED <<step, dispatched, recorded, pendingIds>>,
           pc' = pc \/ pendingIds = {}
    PROVE  ExchangeInv'
BY DEF ExchangeInv, Counters, AwaitedInBatch, QuietBetweenSteps, InBatch

LEMMA UserAppended ==
    ASSUME ExchangeInv, NEW o, AppendUser(o), UNCHANGED <<step, dispatched, recorded>>,
           pc' = pc \/ pendingIds = {}
    PROVE  ExchangeInv'
<1>1. AppendMessage(User(o)) /\ UNCHANGED pendingIds
  BY DEF AppendUser
<1>2. DeferredOnlyWhileOpen'
  BY <1>1, MessageAppended DEF ExchangeInv
<1> QED  BY <1>1, <1>2, Undisturbed

LEMMA Moved ==
    ASSUME ExchangeInv, NEW from, NEW to, Move(from, to), pc' = pc \/ pendingIds = {}
    PROVE  ExchangeInv'
<1>1. UNCHANGED <<step, dispatched, recorded, pendingIds, deferred>>
  BY DEF Move, memory
<1> QED  BY <1>1, Undisturbed DEF ExchangeInv, DeferredOnlyWhileOpen

(* StepEnd keeps the awaited calls and flushes the buffer when there are   *)
(* none.                                                                   *)
LEMMA StepEnded ==
    ASSUME NEW s, NEW usage, StepEnd(s, usage), UNCHANGED pendingIds, DeferredOnlyWhileOpen
    PROVE  DeferredOnlyWhileOpen'
BY DEF StepEnd, DeferredOnlyWhileOpen

(* Undo, clear and an applied compaction drop the exchange altogether. *)
LEMMA ExchangeDropped ==
    ASSUME ExchangeInv, DropExchange, UNCHANGED <<step, dispatched, recorded>>
    PROVE  ExchangeInv'
BY DEF ExchangeInv, DropExchange, Counters, AwaitedInBatch, QuietBetweenSteps,
       DeferredOnlyWhileOpen
-----------------------------------------------------------------------------
(* The steps of the turn, one by one. *)

LEMMA TurnKeepsExchange ==
    ASSUME ExchangeInv, Turn
    PROVE  ExchangeInv'
<1> USE DEF ExchangeInv
<1>q. pc \notin {"tools", "results", "inject", "closing"} => pendingIds = {}
  BY DEF QuietBetweenSteps
<1>1. CASE HookResult \/ HookContext \/ Prompt
  <2>1. PICK o \in {"hook", "user"} : AppendUser(o)
    BY <1>1 DEF HookResult, HookContext, Prompt
  <2>2. pendingIds = {} /\ UNCHANGED <<step, dispatched, recorded>>
    BY <1>1, <1>q DEF HookResult, HookContext, Prompt, Between
  <2> QED  BY <2>1, <2>2, UserAppended
<1>2. CASE Blocked
  <2>1. pendingIds = {} /\ UNCHANGED <<step, dispatched, recorded, pendingIds>>
    BY <1>2, <1>q DEF Blocked
  <2>2. DeferredOnlyWhileOpen'
    BY <1>2, <2>1, MessageAppended DEF Blocked
  <2> QED  BY <2>1, <2>2, Undisturbed
<1>3. CASE RetryTurn \/ ToTools \/ NoTools \/ Continue \/ GiveUp
  <2>1. pendingIds = {} /\ \E from, to : Move(from, to)
    BY <1>3, <1>q DEF RetryTurn, ToTools, NoTools, Continue, GiveUp, Move
  <2> QED  BY <2>1, Moved
<1>4. CASE Steer
  BY <1>4, UserAppended DEF Steer, loop
<1>5. CASE BeginStep
  <2>1. pendingIds = {} /\ pendingIds' = {} /\ deferred' = deferred
    BY <1>5, <1>q DEF BeginStep
  <2>2. step' \in Nat /\ UNCHANGED <<dispatched, recorded>>
    BY <1>5 DEF BeginStep, Counters
  <2> QED  BY <2>1, <2>2 DEF Counters, AwaitedInBatch, QuietBetweenSteps, DeferredOnlyWhileOpen
<1>6. CASE StepFails
  <2>1. pendingIds = {} /\ UNCHANGED <<step, dispatched, recorded, pendingIds, deferred>>
    BY <1>6, <1>q DEF StepFails, memory
  <2> QED  BY <2>1, Undisturbed DEF DeferredOnlyWhileOpen
<1>7. CASE EmptyAnswer
  <2>1. pendingIds = {} /\ UNCHANGED <<step, dispatched, recorded, pendingIds>>
    BY <1>7, <1>q DEF EmptyAnswer
  <2>2. DeferredOnlyWhileOpen'
    BY <1>7, <2>1, MessageAppended DEF EmptyAnswer
  <2> QED  BY <2>1, <2>2, Undisturbed
<1>8. ASSUME NEW hasText \in BOOLEAN, Answer(hasText)
      PROVE  ExchangeInv'
  <2>1. pendingIds = {} /\ UNCHANGED <<step, dispatched, recorded, pendingIds, deferred>>
    BY <1>8, <1>q DEF Answer
  <2> QED  BY <2>1, Undisturbed DEF DeferredOnlyWhileOpen
<1>9. CASE Dispatch
  <2>1. /\ pc = "tools" /\ pc' = "tools" /\ dispatched' = dispatched + 1
        /\ pendingIds' = pendingIds \cup {<<step, dispatched + 1>>}
        /\ UNCHANGED <<step, recorded, deferred>>
    BY <1>9 DEF Dispatch, NextCall
  <2>2. Counters'
    BY <2>1 DEF Counters
  <2>3. dispatched + 1 \in (recorded + 1)..dispatched'
    BY <2>1 DEF Counters
  <2>4. \A k \in (recorded + 1)..dispatched : k \in (recorded + 1)..dispatched'
    BY <2>1 DEF Counters
  <2>5. AwaitedInBatch'
    BY <2>1, <2>3, <2>4 DEF AwaitedInBatch, InBatch
  <2>6. QuietBetweenSteps'
    BY <2>1 DEF QuietBetweenSteps
  <2>7. pendingIds' # {}
    BY <2>1
  <2> QED  BY <2>2, <2>5, <2>6, <2>7 DEF DeferredOnlyWhileOpen
<1>10. CASE Unexecuted
  <2>1. pendingIds = {} /\ pendingIds' = {} /\ deferred' = deferred
    BY <1>10, <1>q DEF Unexecuted
  <2>2. Counters'
    BY <1>10 DEF Unexecuted, Counters
  <2> QED  BY <2>1, <2>2 DEF AwaitedInBatch, QuietBetweenSteps, DeferredOnlyWhileOpen
<1>11. CASE BatchDone
  <2>1. /\ pc = "tools" /\ pc' = "results"
        /\ UNCHANGED <<step, dispatched, recorded, pendingIds, deferred>>
    BY <1>11 DEF BatchDone, Move, memory
  <2> QED  BY <2>1 DEF Counters, AwaitedInBatch, InBatch, QuietBetweenSteps, DeferredOnlyWhileOpen
<1>12. CASE RecordResult
  <2>1. /\ pc = "results" /\ pc' \in {"results", "inject"}
        /\ recorded < dispatched /\ recorded' = recorded + 1
        /\ RecordToolResult(<<step, recorded + 1>>)
        /\ UNCHANGED <<step, dispatched>>
    BY <1>12 DEF RecordResult
  <2>2. pendingIds' = pendingIds \ {<<step, recorded + 1>>} /\ DeferredOnlyWhileOpen'
    BY <2>1, ResultRecorded
  <2>3. Counters'
    BY <2>1 DEF Counters
  <2>4. \A k \in (recorded + 1)..dispatched : k = recorded + 1 \/ k \in (recorded' + 1)..dispatched
    BY <2>1 DEF Counters
  <2>5. AwaitedInBatch'
    BY <2>1, <2>2, <2>4 DEF AwaitedInBatch, InBatch
  <2>6. QuietBetweenSteps'
    BY <2>1 DEF QuietBetweenSteps
  <2> QED  BY <2>2, <2>3, <2>5, <2>6
<1>13. CASE Inject
  <2>1. /\ pc = "inject" /\ pc' = "results" /\ AppendUser("injection")
        /\ UNCHANGED <<step, dispatched, recorded>>
    BY <1>13 DEF Inject
  <2>2. AppendMessage(User("injection")) /\ UNCHANGED pendingIds
    BY <2>1 DEF AppendUser
  <2>3. DeferredOnlyWhileOpen'
    BY <2>2, MessageAppended
  <2> QED  BY <2>1, <2>2, <2>3 DEF Counters, AwaitedInBatch, InBatch, QuietBetweenSteps
<1>14. CASE ResultsDone
  <2>1. pc = "results" /\ recorded = dispatched /\ Move({"results"}, {"end"})
    BY <1>14 DEF ResultsDone, Move
  <2>2. \A k : k \notin (recorded + 1)..dispatched
    BY <2>1 DEF Counters
  <2>3. pendingIds = {}
    BY <2>1, <2>2 DEF AwaitedInBatch, InBatch
  <2> QED  BY <2>1, <2>3, Moved
<1>15. CASE EndStep
  <2>1. /\ pendingIds = {} /\ UNCHANGED <<step, pendingIds>>
        /\ dispatched' = 0 /\ recorded' = 0
    BY <1>15, <1>q DEF EndStep
  <2>2. DeferredOnlyWhileOpen'
    BY <1>15, <2>1, StepEnded DEF EndStep
  <2> QED  BY <2>1, <2>2 DEF Counters, AwaitedInBatch, QuietBetweenSteps
<1>16. CASE Interrupt
  <2>1. /\ pc' = "closing" /\ dispatched' = 0 /\ recorded' = 0
        /\ UNCHANGED <<step, pendingIds, deferred>>
    BY <1>16 DEF Interrupt, memory
  <2> QED  BY <2>1 DEF Counters, AwaitedInBatch, InBatch, QuietBetweenSteps, DeferredOnlyWhileOpen
<1>17. CASE Closed
  <2>1. pendingIds = {} /\ Move({"closing"}, {"idle"})
    BY <1>17 DEF Closed
  <2> QED  BY <2>1, Moved
<1>18. ASSUME NEW c \in CallIds, CloseResult(c)
       PROVE  ExchangeInv'
  <2>1. /\ pc = "closing" /\ pc' = "closing" /\ RecordToolResult(c)
        /\ UNCHANGED <<step, dispatched, recorded>>
    BY <1>18 DEF CloseResult, loop
  <2>2. DeferredOnlyWhileOpen'
    BY <2>1, ResultRecorded
  <2> QED  BY <2>1, <2>2 DEF Counters, AwaitedInBatch, InBatch, QuietBetweenSteps
<1>19. ASSUME NEW s \in Steps, CloseStep(s)
       PROVE  ExchangeInv'
  <2>1. /\ pc' = pc /\ StepEnd(s, FALSE)
        /\ UNCHANGED <<step, dispatched, recorded, pendingIds>>
    BY <1>19 DEF CloseStep, loop
  <2>2. DeferredOnlyWhileOpen'
    BY <2>1, StepEnded
  <2> QED  BY <2>1, <2>2, Undisturbed
<1> QED
  BY <1>1, <1>2, <1>3, <1>4, <1>5, <1>6, <1>7, <1>8, <1>9, <1>10, <1>11, <1>12, <1>13,
     <1>14, <1>15, <1>16, <1>17, <1>18, <1>19
  DEF Turn

LEMMA OthersKeepExchange ==
    ASSUME ExchangeInv, Others
    PROVE  ExchangeInv'
<1>q. pc \notin {"tools", "results", "inject", "closing"} => pendingIds = {}
  BY DEF ExchangeInv, QuietBetweenSteps
<1>1. CASE Deliver
  BY <1>1, UserAppended DEF Deliver, loop
<1>2. CASE Clear
  BY <1>2, ExchangeDropped DEF Clear, loop
<1>3. CASE PopReminder
  <2>1. UNCHANGED <<pc, step, dispatched, recorded, pendingIds, deferred>>
    BY <1>3 DEF PopReminder, loop
  <2> QED  BY <2>1, Undisturbed DEF ExchangeInv, DeferredOnlyWhileOpen
<1>4. ASSUME NEW cut, NEW count, Undo(cut, count)
      PROVE  ExchangeInv'
  BY <1>4, ExchangeDropped DEF Undo, loop
<1>5. ASSUME NEW last, BeginCompaction(last)
      PROVE  ExchangeInv'
  <2>1. pendingIds = {} /\ UNCHANGED <<step, dispatched, recorded, pendingIds, deferred>>
    BY <1>5, <1>q DEF BeginCompaction, Between, memory
  <2> QED  BY <2>1, Undisturbed DEF ExchangeInv, DeferredOnlyWhileOpen
<1>6. ASSUME NEW last, NEW kept, ApplyCompaction(last, kept)
      PROVE  ExchangeInv'
  <2>1. DropExchange /\ RoundOver
    BY <1>6 DEF ApplyCompaction
  <2> QED  BY <2>1, ExchangeDropped DEF RoundOver
<1>7. CASE RefuseCompaction \/ LoseCompaction
  <2>1. pendingIds = {} /\ UNCHANGED <<step, dispatched, recorded, pendingIds, deferred>>
    BY <1>7, <1>q DEF RefuseCompaction, LoseCompaction, RoundOver, memory
  <2> QED  BY <2>1, Undisturbed DEF ExchangeInv, DeferredOnlyWhileOpen
<1> QED  BY <1>1, <1>2, <1>3, <1>4, <1>5, <1>6, <1>7 DEF Others

LEMMA ExchangeInductive ==
    /\ Init => ExchangeInv
    /\ ExchangeInv /\ [Next]_vars => ExchangeInv'
<1>1. Init => ExchangeInv
  BY DEF Init, ExchangeInv, Counters, AwaitedInBatch, QuietBetweenSteps, DeferredOnlyWhileOpen
<1>2. ASSUME ExchangeInv, UNCHANGED vars
      PROVE  ExchangeInv'
  <2>1. UNCHANGED <<pc, step, dispatched, recorded, pendingIds, deferred>>
    BY <1>2 DEF vars, loop, memory
  <2> QED  BY <1>2, <2>1, Undisturbed DEF ExchangeInv, DeferredOnlyWhileOpen
<1> QED  BY <1>1, <1>2, TurnKeepsExchange, OthersKeepExchange DEF Next

(* Outside a tool batch and its closure nothing is awaited, so a new step  *)
(* never finds an exchange to close and a prompt is never deferred: for    *)
(* any number of calls, steps and messages and any ceilings.               *)
THEOREM NothingAwaitedBetweenSteps == Spec => []QuietBetweenSteps
<1>1. ExchangeInv => QuietBetweenSteps
  BY DEF ExchangeInv
<1> QED  BY <1>1, ExchangeInductive, PTL DEF Spec

(* The deferred buffer is empty whenever no exchange is open: no message   *)
(* waits for a flush that never comes, whatever undo, clear, compaction or *)
(* a cancel did to the exchange.                                           *)
THEOREM BufferNeverStranded == Spec => []DeferredOnlyWhileOpen
<1>1. ExchangeInv => DeferredOnlyWhileOpen
  BY DEF ExchangeInv
<1> QED  BY <1>1, ExchangeInductive, PTL DEF Spec

-----------------------------------------------------------------------------
(* What the memory does to its lists, position by position.                *)

(* Renumbering, sealing, adding text or a call: still a message, and       *)
(* nothing else about it changes.                                          *)
Kin(m, n) ==
    m.role = n.role /\ m.origin = n.origin /\ m.id = n.id /\ m.call = n.call /\ m.seq = n.seq
Alike(m, n) ==
    /\ m.role = n.role /\ m.origin = n.origin /\ m.id = n.id /\ m.call = n.call
    /\ m.calls = n.calls /\ m.content = n.content /\ m.partial = n.partial

LEMMA MessageFields ==
    ASSUME NEW m \in Message
    PROVE  /\ m.role \in {"user", "assistant", "tool"} /\ m.origin \in Origins /\ m.id \in Nat
           /\ m.call \in CallIds \cup {NoCall} /\ m.calls \subseteq CallIds
           /\ m.content \in BOOLEAN /\ m.partial \in BOOLEAN /\ m.seq \in Nat
BY DEF Message

LEMMA MessageRenumbered ==
    ASSUME NEW m \in Message, NEW w \in Nat
    PROVE  /\ [m EXCEPT !.seq = w] \in Message
           /\ Alike([m EXCEPT !.seq = w], m) /\ [m EXCEPT !.seq = w].seq = w
BY DEF Message, Alike

LEMMA MessageSealed ==
    ASSUME NEW m \in Message
    PROVE  /\ [m EXCEPT !.partial = FALSE] \in Message
           /\ Kin([m EXCEPT !.partial = FALSE], m)
           /\ [m EXCEPT !.partial = FALSE].calls = m.calls
           /\ [m EXCEPT !.partial = FALSE].content = m.content
BY DEF Message, Kin

LEMMA MessageFilled ==
    ASSUME NEW m \in Message
    PROVE  /\ [m EXCEPT !.content = TRUE] \in Message
           /\ Kin([m EXCEPT !.content = TRUE], m)
           /\ [m EXCEPT !.content = TRUE].calls = m.calls
           /\ [m EXCEPT !.content = TRUE].content
BY DEF Message, Kin

LEMMA MessageCalling ==
    ASSUME NEW m \in Message, NEW c \in CallIds
    PROVE  /\ [m EXCEPT !.calls = @ \cup {c}] \in Message
           /\ Kin([m EXCEPT !.calls = @ \cup {c}], m)
           /\ [m EXCEPT !.calls = @ \cup {c}].calls = m.calls \cup {c}
           /\ [m EXCEPT !.calls = @ \cup {c}].content = m.content
BY DEF Message, Kin

(* A slice of a list. *)
LEMMA SliceIs ==
    ASSUME NEW S, NEW s \in Seq(S), NEW a \in Nat, NEW b \in Nat, a <= b, b <= Len(s)
    PROVE  /\ SubSeq(s, a + 1, b) \in Seq(S) /\ Len(SubSeq(s, a + 1, b)) = b - a
           /\ \A i \in 1..(b - a) : a + i \in 1..Len(s) /\ SubSeq(s, a + 1, b)[i] = s[a + i]
<1> DEFINE q == SubSeq(s, a + 1, b)
<1>0. Len(s) \in Nat /\ \A k \in 1..Len(s) : s[k] \in S
  BY LenProperties, ElementOfSeq
<1>1. PICK a1 \in Int : a1 = a + 1
  OBVIOUS
<1>2. \A k \in a1..b : s[k] \in S
  BY <1>0, <1>1
<1>3. /\ SubSeq(s, a1, b) \in Seq(S)
      /\ Len(SubSeq(s, a1, b)) = IF a1 <= b THEN b - a1 + 1 ELSE 0
      /\ \A k \in 1..(b - a1 + 1) : SubSeq(s, a1, b)[k] = s[a1 + k - 1]
  BY <1>2, SubSeqProperties
<1>4. q = SubSeq(s, a1, b)
  BY <1>1
<1> HIDE DEF q
<1>5. b - a1 + 1 = b - a /\ (IF a1 <= b THEN b - a1 + 1 ELSE 0) = b - a
  BY <1>1
<1>6. q \in Seq(S) /\ Len(q) = b - a
  BY <1>3, <1>4, <1>5
<1>7. ASSUME NEW i \in 1..(b - a) PROVE a + i \in 1..Len(s) /\ q[i] = s[a + i]
  <2>1. i \in 1..(b - a1 + 1) /\ a1 + i - 1 = a + i /\ a + i \in 1..Len(s)
    BY <1>0, <1>1
  <2> QED  BY <1>3, <1>4, <2>1
<1> QED  BY <1>6, <1>7 DEF q

(* Two lists, one after the other. *)
LEMMA JoinedIs ==
    ASSUME NEW S, NEW s \in Seq(S), NEW u \in Seq(S), NEW r, r = s \o u
    PROVE  /\ r \in Seq(S) /\ Len(r) = Len(s) + Len(u)
           /\ \A i \in 1..Len(s) : i \in 1..Len(r) /\ r[i] = s[i]
           /\ \A i \in 1..Len(u) : Len(s) + i \in 1..Len(r) /\ r[Len(s) + i] = u[i]
           /\ \A k \in 1..Len(r) : k \in 1..Len(s) \/ \E i \in 1..Len(u) : k = Len(s) + i
<1>1. PICK m \in Nat, n \in Nat : m = Len(s) /\ n = Len(u)
  BY LenProperties
<1>2. /\ r \in Seq(S) /\ Len(r) = m + n
      /\ \A i \in 1..(m + n) : r[i] = IF i <= m THEN s[i] ELSE u[i - m]
  BY <1>1, ConcatProperties
<1>3. \A i \in 1..m : i \in 1..Len(r) /\ r[i] = s[i]
  BY <1>2
<1>4. ASSUME NEW i \in 1..n PROVE m + i \in 1..Len(r) /\ r[m + i] = u[i]
  <2>1. m + i \in 1..(m + n) /\ ~(m + i <= m) /\ (m + i) - m = i
    OBVIOUS
  <2> QED  BY <1>2, <2>1
<1>5. ASSUME NEW k \in 1..Len(r) PROVE k \in 1..m \/ \E i \in 1..n : k = m + i
  <2>1. CASE k <= m
    BY <1>2, <2>1
  <2>2. CASE ~(k <= m)
    <3>1. k - m \in 1..n /\ k = m + (k - m)
      BY <1>2, <2>2
    <3> QED  BY <3>1
  <2> QED  BY <2>1, <2>2
<1> QED  BY <1>1, <1>2, <1>3, <1>4, <1>5

LEMMA JoinIs ==
    ASSUME NEW S, NEW s \in Seq(S), NEW u \in Seq(S)
    PROVE  /\ s \o u \in Seq(S) /\ Len(s \o u) = Len(s) + Len(u)
           /\ \A i \in 1..Len(s) : i \in 1..Len(s \o u) /\ (s \o u)[i] = s[i]
           /\ \A i \in 1..Len(u) : Len(s) + i \in 1..Len(s \o u) /\ (s \o u)[Len(s) + i] = u[i]
           /\ \A k \in 1..Len(s \o u) : k \in 1..Len(s) \/ \E i \in 1..Len(u) : k = Len(s) + i
<1>1. PICK r : r = s \o u
  BY Zenon
<1>2. /\ r \in Seq(S) /\ Len(r) = Len(s) + Len(u)
      /\ \A i \in 1..Len(s) : i \in 1..Len(r) /\ r[i] = s[i]
      /\ \A i \in 1..Len(u) : Len(s) + i \in 1..Len(r) /\ r[Len(s) + i] = u[i]
      /\ \A k \in 1..Len(r) : k \in 1..Len(s) \/ \E i \in 1..Len(u) : k = Len(s) + i
  BY <1>1, JoinedIs, SMTT(40)
<1> QED  BY <1>1, <1>2, Zenon

(* RemoveAt: one element less, the later ones a place earlier. *)
LEMMA RemovedIs ==
    ASSUME NEW S, NEW s \in Seq(S), NEW i \in 1..Len(s)
    PROVE  /\ RemoveAt(s, i) \in Seq(S) /\ Len(RemoveAt(s, i)) = Len(s) - 1
           /\ \A k \in 1..(i - 1) : k \in 1..Len(RemoveAt(s, i)) /\ RemoveAt(s, i)[k] = s[k]
           /\ \A k \in i..(Len(s) - 1) : k + 1 \in 1..Len(s) /\ RemoveAt(s, i)[k] = s[k + 1]
<1> DEFINE p == SubSeq(s, 1, i - 1)
           q == SubSeq(s, i + 1, Len(s))
           r == RemoveAt(s, i)
<1>0. Len(s) \in Nat /\ i \in Nat /\ i <= Len(s) /\ 1 <= i
  BY LenProperties
<1>1. PICK b \in Nat : b = i - 1
  BY <1>0
<1>2. p \in Seq(S) /\ Len(p) = i - 1 /\ \A k \in 1..(i - 1) : p[k] = s[k]
  <2>1. 0 \in Nat /\ 0 <= b /\ b <= Len(s) /\ 0 + 1 = 1 /\ b - 0 = i - 1 /\ \A k \in Nat : 0 + k = k
    BY <1>0, <1>1
  <2>2. /\ SubSeq(s, 0 + 1, b) \in Seq(S) /\ Len(SubSeq(s, 0 + 1, b)) = b - 0
        /\ \A k \in 1..(b - 0) : SubSeq(s, 0 + 1, b)[k] = s[0 + k]
    BY <2>1, SliceIs
  <2>3. p = SubSeq(s, 0 + 1, b)
    BY <1>1, <2>1
  <2> HIDE DEF p
  <2> QED  BY <2>1, <2>2, <2>3
<1>3. PICK n \in Nat : n = Len(s)
  BY <1>0
<1>4. q \in Seq(S) /\ Len(q) = n - i /\ \A k \in 1..(n - i) : q[k] = s[i + k]
  BY <1>0, <1>3, SliceIs
<1>5. /\ r \in Seq(S) /\ Len(r) = Len(p) + Len(q)
      /\ \A k \in 1..Len(p) : k \in 1..Len(r) /\ r[k] = p[k]
      /\ \A k \in 1..Len(q) : Len(p) + k \in 1..Len(r) /\ r[Len(p) + k] = q[k]
  <2>1. r = p \o q
    BY DEF RemoveAt
  <2>2. p \in Seq(S) /\ q \in Seq(S)
    BY <1>2, <1>4
  <2> HIDE DEF p, q, r
  <2> QED  BY <2>1, <2>2, JoinedIs
<1> HIDE DEF p, q, r
<1>6. Len(r) = Len(s) - 1
  BY <1>0, <1>2, <1>3, <1>4, <1>5
<1>7. \A k \in 1..(i - 1) : k \in 1..Len(r) /\ r[k] = s[k]
  BY <1>2, <1>5
<1>8. ASSUME NEW k \in i..(Len(s) - 1) PROVE k + 1 \in 1..Len(s) /\ r[k] = s[k + 1]
  <2>1. PICK j \in 1..(n - i) : j = k - (i - 1)
    BY <1>0, <1>3
  <2>2. k = (i - 1) + j /\ i + j = k + 1 /\ j \in 1..Len(q)
    BY <1>0, <1>4, <2>1
  <2>3. r[(i - 1) + j] = q[j] /\ q[j] = s[i + j]
    BY <1>2, <1>4, <1>5, <2>2
  <2> QED  BY <1>0, <2>2, <2>3
<1> QED  BY <1>5, <1>6, <1>7, <1>8 DEF r

(* One history is what is left of another: f says where each message was.  *)
(* Messages may have been sealed, or have got text or a call, meanwhile.   *)
Thinning(f, h, g) ==
    /\ f \in [1..Len(g) -> 1..Len(h)]
    /\ \A i \in 1..Len(g) : i <= f[i] /\ Kin(g[i], h[f[i]])
    /\ \A i, j \in 1..Len(g) : i < j => f[i] < f[j]
Thinned(h, g) == \E f : Thinning(f, h, g)

LEMMA SameThinned ==
    ASSUME NEW h \in Seq(Message), NEW g \in Seq(Message), Len(g) = Len(h),
           \A i \in 1..Len(h) : Kin(g[i], h[i])
    PROVE  Thinned(h, g)
<1> DEFINE f == [i \in 1..Len(h) |-> i]
<1>1. Len(h) \in Nat
  BY LenProperties
<1>2. Thinning(f, h, g)
  BY <1>1 DEF Thinning
<1> QED  BY <1>2 DEF Thinned

LEMMA SelfThinned ==
    ASSUME NEW h \in Seq(Message)
    PROVE  Thinned(h, h)
BY SameThinned DEF Kin

LEMMA SliceThinned ==
    ASSUME NEW h \in Seq(Message), NEW a \in Nat, NEW b \in Nat, a <= b, b <= Len(h)
    PROVE  Thinned(h, SubSeq(h, a + 1, b))
<1> DEFINE g == SubSeq(h, a + 1, b)
           f == [i \in 1..(b - a) |-> a + i]
<1>1. /\ Len(g) = b - a /\ Len(h) \in Nat
      /\ \A i \in 1..(b - a) : a + i \in 1..Len(h) /\ g[i] = h[a + i]
  BY SliceIs, LenProperties
<1> HIDE DEF g
<1>2. Thinning(f, h, g)
  <2>1. f \in [1..Len(g) -> 1..Len(h)]
    BY <1>1
  <2>2. \A i \in 1..Len(g) : i <= f[i] /\ Kin(g[i], h[f[i]])
    BY <1>1 DEF Kin
  <2>3. \A i, j \in 1..Len(g) : i < j => f[i] < f[j]
    BY <1>1
  <2> QED  BY <2>1, <2>2, <2>3 DEF Thinning
<1> QED  BY <1>2 DEF Thinned, g

LEMMA RemovedThinned ==
    ASSUME NEW h \in Seq(Message), NEW r \in 1..Len(h)
    PROVE  Thinned(h, RemoveAt(h, r))
<1> DEFINE g == RemoveAt(h, r)
           f == [i \in 1..(Len(h) - 1) |-> IF i < r THEN i ELSE i + 1]
<1>1. /\ Len(g) = Len(h) - 1 /\ Len(h) \in Nat
      /\ \A k \in 1..(r - 1) : g[k] = h[k]
      /\ \A k \in r..(Len(h) - 1) : g[k] = h[k + 1]
  BY RemovedIs, LenProperties
<1> HIDE DEF g
<1>2. Thinning(f, h, g)
  <2>1. f \in [1..Len(g) -> 1..Len(h)]
    BY <1>1
  <2>2. ASSUME NEW i \in 1..Len(g) PROVE i <= f[i] /\ Kin(g[i], h[f[i]])
    <3>1. CASE i < r
      <4>1. i \in 1..(r - 1) /\ f[i] = i
        BY <1>1, <3>1
      <4> QED  BY <1>1, <4>1 DEF Kin
    <3>2. CASE ~(i < r)
      <4>1. i \in r..(Len(h) - 1) /\ f[i] = i + 1
        BY <1>1, <3>2
      <4>2. g[i] = h[f[i]] /\ i <= f[i]
        BY <1>1, <4>1
      <4> QED  BY <4>2 DEF Kin
    <3> QED  BY <3>1, <3>2
  <2>3. \A i, j \in 1..Len(g) : i < j => f[i] < f[j]
    BY <1>1
  <2> QED  BY <2>1, <2>2, <2>3 DEF Thinning
<1> QED  BY <1>2 DEF Thinned, g

-----------------------------------------------------------------------------
(* What the operations do to the history.  With msgs the messages a push   *)
(* is asked to append behind base, the first k of them go in.              *)
Grew(base, msgs, k) ==
    /\ history' = base \o Numbered(msgs, k) /\ nextSeq' = nextSeq + k
    /\ rejected' \in BOOLEAN
    /\ ~ rejected' => ~ rejected /\ k = Len(msgs)

LEMMA NumberedIs ==
    ASSUME NEW msgs \in Seq(Message), NEW k \in 0..Len(msgs), nextSeq \in Nat
    PROVE  /\ Numbered(msgs, k) \in Seq(Message) /\ Len(Numbered(msgs, k)) = k
           /\ \A i \in 1..k : /\ Alike(Numbered(msgs, k)[i], msgs[i])
                              /\ Numbered(msgs, k)[i].seq = nextSeq + (i - 1)
<1>0. Len(msgs) \in Nat /\ k \in Nat /\ \A i \in 1..k : msgs[i] \in Message
  <2>1. Len(msgs) \in Nat /\ \A i \in 1..Len(msgs) : msgs[i] \in Message
    BY LenProperties, ElementOfSeq
  <2> QED  BY <2>1
<1>1. \A i \in 1..k : nextSeq + (i - 1) \in Nat
  BY <1>0
<1>2. \A i \in 1..k : /\ [msgs[i] EXCEPT !.seq = nextSeq + (i - 1)] \in Message
                      /\ Alike([msgs[i] EXCEPT !.seq = nextSeq + (i - 1)], msgs[i])
                      /\ [msgs[i] EXCEPT !.seq = nextSeq + (i - 1)].seq = nextSeq + (i - 1)
  <2> SUFFICES ASSUME NEW i \in 1..k
               PROVE  /\ [msgs[i] EXCEPT !.seq = nextSeq + (i - 1)] \in Message
                      /\ Alike([msgs[i] EXCEPT !.seq = nextSeq + (i - 1)], msgs[i])
                      /\ [msgs[i] EXCEPT !.seq = nextSeq + (i - 1)].seq = nextSeq + (i - 1)
    OBVIOUS
  <2>1. PICK w \in Nat : w = nextSeq + (i - 1)
    BY <1>1
  <2>2. msgs[i] \in Message
    BY <1>0
  <2>3. [msgs[i] EXCEPT !.seq = w] \in Message /\ Alike([msgs[i] EXCEPT !.seq = w], msgs[i])
        /\ [msgs[i] EXCEPT !.seq = w].seq = w
    BY <2>2, MessageRenumbered
  <2> QED  BY <2>1, <2>3
<1> DEFINE e(i) == [msgs[i] EXCEPT !.seq = nextSeq + (i - 1)]
           g == Numbered(msgs, k)
<1>3. g = [i \in 1..k |-> e(i)]
  BY DEF Numbered
<1>4. \A i \in 1..k : e(i) \in Message /\ Alike(e(i), msgs[i]) /\ e(i).seq = nextSeq + (i - 1)
  BY <1>2
<1> HIDE DEF e, g
<1>5. g \in [1..k -> Message]
  BY <1>3, <1>4
<1>6. g \in Seq(Message)
  BY <1>0, <1>5, SeqDef
<1>7. Len(g) = k
  BY <1>0, <1>5, <1>6, LenProperties
<1>8. \A i \in 1..k : Alike(g[i], msgs[i]) /\ g[i].seq = nextSeq + (i - 1)
  BY <1>3, <1>4
<1> QED  BY <1>6, <1>7, <1>8 DEF g

(* The grown history: base as it was, then the new entries. *)
Grown(base, msgs, k) ==
    /\ history' \in Seq(Message) /\ Len(history') = Len(base) + k
    /\ \A i \in 1..Len(base) : i \in 1..Len(history') /\ history'[i] = base[i]
    /\ \A i \in 1..k : /\ Len(base) + i \in 1..Len(history')
                       /\ Alike(history'[Len(base) + i], msgs[i])
                       /\ history'[Len(base) + i].seq = nextSeq + (i - 1)
    /\ \A j \in 1..Len(history') : j \in 1..Len(base) \/ \E i \in 1..k : j = Len(base) + i

LEMMA GrownIs ==
    ASSUME NEW base \in Seq(Message), NEW msgs \in Seq(Message), NEW k \in 0..Len(msgs),
           nextSeq \in Nat, history' = base \o Numbered(msgs, k)
    PROVE  Grown(base, msgs, k)
<1> DEFINE g == Numbered(msgs, k)
           r == base \o g
<1>1. /\ g \in Seq(Message) /\ Len(g) = k
      /\ \A i \in 1..k : Alike(g[i], msgs[i]) /\ g[i].seq = nextSeq + (i - 1)
  BY NumberedIs
<1>2. r = history'
  OBVIOUS
<1> HIDE DEF g
<1>3. /\ r \in Seq(Message) /\ Len(r) = Len(base) + Len(g)
      /\ \A i \in 1..Len(base) : i \in 1..Len(r) /\ r[i] = base[i]
      /\ \A i \in 1..Len(g) : Len(base) + i \in 1..Len(r) /\ r[Len(base) + i] = g[i]
      /\ \A j \in 1..Len(r) : j \in 1..Len(base) \/ \E i \in 1..Len(g) : j = Len(base) + i
  <2>1. g \in Seq(Message)
    BY <1>1
  <2> QED  BY <2>1, JoinIs
<1> HIDE DEF r
<1>4. /\ r \in Seq(Message) /\ Len(r) = Len(base) + k
      /\ \A i \in 1..Len(base) : i \in 1..Len(r) /\ r[i] = base[i]
      /\ \A j \in 1..Len(r) : j \in 1..Len(base) \/ \E i \in 1..k : j = Len(base) + i
  BY <1>1, <1>3
<1>5. \A i \in 1..k : /\ Len(base) + i \in 1..Len(r) /\ r[Len(base) + i] = g[i]
  BY <1>1, <1>3
<1>6. \A i \in 1..k : /\ Len(base) + i \in 1..Len(r)
                      /\ Alike(r[Len(base) + i], msgs[i])
                      /\ r[Len(base) + i].seq = nextSeq + (i - 1)
  BY <1>1, <1>5
<1> QED  BY <1>2, <1>4, <1>6 DEF Grown

(* push_history: as many go in as fit; if not all, one was refused. *)
LEMMA PushGrows ==
    ASSUME NEW base \in Seq(Message), NEW msgs \in Seq(Message), Push(base, msgs),
           nextSeq \in Nat, rejected \in BOOLEAN
    PROVE  /\ Fitting(base, msgs) \in 0..Len(msgs) /\ Grew(base, msgs, Fitting(base, msgs))
           /\ msgs # <<>> /\ Len(base) < MaxHistory => Fitting(base, msgs) >= 1
           /\ Len(base) >= MaxHistory => Fitting(base, msgs) = 0
<1> DEFINE k == Fitting(base, msgs)
<1>1. Len(base) \in Nat /\ Len(msgs) \in Nat /\ MaxHistory \in Nat
      /\ (msgs # <<>> => Len(msgs) # 0)
  BY LenProperties, EmptySeq, MemoryAssumption
<1>2. k \in 0..Len(msgs) /\ (msgs # <<>> /\ Len(base) < MaxHistory => k >= 1)
      /\ (Len(base) >= MaxHistory => k = 0)
  BY <1>1 DEF Fitting, Smaller
<1>3. /\ history' = base \o Numbered(msgs, k) /\ nextSeq' = nextSeq + k
      /\ rejected' = (rejected \/ k < Len(msgs))
  BY DEF Push
<1> HIDE DEF k
<1>4. ~ rejected' => ~ rejected /\ k = Len(msgs)
  <2>1. ~ (k < Len(msgs)) => k = Len(msgs)
    BY <1>1, <1>2
  <2>2. ~ rejected' => ~ rejected /\ ~ (k < Len(msgs))
    BY <1>3
  <2> QED  BY <2>1, <2>2
<1>5. rejected' \in BOOLEAN
  BY <1>3
<1> QED  BY <1>2, <1>3, <1>4, <1>5 DEF Grew, k

(* Nothing appended. *)
LEMMA NothingGrown ==
    ASSUME NEW base \in Seq(Message), history' = base, nextSeq' = nextSeq, nextSeq \in Nat,
           rejected' \in BOOLEAN, ~ rejected' => ~ rejected
    PROVE  <<>> \in Seq(Message) /\ 0 \in 0..Len(<<>>) /\ Grew(base, <<>>, 0)
<1>1. <<>> \in Seq(Message) /\ Len(<<>>) = 0
  BY EmptySeq
<1>2. Numbered(<<>>, 0) \in Seq(Message) /\ Len(Numbered(<<>>, 0)) = 0
  <2>1. 0 \in 0..Len(<<>>)
    BY <1>1
  <2> QED  BY <1>1, <2>1, NumberedIs
<1>3. Numbered(<<>>, 0) = <<>>
  BY <1>2, EmptySeq
<1>4. base \o <<>> = base
  BY ConcatEmptySeq
<1> QED  BY <1>1, <1>3, <1>4 DEF Grew

-----------------------------------------------------------------------------
(* Every operation but clear and an applied compaction is an edit: some    *)
(* messages are taken out of the history, then some are appended.  With    *)
(* the messages that arrive and the deferred ones, one of these happens.   *)
Edit(base, msgs, k) ==
    /\ base \in Seq(Message) /\ msgs \in Seq(Message) /\ k \in 0..Len(msgs)
    /\ Thinned(history, base) /\ Grew(base, msgs, k)

Plain(msgs) ==
    /\ arrivals' = arrivals /\ deferred' \in {deferred, <<>>}
    /\ \A i \in 1..Len(msgs) : msgs[i].role # "user"
Flush(msgs) ==
    /\ arrivals' = arrivals /\ deferred' = <<>>
    /\ \E c \in CallIds : msgs = <<Result(c)>> \o deferred
Arrive(msgs) ==
    /\ arrivals < MaxArrivals /\ arrivals' = arrivals + 1 /\ deferred = <<>> /\ deferred' = <<>>
    /\ \E o \in Origins : msgs = <<User(o)>>
Defer(msgs) ==
    /\ arrivals < MaxArrivals /\ arrivals' = arrivals + 1 /\ msgs = <<>>
    /\ \E o \in Origins : deferred' \in {deferred, Append(deferred, User(o))}
Flow(msgs) == Plain(msgs) \/ Flush(msgs) \/ Arrive(msgs) \/ Defer(msgs)

(* Only these take something out. *)
Shortens ==
    EndStep \/ (\E s : CloseStep(s)) \/ PopReminder \/ \E cut, count : Undo(cut, count)

Edits ==
    \E base, msgs, k :
      /\ Edit(base, msgs, k) /\ Flow(msgs)
      /\ Len(base) = Len(history) \/ Shortens

LEMMA NewMessages ==
    ASSUME TypeOK
    PROVE  /\ \A o \in Origins : User(o) \in Message /\ User(o).role = "user" /\ User(o).id = arrivals + 1
           /\ \A s \in Nat : Assistant(s) \in Message /\ Assistant(s).role = "assistant"
           /\ \A c \in CallIds : Result(c) \in Message /\ Result(c).role = "tool"
           /\ LET b == [Assistant(0) EXCEPT !.origin = "hook", !.content = TRUE, !.partial = FALSE]
              IN  b \in Message /\ b.role = "assistant" /\ b.origin = "hook" /\ b.call = NoCall
                  /\ b.calls = {}
<1>1. PICK n \in Nat : n = arrivals + 1
  BY MemoryAssumption DEF TypeOK
<1>2. \A o \in Origins : User(o) \in Message /\ User(o).role = "user" /\ User(o).id = n
  BY <1>1 DEF User, Message
<1>3. \A s \in Nat : Assistant(s) \in Message /\ Assistant(s).role = "assistant"
  BY DEF Assistant, Message, Origins
<1>4. \A c \in CallIds : Result(c) \in Message /\ Result(c).role = "tool"
  BY DEF Result, Message, Origins
<1>5. LET b == [Assistant(0) EXCEPT !.origin = "hook", !.content = TRUE, !.partial = FALSE]
      IN  b \in Message /\ b.role = "assistant" /\ b.origin = "hook" /\ b.call = NoCall
          /\ b.calls = {}
  BY DEF Assistant, Message, Origins
<1> QED  BY <1>1, <1>2, <1>3, <1>4, <1>5

LEMMA OneMessage ==
    ASSUME NEW m \in Message
    PROVE  <<m>> \in Seq(Message) /\ Len(<<m>>) = 1 /\ <<m>>[1] = m /\ <<m>> # <<>>
OBVIOUS

(* Nothing is appended: the history is thinned or left as it is. *)
LEMMA ThinnedEdit ==
    ASSUME TypeOK, history' \in Seq(Message), Thinned(history, history'), nextSeq' = nextSeq,
           rejected' = rejected, arrivals' = arrivals, deferred' \in {deferred, <<>>},
           Len(history') = Len(history) \/ Shortens
    PROVE  Edits
<1>1. nextSeq \in Nat /\ rejected \in BOOLEAN
  BY DEF TypeOK
<1>2. PICK base \in Seq(Message) : base = history'
  OBVIOUS
<1>3. <<>> \in Seq(Message) /\ 0 \in 0..Len(<<>>) /\ Grew(base, <<>>, 0)
  BY <1>1, <1>2, NothingGrown
<1>4. Plain(<<>>)
  <2>1. Len(<<>>) = 0
    BY EmptySeq
  <2> QED  BY <2>1 DEF Plain
<1>5. Edit(base, <<>>, 0)
  BY <1>2, <1>3 DEF Edit
<1> QED  BY <1>2, <1>4, <1>5 DEF Edits, Flow

LEMMA UntouchedEdit ==
    ASSUME TypeOK, UNCHANGED <<history, nextSeq, rejected, arrivals, deferred>>
    PROVE  Edits
<1>1. history \in Seq(Message)
  BY DEF TypeOK
<1>2. Thinned(history, history)
  BY <1>1, SelfThinned
<1> QED  BY <1>1, <1>2, ThinnedEdit

(* append_message. *)
LEMMA AppendEdit ==
    ASSUME TypeOK, DeferredOnlyWhileOpen, NEW m \in Message, AppendMessage(m)
    PROVE  \/ /\ pendingIds # {} /\ UNCHANGED <<history, nextSeq>>
              /\ deferred' \in {deferred, Append(deferred, m)}
              /\ Edit(history, <<>>, 0)
           \/ /\ pendingIds = {} /\ deferred' = deferred /\ deferred = <<>>
              /\ \E k : Edit(history, <<m>>, k)
<1>1. history \in Seq(Message) /\ nextSeq \in Nat /\ rejected \in BOOLEAN
  BY DEF TypeOK
<1>2. Thinned(history, history)
  BY <1>1, SelfThinned
<1>3. CASE pendingIds # {}
  <2>1. /\ history' = history /\ nextSeq' = nextSeq
        /\ deferred' \in {deferred, Append(deferred, m)}
        /\ rejected' = (rejected \/ Len(deferred) >= MaxDeferred)
    BY <1>3 DEF AppendMessage
  <2>2. rejected' \in BOOLEAN /\ (~ rejected' => ~ rejected)
    BY <2>1
  <2>3. <<>> \in Seq(Message) /\ 0 \in 0..Len(<<>>) /\ Grew(history, <<>>, 0)
    BY <1>1, <2>1, <2>2, NothingGrown
  <2> QED  BY <1>1, <1>2, <1>3, <2>1, <2>3 DEF Edit
<1>4. CASE pendingIds = {}
  <2>1. Push(history, <<m>>) /\ deferred' = deferred /\ deferred = <<>>
    BY <1>4 DEF AppendMessage, DeferredOnlyWhileOpen
  <2>2. <<m>> \in Seq(Message)
    BY OneMessage
  <2>3. PICK k \in 0..Len(<<m>>) : Grew(history, <<m>>, k)
    BY <1>1, <2>1, <2>2, PushGrows
  <2>4. Edit(history, <<m>>, k)
    BY <1>1, <1>2, <2>2, <2>3 DEF Edit
  <2> QED  BY <1>4, <2>1, <2>4
<1> QED  BY <1>3, <1>4

LEMMA UserEdit ==
    ASSUME TypeOK, DeferredOnlyWhileOpen, NEW o \in Origins,
           arrivals < MaxArrivals, arrivals' = arrivals + 1, AppendMessage(User(o))
    PROVE  Edits
<1>1. User(o) \in Message
  BY NewMessages
<1>2. CASE pendingIds # {}
  <2>1. Edit(history, <<>>, 0) /\ deferred' \in {deferred, Append(deferred, User(o))}
    BY <1>1, <1>2, AppendEdit
  <2>2. Defer(<<>>)
    BY <2>1 DEF Defer
  <2> QED  BY <2>1, <2>2 DEF Edits, Flow
<1>3. CASE pendingIds = {}
  <2>1. PICK k : Edit(history, <<User(o)>>, k) /\ deferred' = deferred /\ deferred = <<>>
    BY <1>1, <1>3, AppendEdit
  <2>2. Arrive(<<User(o)>>)
    BY <2>1 DEF Arrive
  <2> QED  BY <2>1, <2>2 DEF Edits, Flow
<1> QED  BY <1>2, <1>3

(* LoopEvent::ToolResult. *)
LEMMA ResultEdit ==
    ASSUME TypeOK, NEW c, RecordToolResult(c), arrivals' = arrivals
    PROVE  \/ /\ c \notin pendingIds
              /\ UNCHANGED <<history, nextSeq, rejected, pendingIds, deferred>>
           \/ /\ c \in pendingIds /\ c \in CallIds /\ pendingIds' = pendingIds \ {c}
              /\ \E msgs, k : /\ Edit(history, msgs, k)
                              /\ msgs # <<>> /\ msgs[1] = Result(c)
                              /\ \/ Flush(msgs) /\ msgs = <<Result(c)>> \o deferred
                                 \/ Plain(msgs) /\ deferred' = deferred /\ msgs = <<Result(c)>>
<1>1. history \in Seq(Message) /\ nextSeq \in Nat /\ rejected \in BOOLEAN
      /\ deferred \in Seq(Message) /\ pendingIds \subseteq CallIds
  BY DEF TypeOK
<1>2. Thinned(history, history)
  BY <1>1, SelfThinned
<1>3. CASE c \notin pendingIds
  BY <1>3 DEF RecordToolResult
<1>4. CASE c \in pendingIds
  <2>1. c \in CallIds /\ Result(c) \in Message /\ Result(c).role = "tool"
    BY <1>1, <1>4, NewMessages
  <2>2. PICK one \in Seq(Message) : one = <<Result(c)>> /\ Len(one) = 1 /\ one[1] = Result(c)
    BY <2>1, OneMessage
  <2>3. CASE pendingIds = {c}
    <3> DEFINE msgs == one \o deferred
    <3>1. /\ Push(history, msgs) /\ pendingIds' = pendingIds \ {c} /\ deferred' = <<>>
      BY <1>4, <2>2, <2>3 DEF RecordToolResult
    <3>2. msgs \in Seq(Message) /\ Len(msgs) = 1 + Len(deferred) /\ msgs[1] = Result(c)
      <4>1. /\ msgs \in Seq(Message) /\ Len(msgs) = Len(one) + Len(deferred)
            /\ \A i \in 1..Len(one) : msgs[i] = one[i]
        BY <1>1, JoinIs
      <4> HIDE DEF msgs
      <4> QED  BY <2>2, <4>1
    <3>3. msgs # <<>>
      <4>1. Len(<<>>) = 0 /\ Len(deferred) \in Nat
        BY <1>1, EmptySeq, LenProperties
      <4> HIDE DEF msgs
      <4>2. Len(msgs) # 0
        BY <3>2, <4>1
      <4> QED  BY <4>1, <4>2
    <3>4. msgs = <<Result(c)>> \o deferred
      BY <2>2
    <3> HIDE DEF msgs
    <3>5. PICK k \in 0..Len(msgs) : Grew(history, msgs, k)
      BY <1>1, <3>1, <3>2, PushGrows
    <3>6. Edit(history, msgs, k)
      BY <1>1, <1>2, <3>2, <3>5 DEF Edit
    <3>7. Flush(msgs)
      BY <2>1, <3>1, <3>4 DEF Flush
    <3> QED  BY <1>4, <2>1, <3>1, <3>2, <3>3, <3>4, <3>6, <3>7
  <2>4. CASE pendingIds # {c}
    <3>1. /\ Push(history, one \o <<>>) /\ pendingIds' = pendingIds \ {c} /\ deferred' = deferred
      BY <1>4, <2>2, <2>4 DEF RecordToolResult
    <3>2. one \o <<>> = one
      BY ConcatEmptySeq
    <3>3. PICK k \in 0..Len(one) : Grew(history, one, k)
      BY <1>1, <3>1, <3>2, PushGrows
    <3>4. Edit(history, one, k)
      BY <1>1, <1>2, <3>3 DEF Edit
    <3>5. Plain(one)
      BY <2>1, <2>2, <3>1 DEF Plain
    <3>6. one # <<>>
      BY <2>2
    <3> QED  BY <1>4, <2>1, <2>2, <3>1, <3>4, <3>5, <3>6
  <2> QED  BY <2>3, <2>4
<1> QED  BY <1>3, <1>4

(* LoopEvent::StepEnd.  It has nothing to flush: the buffer is empty       *)
(* unless calls are awaited.                                               *)
StepBase(s) ==
    IF s \in DOMAIN openSteps /\ openSteps[s] <= Len(history) THEN Settle(openSteps[s]) ELSE history
StepCover(s) ==
    IF s \in DOMAIN openSteps THEN Smaller(openSteps[s], Len(StepBase(s))) ELSE Len(StepBase(s))

LEMMA SealedIs ==
    ASSUME TypeOK, NEW i \in 1..Len(history)
    PROVE  /\ Sealed(i) \in Seq(Message) /\ Len(Sealed(i)) = Len(history)
           /\ \A j \in 1..Len(history) : /\ Kin(Sealed(i)[j], history[j])
                                         /\ Sealed(i)[j].calls = history[j].calls
                                         /\ Sealed(i)[j].content = history[j].content
<1>1. history \in Seq(Message) /\ history[i] \in Message
  BY ElementOfSeq DEF TypeOK
<1> DEFINE e == [history[i] EXCEPT !.partial = FALSE]
           g == Sealed(i)
<1>2. e \in Message /\ Kin(e, history[i]) /\ e.calls = history[i].calls /\ e.content = history[i].content
  BY <1>1, MessageSealed
<1>3. g = [history EXCEPT ![i] = e]
  BY DEF Sealed
<1> HIDE DEF e, g
<1>4. /\ g \in Seq(Message) /\ Len(g) = Len(history)
      /\ \A j \in 1..Len(history) : g[j] = IF j = i THEN e ELSE history[j]
  BY <1>1, <1>2, <1>3, ExceptSeq
<1>5. \A j \in 1..Len(history) : /\ Kin(g[j], history[j])
                                 /\ g[j].calls = history[j].calls
                                 /\ g[j].content = history[j].content
  BY <1>2, <1>4 DEF Kin
<1> QED  BY <1>4, <1>5 DEF g

LEMMA StepBaseIs ==
    ASSUME TypeOK, NEW s
    PROVE  /\ StepBase(s) \in Seq(Message) /\ Thinned(history, StepBase(s))
           /\ Len(StepBase(s)) <= Len(history) /\ StepCover(s) \in 0..Len(StepBase(s))
<1> DEFINE b == StepBase(s)
           i == openSteps[s]
<1>1. history \in Seq(Message) /\ Len(history) \in Nat
  BY LenProperties DEF TypeOK
<1>2. b \in Seq(Message) /\ Thinned(history, b) /\ Len(b) <= Len(history)
  <2>1. CASE s \in DOMAIN openSteps /\ i <= Len(history)
    <3>1. i \in 1..Len(history)
      BY <1>1, <2>1 DEF TypeOK
    <3>2. b = IF Vacuous(history[i]) THEN RemoveAt(history, i) ELSE Sealed(i)
      BY <2>1 DEF StepBase, Settle
    <3>3. CASE Vacuous(history[i])
      <4>1. RemoveAt(history, i) \in Seq(Message) /\ Len(RemoveAt(history, i)) = Len(history) - 1
        BY <1>1, <3>1, RemovedIs
      <4>2. Thinned(history, RemoveAt(history, i))
        BY <1>1, <3>1, RemovedThinned
      <4> QED  BY <1>1, <3>2, <3>3, <4>1, <4>2
    <3>4. CASE ~ Vacuous(history[i])
      <4>1. /\ Sealed(i) \in Seq(Message) /\ Len(Sealed(i)) = Len(history)
            /\ \A j \in 1..Len(history) : Kin(Sealed(i)[j], history[j])
        BY <3>1, SealedIs
      <4>2. Thinned(history, Sealed(i))
        BY <1>1, <4>1, SameThinned
      <4> QED  BY <1>1, <3>2, <3>4, <4>1, <4>2
    <3> QED  BY <3>3, <3>4
  <2>2. CASE ~ (s \in DOMAIN openSteps /\ i <= Len(history))
    <3>1. b = history
      BY <2>2 DEF StepBase
    <3> QED  BY <1>1, <3>1, SelfThinned
  <2> QED  BY <2>1, <2>2
<1> HIDE DEF b
<1>3. Len(b) \in Nat
  BY <1>2, LenProperties
<1>4. s \in DOMAIN openSteps => i \in Nat
  BY DEF TypeOK
<1>5. StepCover(s) \in 0..Len(b)
  BY <1>3, <1>4 DEF StepCover, Smaller, b
<1> QED  BY <1>2, <1>5 DEF b

LEMMA StepEndIs ==
    ASSUME TypeOK, DeferredOnlyWhileOpen, NEW s, NEW usage, StepEnd(s, usage)
    PROVE  /\ history' = StepBase(s) /\ nextSeq' = nextSeq /\ rejected' = rejected
           /\ deferred' = deferred
           /\ openSteps' = [t \in DOMAIN openSteps \ {s} |-> openSteps[t]]
           /\ covered' = StepCover(s)
           /\ counted' = IF usage THEN EntriesOf(StepBase(s), 1, StepCover(s))
                         ELSE counted \cup EntriesOf(StepBase(s), covered + 1, StepCover(s))
<1> DEFINE b == StepBase(s)
<1>1. /\ openSteps' = [t \in DOMAIN openSteps \ {s} |-> openSteps[t]]
      /\ covered' = StepCover(s)
      /\ counted' = IF usage THEN EntriesOf(b, 1, StepCover(s))
                    ELSE counted \cup EntriesOf(b, covered + 1, StepCover(s))
      /\ Push(b, IF pendingIds = {} THEN deferred ELSE <<>>)
      /\ deferred' = IF pendingIds = {} THEN <<>> ELSE deferred
  BY DEF StepEnd, StepBase, StepCover
<1>2. b \in Seq(Message)
  BY StepBaseIs
<1>3. deferred' = deferred /\ Push(b, <<>>)
  BY <1>1 DEF DeferredOnlyWhileOpen
<1> HIDE DEF b
<1>4. <<>> \in Seq(Message) /\ Len(<<>>) = 0 /\ nextSeq \in Nat /\ rejected \in BOOLEAN
      /\ Len(b) \in Nat /\ MaxHistory \in Nat
  BY <1>2, EmptySeq, LenProperties, MemoryAssumption DEF TypeOK
<1>5. Fitting(b, <<>>) = 0
  BY <1>4 DEF Fitting, Smaller
<1>6. history' = b \o Numbered(<<>>, 0) /\ nextSeq' = nextSeq + 0 /\ rejected' = (rejected \/ 0 < 0)
  BY <1>3, <1>4, <1>5 DEF Push
<1>7. 0 \in 0..Len(<<>>)
  BY <1>4
<1>8. Numbered(<<>>, 0) \in Seq(Message) /\ Len(Numbered(<<>>, 0)) = 0
  BY <1>4, <1>7, NumberedIs
<1>9. Numbered(<<>>, 0) = <<>> /\ b \o <<>> = b
  BY <1>2, <1>8, EmptySeq, ConcatEmptySeq
<1>10. nextSeq' = nextSeq
  BY <1>4, <1>6
<1>11. rejected' = rejected
  <2>1. ~ (0 < 0)
    OBVIOUS
  <2> QED  BY <1>4, <1>6, <2>1, Zenon
<1> QED  BY <1>1, <1>3, <1>6, <1>9, <1>10, <1>11 DEF b

LEMMA StepEndEdit ==
    ASSUME TypeOK, DeferredOnlyWhileOpen, NEW s, NEW usage, StepEnd(s, usage), arrivals' = arrivals,
           Shortens
    PROVE  Edits
<1>1. /\ history' = StepBase(s) /\ nextSeq' = nextSeq /\ rejected' = rejected
      /\ deferred' = deferred
  BY StepEndIs
<1>2. StepBase(s) \in Seq(Message) /\ Thinned(history, StepBase(s))
  BY StepBaseIs
<1> QED  BY <1>1, <1>2, ThinnedEdit

(* LoopEvent::ToolCall and the recording of text leave every message in    *)
(* its place.                                                              *)
LEMMA WithCallIs ==
    ASSUME TypeOK, NEW c \in CallIds
    PROVE  /\ WithCall(c) \in Seq(Message) /\ Len(WithCall(c)) = Len(history)
           /\ \A j \in 1..Len(history) : /\ Kin(WithCall(c)[j], history[j])
                                         /\ WithCall(c)[j].content = history[j].content
                                         /\ \/ WithCall(c)[j].calls = history[j].calls
                                            \/ /\ step \in DOMAIN openSteps /\ openSteps[step] = j
                                               /\ WithCall(c)[j].calls = history[j].calls \cup {c}
           /\ Thinned(history, WithCall(c))
<1> DEFINE i == openSteps[step]
           e == [history[i] EXCEPT !.calls = @ \cup {c}]
           g == WithCall(c)
<1>1. history \in Seq(Message) /\ Len(history) \in Nat
  BY LenProperties DEF TypeOK
<1>2. /\ g \in Seq(Message) /\ Len(g) = Len(history)
      /\ \A j \in 1..Len(history) : /\ Kin(g[j], history[j])
                                    /\ g[j].content = history[j].content
                                    /\ \/ g[j].calls = history[j].calls
                                       \/ /\ step \in DOMAIN openSteps /\ i = j
                                          /\ g[j].calls = history[j].calls \cup {c}
  <2>1. CASE StepIsStored
    <3>1. i \in 1..Len(history)
      BY <1>1, <2>1 DEF TypeOK, StepIsStored
    <3>2. history[i] \in Message
      BY <1>1, <3>1, ElementOfSeq
    <3>3. g = [history EXCEPT ![i] = e]
      BY <2>1 DEF WithCall
    <3>4. /\ e \in Message /\ Kin(e, history[i]) /\ e.calls = history[i].calls \cup {c}
          /\ e.content = history[i].content
      BY <3>2, MessageCalling
    <3>5. step \in DOMAIN openSteps
      BY <2>1 DEF StepIsStored
    <3> HIDE DEF e, g, i
    <3>6. /\ g \in Seq(Message) /\ Len(g) = Len(history)
          /\ \A j \in 1..Len(history) : g[j] = IF j = i THEN e ELSE history[j]
      BY <1>1, <3>1, <3>3, <3>4, ExceptSeq
    <3> QED  BY <3>4, <3>5, <3>6 DEF Kin
  <2>2. CASE ~ StepIsStored
    <3>1. g = history
      BY <2>2 DEF WithCall
    <3> QED  BY <1>1, <3>1 DEF Kin
  <2> QED  BY <2>1, <2>2
<1> HIDE DEF g
<1>3. Thinned(history, g)
  BY <1>1, <1>2, SameThinned
<1> QED  BY <1>2, <1>3 DEF g

LEMMA AnswerIs ==
    ASSUME TypeOK, NEW hasText, Answer(hasText)
    PROVE  /\ history' \in Seq(Message) /\ Len(history') = Len(history)
           /\ \A j \in 1..Len(history) : /\ Kin(history'[j], history[j])
                                         /\ history[j].content => history'[j].content
                                         /\ history'[j].calls = history[j].calls
           /\ Thinned(history, history')
<1> DEFINE i == openSteps[step]
           e == [history[i] EXCEPT !.content = TRUE]
<1>1. history \in Seq(Message) /\ Len(history) \in Nat
  BY LenProperties DEF TypeOK
<1>2. /\ history' \in Seq(Message) /\ Len(history') = Len(history)
      /\ \A j \in 1..Len(history) : /\ Kin(history'[j], history[j])
                                    /\ history[j].content => history'[j].content
                                    /\ history'[j].calls = history[j].calls
  <2>1. CASE hasText /\ StepIsStored
    <3>1. i \in 1..Len(history)
      BY <1>1, <2>1 DEF TypeOK, StepIsStored
    <3>2. history[i] \in Message
      BY <1>1, <3>1, ElementOfSeq
    <3>3. history' = [history EXCEPT ![i] = e]
      BY <2>1 DEF Answer
    <3>4. e \in Message /\ Kin(e, history[i]) /\ e.calls = history[i].calls /\ e.content
      BY <3>2, MessageFilled
    <3> HIDE DEF e, i
    <3>5. /\ history' \in Seq(Message) /\ Len(history') = Len(history)
          /\ \A j \in 1..Len(history) : history'[j] = IF j = i THEN e ELSE history[j]
      BY <1>1, <3>1, <3>3, <3>4, ExceptSeq
    <3> QED  BY <3>4, <3>5 DEF Kin
  <2>2. CASE ~ (hasText /\ StepIsStored)
    <3>1. history' = history
      BY <2>2 DEF Answer
    <3> QED  BY <1>1, <3>1 DEF Kin
  <2> QED  BY <2>1, <2>2
<1>3. Thinned(history, history')
  BY <1>1, <1>2, SameThinned
<1> QED  BY <1>2, <1>3

(* Undo and the retracted reminder leave a stretch of the history. *)
Slice(a, b) ==
    /\ a \in Nat /\ b \in Nat /\ a <= b /\ b <= Len(history)
    /\ history' \in Seq(Message) /\ Len(history') = b - a
    /\ \A i \in 1..(b - a) : a + i \in 1..Len(history) /\ history'[i] = history[a + i]

LEMMA SlicedThinned ==
    ASSUME TypeOK, NEW a \in Nat, NEW b \in Nat, a <= b, b <= Len(history),
           history' = SubSeq(history, a + 1, b)
    PROVE  Slice(a, b) /\ Thinned(history, history')
<1>1. history \in Seq(Message)
  BY DEF TypeOK
<1>2. Thinned(history, SubSeq(history, a + 1, b))
  BY <1>1, SliceThinned
<1>3. /\ SubSeq(history, a + 1, b) \in Seq(Message) /\ Len(SubSeq(history, a + 1, b)) = b - a
      /\ \A i \in 1..(b - a) : a + i \in 1..Len(history) /\ SubSeq(history, a + 1, b)[i] = history[a + i]
  BY <1>1, SliceIs
<1> QED  BY <1>2, <1>3 DEF Slice

LEMMA UndoIs ==
    ASSUME TypeOK, NEW cut, NEW count, Undo(cut, count)
    PROVE  /\ cut \in 1..Len(history) /\ history[cut].origin = "user"
           /\ \E a \in Nat : Slice(a, cut - 1)
           /\ history' \in Seq(Message) /\ Thinned(history, history')
<1>0. history \in Seq(Message) /\ Len(history) \in Nat
  BY LenProperties DEF TypeOK
<1>1. cut \in 1..Len(history) /\ history[cut].origin = "user"
  BY DEF Undo, IsUndoCut, Anchors
<1>2. PICK a \in 0..(cut - 1) : history' = SubSeq(history, a + 1, cut - 1)
  BY DEF Undo, UndoneTo
<1>3. PICK b \in Nat : b = cut - 1 /\ a \in Nat /\ a <= b /\ b <= Len(history)
  BY <1>0, <1>1, <1>2
<1>4. Slice(a, b) /\ Thinned(history, history')
  BY <1>2, <1>3, SlicedThinned
<1>5. Slice(a, cut - 1)
  BY <1>3, <1>4
<1>6. history' \in Seq(Message)
  BY <1>4 DEF Slice
<1> QED  BY <1>1, <1>3, <1>4, <1>5, <1>6

LEMMA PopIs ==
    ASSUME TypeOK, PopReminder
    PROVE  /\ Len(history) \in Nat \ {0} /\ history[Len(history)].origin = "injection"
           /\ Slice(0, Len(history) - 1)
           /\ history' \in Seq(Message) /\ Thinned(history, history')
<1>0. history \in Seq(Message) /\ history # <<>> /\ history[Len(history)].origin = "injection"
  BY DEF TypeOK, PopReminder, Last
<1>1. Len(history) \in Nat \ {0}
  BY <1>0, EmptySeq
<1>2. PICK b \in Nat : b = Len(history) - 1 /\ b <= Len(history)
  BY <1>1, SMTT(30)
<1>3. history' = SubSeq(history, 0 + 1, b)
  BY <1>2 DEF PopReminder, Front
<1>4. Slice(0, b) /\ Thinned(history, history')
  <2>1. PICK a \in Nat : a = 0 /\ a <= b /\ history' = SubSeq(history, a + 1, b)
    BY <1>3
  <2>2. Slice(a, b) /\ Thinned(history, history')
    BY <1>2, <2>1, SlicedThinned
  <2> QED  BY <2>1, <2>2
<1>5. history' \in Seq(Message)
  BY <1>4 DEF Slice
<1> QED  BY <1>0, <1>1, <1>2, <1>4, <1>5

InStep == pc \in {"llm", "content", "tools", "results", "inject", "end"}
Begun ==
    /\ InStep => step >= 1
    /\ DOMAIN openSteps \subseteq 1..step

(* Every step of the turn is an edit. *)
LEMMA TurnEdits ==
    ASSUME TypeOK, Begun, ExchangeInv, Turn
    PROVE  Edits
<1>d. DeferredOnlyWhileOpen
  BY DEF ExchangeInv
<1>0. /\ history \in Seq(Message) /\ nextSeq \in Nat /\ rejected \in BOOLEAN
      /\ step \in Nat /\ dispatched \in Nat
  BY MemoryAssumption DEF TypeOK
<1>1. ASSUME NEW o \in Origins, AppendUser(o) PROVE Edits
  BY <1>d, <1>1, UserEdit DEF AppendUser
<1>2. "user" \in Origins /\ "hook" \in Origins /\ "injection" \in Origins
  BY DEF Origins
<1>3. CASE HookResult \/ HookContext \/ Prompt \/ Steer \/ Inject
  <2>1. \E o \in {"user", "hook", "injection"} : AppendUser(o)
    BY <1>3 DEF HookResult, HookContext, Prompt, Steer, Inject
  <2> QED  BY <1>1, <1>2, <2>1
<1>4. CASE Blocked
  <2> DEFINE b == [Assistant(0) EXCEPT !.origin = "hook", !.content = TRUE, !.partial = FALSE]
  <2>1. AppendMessage(b) /\ arrivals' = arrivals
    BY <1>4 DEF Blocked
  <2>2. b \in Message /\ b.role = "assistant"
    BY NewMessages
  <2> HIDE DEF b
  <2>3. pendingIds = {}
    BY <1>4 DEF Blocked, ExchangeInv, QuietBetweenSteps
  <2>4. PICK k : Edit(history, <<b>>, k) /\ deferred' = deferred
    BY <1>d, <2>1, <2>2, <2>3, AppendEdit
  <2>5. Plain(<<b>>)
    BY <2>1, <2>2, <2>4, OneMessage DEF Plain
  <2> QED  BY <2>4, <2>5 DEF Edits, Flow
<1>5. CASE RetryTurn \/ ToTools \/ NoTools \/ BatchDone \/ ResultsDone \/ Continue \/ GiveUp \/ Closed
  <2>1. \E from, to : Move(from, to)
    BY <1>5 DEF RetryTurn, ToTools, NoTools, BatchDone, ResultsDone, Continue, GiveUp, Closed
  <2>2. UNCHANGED <<history, nextSeq, rejected, arrivals, deferred>>
    BY <2>1 DEF Move, memory
  <2> QED  BY <2>2, UntouchedEdit
<1>6. CASE BeginStep
  <2> DEFINE m == Assistant(step + 1)
  <2>1. Push(history, <<m>>) /\ arrivals' = arrivals /\ deferred' = deferred
    BY <1>6 DEF BeginStep
  <2>2. m \in Message /\ m.role = "assistant"
    <3>1. step + 1 \in Nat
      BY <1>0
    <3> QED  BY <3>1, NewMessages
  <2> HIDE DEF m
  <2>3. <<m>> \in Seq(Message) /\ Len(<<m>>) = 1 /\ <<m>>[1] = m
    BY <2>2, OneMessage
  <2>4. PICK k \in 0..Len(<<m>>) : Grew(history, <<m>>, k)
    BY <1>0, <2>1, <2>3, PushGrows
  <2>5. Edit(history, <<m>>, k)
    BY <1>0, <2>3, <2>4, SelfThinned DEF Edit
  <2>6. Plain(<<m>>)
    BY <2>1, <2>2, <2>3 DEF Plain
  <2> QED  BY <2>5, <2>6 DEF Edits, Flow
<1>7. CASE StepFails \/ Interrupt
  <2>1. UNCHANGED <<history, nextSeq, rejected, arrivals, deferred>>
    BY <1>7 DEF StepFails, Interrupt, memory
  <2> QED  BY <2>1, UntouchedEdit
<1>8. CASE EmptyAnswer
  BY <1>d, <1>2, <1>8, UserEdit DEF EmptyAnswer
<1>9. ASSUME NEW hasText \in BOOLEAN, Answer(hasText) PROVE Edits
  <2>1. UNCHANGED <<nextSeq, rejected, arrivals, deferred>>
    BY <1>9 DEF Answer
  <2>2. history' \in Seq(Message) /\ Thinned(history, history') /\ Len(history') = Len(history)
    BY <1>9, AnswerIs
  <2> QED  BY <2>1, <2>2, ThinnedEdit
<1>10. CASE Dispatch \/ Unexecuted
  <2>1. NextCall \in CallIds
    <3>1. InStep /\ dispatched < MaxCalls
      BY <1>10 DEF Dispatch, Unexecuted, InStep
    <3>2. step \in 1..MaxSteps /\ dispatched + 1 \in 1..MaxCalls
      BY <3>1, MemoryAssumption DEF Begun, TypeOK
    <3> QED  BY <3>2 DEF NextCall, CallIds, Steps
  <2>2. WithCall(NextCall) \in Seq(Message) /\ Thinned(history, WithCall(NextCall))
        /\ Len(WithCall(NextCall)) = Len(history)
    BY <2>1, WithCallIs
  <2>3. CASE Dispatch
    <3>1. history' = WithCall(NextCall) /\ UNCHANGED <<nextSeq, rejected, arrivals, deferred>>
      BY <2>3 DEF Dispatch
    <3> QED  BY <2>2, <3>1, ThinnedEdit
  <2>4. CASE Unexecuted
    <3> DEFINE m == Result(NextCall)
               b == WithCall(NextCall)
    <3>1. Push(b, <<m>>) /\ arrivals' = arrivals /\ deferred' = deferred
      BY <2>4 DEF Unexecuted
    <3>2. m \in Message /\ m.role = "tool"
      BY <2>1, NewMessages
    <3> HIDE DEF m, b
    <3>3. <<m>> \in Seq(Message) /\ Len(<<m>>) = 1 /\ <<m>>[1] = m
      BY <3>2, OneMessage
    <3>4. b \in Seq(Message) /\ Thinned(history, b) /\ Len(b) = Len(history)
      BY <2>2 DEF b
    <3>5. PICK k \in 0..Len(<<m>>) : Grew(b, <<m>>, k)
      BY <1>0, <3>1, <3>3, <3>4, PushGrows
    <3>6. Edit(b, <<m>>, k)
      BY <3>3, <3>4, <3>5 DEF Edit
    <3>7. Plain(<<m>>)
      BY <3>1, <3>2, <3>3 DEF Plain
    <3> QED  BY <3>4, <3>6, <3>7 DEF Edits, Flow
  <2> QED  BY <1>10, <2>3, <2>4
<1>11. ASSUME NEW c, RecordToolResult(c), arrivals' = arrivals PROVE Edits
  <2>1. CASE c \notin pendingIds
    BY <1>11, <2>1, UntouchedEdit DEF RecordToolResult
  <2>2. CASE c \in pendingIds
    BY <1>11, <2>2, ResultEdit DEF Edits, Flow
  <2> QED  BY <2>1, <2>2
<1>12. CASE RecordResult
  <2>1. RecordToolResult(<<step, recorded + 1>>) /\ arrivals' = arrivals
    BY <1>12 DEF RecordResult
  <2> QED  BY <1>11, <2>1
<1>13. CASE EndStep
  <2>1. Shortens
    BY <1>13 DEF Shortens
  <2> QED  BY <1>d, <1>13, <2>1, StepEndEdit DEF EndStep
<1>14. ASSUME NEW c \in CallIds, CloseResult(c) PROVE Edits
  BY <1>11, <1>14 DEF CloseResult
<1>15. ASSUME NEW s \in Steps, CloseStep(s) PROVE Edits
  <2>1. Shortens
    BY <1>15 DEF Shortens
  <2> QED  BY <1>d, <1>15, <2>1, StepEndEdit DEF CloseStep
<1> QED
  BY <1>3, <1>4, <1>5, <1>6, <1>7, <1>8, <1>9, <1>10, <1>12, <1>13, <1>14, <1>15 DEF Turn

(* So is every step of the other writers, but for the two that make the    *)
(* history anew.                                                           *)

LEMMA OthersEdit ==
    ASSUME TypeOK, Begun, ExchangeInv, Others
    PROVE  Edits \/ Clear \/ \E last \in 1..Len(history) : \E kept \in 0..last : ApplyCompaction(last, kept)
<1>d. DeferredOnlyWhileOpen
  BY DEF ExchangeInv
<1>1. CASE Deliver
  <2>1. "injection" \in Origins
    BY DEF Origins
  <2> QED  BY <1>d, <1>1, <2>1, UserEdit DEF Deliver, AppendUser
<1>2. CASE PopReminder
  <2>0. Shortens
    BY <1>2 DEF Shortens
  <2>1. UNCHANGED <<nextSeq, rejected, arrivals, deferred>>
    BY <1>2 DEF PopReminder
  <2>2. history' \in Seq(Message) /\ Thinned(history, history')
    BY <1>2, PopIs
  <2> QED  BY <2>0, <2>1, <2>2, ThinnedEdit
<1>3. ASSUME NEW cut, NEW count, Undo(cut, count) PROVE Edits
  <2>0. Shortens
    BY <1>3 DEF Shortens
  <2>1. UNCHANGED <<nextSeq, rejected, arrivals>> /\ deferred' = <<>>
    BY <1>3 DEF Undo, DropExchange
  <2>2. history' \in Seq(Message) /\ Thinned(history, history')
    BY <1>3, UndoIs
  <2> QED  BY <2>0, <2>1, <2>2, ThinnedEdit
<1>4. CASE \/ \E last \in 1..Len(history) : BeginCompaction(last)
           \/ RefuseCompaction \/ LoseCompaction
  <2>1. UNCHANGED <<history, nextSeq, rejected, arrivals, deferred>>
    BY <1>4 DEF BeginCompaction, RefuseCompaction, RoundOver, LoseCompaction, memory
  <2> QED  BY <2>1, UntouchedEdit
<1> QED  BY <1>1, <1>2, <1>3, <1>4 DEF Others

(* An edit keeps the types of what it edits. *)
LEMMA EditTypes ==
    ASSUME TypeOK, Edits
    PROVE  /\ history' \in Seq(Message) /\ deferred' \in Seq(Message) /\ nextSeq' \in Nat
           /\ arrivals' \in 0..MaxArrivals /\ rejected' \in BOOLEAN
           /\ arrivals <= arrivals' /\ nextSeq <= nextSeq'
<1>1. PICK base, msgs, k : Edit(base, msgs, k) /\ Flow(msgs)
  BY DEF Edits
<1>2. /\ base \in Seq(Message) /\ msgs \in Seq(Message) /\ k \in 0..Len(msgs)
      /\ Grew(base, msgs, k) /\ nextSeq \in Nat /\ Len(msgs) \in Nat
  BY <1>1, LenProperties DEF Edit, TypeOK
<1>3. history' \in Seq(Message)
  BY <1>2, GrownIs DEF Grew, Grown
<1>4. nextSeq' \in Nat /\ rejected' \in BOOLEAN /\ nextSeq <= nextSeq'
  BY <1>2 DEF Grew
<1>5. deferred \in Seq(Message) /\ <<>> \in Seq(Message) /\ arrivals \in 0..MaxArrivals
  BY EmptySeq DEF TypeOK
<1>6. \A o \in Origins : Append(deferred, User(o)) \in Seq(Message)
  BY <1>5, NewMessages, AppendProperties
<1>7. deferred' \in Seq(Message)
  BY <1>1, <1>5, <1>6 DEF Flow, Plain, Flush, Arrive, Defer
<1>8. arrivals' \in 0..MaxArrivals /\ arrivals <= arrivals'
  BY <1>1, <1>5, MemoryAssumption DEF Flow, Plain, Flush, Arrive, Defer
<1> QED  BY <1>3, <1>4, <1>7, <1>8

(* apply_compaction: the first of the real user messages of the prefix, at *)
(* places f before; one or two notes with new entry numbers; and the tail. *)
Note(m, w) ==
    /\ m.role = "user" /\ m.origin \in {"marker", "summary"} /\ m.id = 0
    /\ m.call = NoCall /\ m.calls = {} /\ m.content /\ m.seq = w
Compacted(f, kept, n, last) ==
    /\ last \in 1..Len(history) /\ kept \in Nat /\ n \in {1, 2}
    /\ f \in [1..kept -> 1..last] /\ \A i, j \in 1..kept : i < j => f[i] < f[j]
    /\ history' \in Seq(Message) /\ Len(history') = (kept + n) + (Len(history) - last)
    /\ \A i \in 1..kept : history'[i] = history[f[i]] /\ history[f[i]].origin = "user"
    /\ \A i \in 1..n : Note(history'[kept + i], nextSeq + (i - 1))
    /\ \A i \in 1..(Len(history) - last) :
         /\ last + i \in 1..Len(history) /\ (kept + n) + i \in 1..Len(history')
         /\ history'[(kept + n) + i] = history[last + i]
    /\ \A j \in 1..Len(history') :
         \/ j \in 1..kept \/ \E i \in 1..n : j = kept + i
         \/ \E i \in 1..(Len(history) - last) : j = (kept + n) + i
    /\ nextSeq' = nextSeq + n

LEMMA CompactedIs ==
    ASSUME TypeOK, NEW last \in 1..Len(history), NEW kept \in 0..last, ApplyCompaction(last, kept)
    PROVE  \E f, n : Compacted(f, kept, n, last)
<1> DEFINE prefix == SubSeq(history, 1, last)
           P == {m \in Range(prefix) : m.origin = "user"}
           users == Pick(prefix, P)
           new(origin, w) == [User(origin) EXCEPT !.id = 0, !.seq = w]
           notes == IF kept < Len(users) THEN <<new("marker", nextSeq), new("summary", nextSeq + 1)>>
                                         ELSE <<new("summary", nextSeq)>>
           head == SubSeq(users, 1, kept)
           rest == SubSeq(history, last + 1, Len(history))
<1>1. /\ kept \in 0..Len(users) /\ history' = (head \o notes) \o rest
      /\ nextSeq' = nextSeq + Len(notes)
  BY DEF ApplyCompaction, RealInput
<1>2. /\ history \in Seq(Message) /\ Len(history) \in Nat /\ last \in Nat /\ last <= Len(history)
      /\ nextSeq \in Nat /\ kept \in Nat /\ 1 <= last
  BY LenProperties DEF TypeOK
<1>3. prefix \in Seq(Message) /\ Len(prefix) = last /\ \A i \in 1..last : prefix[i] = history[i]
  <2>1. PICK a \in Nat : a = 0 /\ a <= last /\ a + 1 = 1
    BY <1>2
  <2>2. /\ SubSeq(history, a + 1, last) \in Seq(Message) /\ Len(SubSeq(history, a + 1, last)) = last - a
        /\ \A i \in 1..(last - a) : SubSeq(history, a + 1, last)[i] = history[a + i]
    BY <1>2, <2>1, SliceIs
  <2>3. prefix = SubSeq(history, a + 1, last) /\ last - a = last /\ \A i \in 1..last : a + i = i
    BY <1>2, <2>1
  <2> HIDE DEF prefix
  <2> QED  BY <2>2, <2>3
<1>4. \A m \in P : m.origin = "user"
  OBVIOUS
<1> HIDE DEF prefix, P
<1>5. users \in Seq(Message)
  <2>1. users \in Seq(Message \cap P) /\ Message \cap P \subseteq Message
    BY <1>3, PickType
  <2> QED  BY <2>1, SeqMonotonic
<1>6. PICK g \in [1..Len(users) -> 1..Len(prefix)] :
           /\ \A i \in 1..Len(users) : users[i] = prefix[g[i]] /\ prefix[g[i]] \in P
           /\ \A i, j \in 1..Len(users) : i < j => g[i] < g[j]
  BY <1>3, PickOrder
<1> HIDE DEF users
<1>7. head \in Seq(Message) /\ Len(head) = kept /\ \A i \in 1..kept : head[i] = users[i]
  <2>1. PICK a \in Nat : a = 0 /\ a <= kept /\ a + 1 = 1
    BY <1>2
  <2>2. kept <= Len(users)
    BY <1>1, <1>5, LenProperties
  <2>3. /\ SubSeq(users, a + 1, kept) \in Seq(Message) /\ Len(SubSeq(users, a + 1, kept)) = kept - a
        /\ \A i \in 1..(kept - a) : SubSeq(users, a + 1, kept)[i] = users[a + i]
    BY <1>2, <1>5, <2>1, <2>2, SliceIs
  <2>4. head = SubSeq(users, a + 1, kept) /\ kept - a = kept /\ \A i \in 1..kept : a + i = i
    BY <1>2, <2>1
  <2> HIDE DEF head
  <2> QED  BY <2>3, <2>4
<1>8. PICK m \in Nat : m = Len(history)
  BY <1>2
<1>9. rest \in Seq(Message) /\ Len(rest) = m - last
      /\ \A i \in 1..(m - last) : last + i \in 1..m /\ rest[i] = history[last + i]
  BY <1>2, <1>8, SliceIs
<1>10. \A w \in Nat : \A o \in {"marker", "summary"} : new(o, w) \in Message /\ Note(new(o, w), w)
  BY ZenonT(30) DEF User, Message, Origins, Note
<1>11. PICK n \in {1, 2} : /\ notes \in Seq(Message) /\ Len(notes) = n
                           /\ \A i \in 1..n : Note(notes[i], nextSeq + (i - 1))
  <2>0. nextSeq + 1 \in Nat /\ nextSeq + (1 - 1) = nextSeq /\ nextSeq + (2 - 1) = nextSeq + 1
    BY <1>2
  <2> HIDE DEF new
  <2>1. CASE kept < Len(users)
    <3>1. PICK x \in Message, y \in Message :
            x = new("marker", nextSeq) /\ y = new("summary", nextSeq + 1)
            /\ Note(x, nextSeq) /\ Note(y, nextSeq + 1)
      BY <1>2, <1>10, <2>0
    <3>2. notes = <<x, y>>
      BY <2>1, <3>1
    <3>3. <<x, y>> \in Seq(Message) /\ Len(<<x, y>>) = 2 /\ <<x, y>>[1] = x /\ <<x, y>>[2] = y
      OBVIOUS
    <3>4. ASSUME NEW i \in 1..2 PROVE Note(<<x, y>>[i], nextSeq + (i - 1))
      <4>1. i = 1 \/ i = 2
        OBVIOUS
      <4> QED  BY <2>0, <3>1, <3>3, <4>1
    <3> QED  BY <3>2, <3>3, <3>4
  <2>2. CASE ~ (kept < Len(users))
    <3>1. PICK y \in Message : y = new("summary", nextSeq) /\ Note(y, nextSeq)
      BY <1>2, <1>10
    <3>2. notes = <<y>>
      BY <2>2, <3>1
    <3>3. <<y>> \in Seq(Message) /\ Len(<<y>>) = 1 /\ <<y>>[1] = y
      OBVIOUS
    <3>4. ASSUME NEW i \in 1..1 PROVE Note(<<y>>[i], nextSeq + (i - 1))
      <4>1. i = 1
        OBVIOUS
      <4> QED  BY <2>0, <3>1, <3>3, <4>1
    <3> QED  BY <3>2, <3>3, <3>4
  <2> QED  BY <2>1, <2>2
<1> HIDE DEF notes, head, rest
<1> DEFINE front == head \o notes
<1>12. /\ front \in Seq(Message) /\ Len(front) = kept + n
       /\ \A i \in 1..kept : front[i] = head[i]
       /\ \A i \in 1..n : kept + i \in 1..(kept + n) /\ front[kept + i] = notes[i]
       /\ \A j \in 1..(kept + n) : j \in 1..kept \/ \E i \in 1..n : j = kept + i
  <2>1. head \in Seq(Message) /\ notes \in Seq(Message)
    BY <1>7, <1>11
  <2>2. /\ front \in Seq(Message) /\ Len(front) = Len(head) + Len(notes)
        /\ \A i \in 1..Len(head) : i \in 1..Len(front) /\ front[i] = head[i]
        /\ \A i \in 1..Len(notes) : Len(head) + i \in 1..Len(front) /\ front[Len(head) + i] = notes[i]
        /\ \A j \in 1..Len(front) : j \in 1..Len(head) \/ \E i \in 1..Len(notes) : j = Len(head) + i
    BY <2>1, JoinIs, ZenonT(30)
  <2> HIDE DEF front
  <2> QED  BY <1>7, <1>11, <2>2, ZenonT(40)
<1>13. history' = front \o rest
  BY <1>1
<1> HIDE DEF front
<1>14. /\ history' \in Seq(Message) /\ Len(history') = (kept + n) + (m - last)
       /\ \A i \in 1..(kept + n) : i \in 1..Len(history') /\ history'[i] = front[i]
       /\ \A i \in 1..(m - last) : (kept + n) + i \in 1..Len(history')
                                   /\ history'[(kept + n) + i] = rest[i]
       /\ \A j \in 1..Len(history') : j \in 1..(kept + n) \/ \E i \in 1..(m - last) : j = (kept + n) + i
  <2>1. rest \in Seq(Message) /\ front \in Seq(Message)
    BY <1>9, <1>12
  <2> DEFINE r == front \o rest
  <2>2. /\ r \in Seq(Message) /\ Len(r) = Len(front) + Len(rest)
        /\ \A i \in 1..Len(front) : i \in 1..Len(r) /\ r[i] = front[i]
        /\ \A i \in 1..Len(rest) : Len(front) + i \in 1..Len(r) /\ r[Len(front) + i] = rest[i]
        /\ \A j \in 1..Len(r) : j \in 1..Len(front) \/ \E i \in 1..Len(rest) : j = Len(front) + i
    BY <2>1, JoinIs, ZenonT(30)
  <2>3. r = history'
    BY <1>13
  <2> HIDE DEF r
  <2> QED  BY <1>9, <1>12, <2>2, <2>3, SMTT(30)
<1> DEFINE f == [i \in 1..kept |-> g[i]]
<1>15. \A i \in 1..kept : i \in 1..Len(users)
  BY <1>1, <1>5, LenProperties
<1>16. /\ f \in [1..kept -> 1..last] /\ \A i \in 1..kept : f[i] = g[i]
  BY <1>3, <1>6, <1>15
<1> HIDE DEF f
<1>17. \A i, j \in 1..kept : i < j => f[i] < f[j]
  BY <1>6, <1>15, <1>16
<1>18. ASSUME NEW i \in 1..kept PROVE history'[i] = history[f[i]] /\ history[f[i]].origin = "user"
  <2>1. i \in 1..(kept + n) /\ i \in 1..Len(users) /\ f[i] \in 1..last /\ f[i] = g[i]
    BY <1>2, <1>15, <1>16
  <2>2. history'[i] = users[i]
    BY <1>7, <1>12, <1>14, <2>1
  <2>3. users[i] = prefix[f[i]] /\ prefix[f[i]] \in P /\ prefix[f[i]] = history[f[i]]
    BY <1>3, <1>6, <2>1
  <2> QED  BY <1>4, <2>2, <2>3
<1>19. ASSUME NEW i \in 1..n PROVE Note(history'[kept + i], nextSeq + (i - 1))
  <2>1. kept + i \in 1..(kept + n) /\ front[kept + i] = notes[i]
    BY <1>12
  <2>2. history'[kept + i] = notes[i]
    BY <1>14, <2>1
  <2> QED  BY <1>11, <2>2
<1>20. \A i \in 1..(m - last) : /\ last + i \in 1..m /\ (kept + n) + i \in 1..Len(history')
                                /\ history'[(kept + n) + i] = history[last + i]
  BY <1>9, <1>14
<1>21. \A j \in 1..Len(history') : \/ j \in 1..kept \/ \E i \in 1..n : j = kept + i
                                   \/ \E i \in 1..(m - last) : j = (kept + n) + i
  BY <1>12, <1>14
<1>22. Compacted(f, kept, n, last)
  BY <1>1, <1>2, <1>8, <1>11, <1>14, <1>16, <1>17, <1>18, <1>19, <1>20, <1>21 DEF Compacted
<1> QED  BY <1>22

-----------------------------------------------------------------------------
(* Types. *)
Pcs == {"idle", "failed", "hooked", "prompt", "blocked", "before", "llm", "content", "tools",
        "results", "inject", "end", "after", "closing", "auto", "manual"}
OpenTypes ==
    /\ DOMAIN openSteps \subseteq Steps
    /\ \A s \in DOMAIN openSteps : openSteps[s] \in Nat \ {0}
BatchTypes ==
    /\ step \in 0..MaxSteps /\ dispatched \in 0..MaxCalls /\ recorded \in 0..dispatched
RoundTypes ==
    /\ snapshot \in Seq(Message) /\ planned \in 0..Len(snapshot)
    /\ compactions \in 0..MaxCompactions
RestTypes ==
    /\ pc \in Pcs /\ OpenTypes /\ BatchTypes /\ RoundTypes
    /\ pendingIds \subseteq CallIds /\ covered \in Nat
    /\ counted \subseteq Nat /\ lastSent \in Seq(Message) /\ abandoned \in BOOLEAN
EditedTypes ==
    /\ history \in Seq(Message) /\ deferred \in Seq(Message) /\ nextSeq \in Nat
    /\ arrivals \in 0..MaxArrivals /\ rejected \in BOOLEAN

LEMMA TypeParts == TypeOK <=> RestTypes /\ EditedTypes
BY DEF TypeOK, RestTypes, EditedTypes, OpenTypes, BatchTypes, RoundTypes, Pcs

LEMMA EntriesAreNumbers ==
    ASSUME NEW h \in Seq(Message), NEW from \in Nat \ {0}, NEW to \in Nat, to <= Len(h)
    PROVE  EntriesOf(h, from, to) \subseteq Nat
<1>1. \A i \in 1..Len(h) : h[i].seq \in Nat
  BY ElementOfSeq, MessageFields
<1>2. \A i \in from..to : i \in 1..Len(h)
  BY LenProperties
<1> QED  BY <1>1, <1>2 DEF EntriesOf

LEMMA StepEndTypes ==
    ASSUME TypeOK, DeferredOnlyWhileOpen, Begun, NEW s, NEW usage, StepEnd(s, usage), step' = step
    PROVE  /\ OpenTypes' /\ DOMAIN openSteps' \subseteq 1..step'
           /\ covered' \in Nat /\ counted' \subseteq Nat
<1>1. /\ openSteps' = [t \in DOMAIN openSteps \ {s} |-> openSteps[t]]
      /\ covered' = StepCover(s)
      /\ counted' = IF usage THEN EntriesOf(StepBase(s), 1, StepCover(s))
                    ELSE counted \cup EntriesOf(StepBase(s), covered + 1, StepCover(s))
  BY StepEndIs
<1>2. StepBase(s) \in Seq(Message) /\ StepCover(s) \in 0..Len(StepBase(s))
  BY StepBaseIs
<1>3. OpenTypes' /\ DOMAIN openSteps' \subseteq 1..step'
  BY <1>1 DEF OpenTypes, TypeOK, Begun
<1>4. PICK b \in Seq(Message), cov \in Nat : b = StepBase(s) /\ cov = StepCover(s) /\ cov <= Len(b)
  BY <1>2, LenProperties
<1>5. PICK d \in Nat \ {0} : d = covered + 1
  BY DEF TypeOK
<1>6. EntriesOf(b, d, cov) \subseteq Nat
  BY <1>4, EntriesAreNumbers
<1>7. PICK one \in Nat \ {0} : one = 1
  OBVIOUS
<1>8. EntriesOf(b, one, cov) \subseteq Nat
  BY <1>4, EntriesAreNumbers
<1>9. counted' \subseteq Nat
  <2>1. counted \subseteq Nat
    BY DEF TypeOK
  <2> QED  BY <1>1, <1>4, <1>5, <1>6, <1>7, <1>8, <2>1
<1> QED  BY <1>1, <1>3, <1>4, <1>9

(* Most steps of the turn leave the rest alone. *)
LEMMA LoopKeepsTypes ==
    ASSUME TypeOK, Begun, pc' \in Pcs, InStep' => InStep,
           UNCHANGED <<step, dispatched, recorded, openSteps, pendingIds, covered, compaction,
                       counted, lastSent>>,
           abandoned' \in BOOLEAN
    PROVE  RestTypes' /\ Begun'
<1>1. UNCHANGED <<snapshot, planned, compactions>>
  BY DEF compaction
<1>2. RestTypes
  BY TypeParts
<1>3. OpenTypes' /\ BatchTypes' /\ RoundTypes'
  BY <1>1, <1>2 DEF RestTypes, OpenTypes, BatchTypes, RoundTypes
<1>4. Begun'
  BY DEF Begun
<1> QED  BY <1>2, <1>3, <1>4 DEF RestTypes

LEMMA TurnKeepsTypes ==
    ASSUME TypeOK, Begun, ExchangeInv, Turn
    PROVE  RestTypes' /\ Begun'
<1>0. RestTypes
  BY TypeParts
<1>d. DeferredOnlyWhileOpen
  BY DEF ExchangeInv
<1>a. abandoned \in BOOLEAN
  BY DEF TypeOK
<1>1. CASE HookResult \/ HookContext \/ Prompt \/ Steer \/ Inject
  <2>1. /\ \E o : AppendUser(o)
        /\ UNCHANGED <<step, dispatched, recorded>> /\ pc' \in Pcs /\ (InStep' => InStep)
    BY <1>1, <1>0 DEF HookResult, HookContext, Prompt, Steer, Inject, loop, Pcs, InStep, RestTypes
  <2>2. UNCHANGED <<openSteps, pendingIds, covered, compaction, counted, lastSent, abandoned>>
    BY <2>1 DEF AppendUser, ghosts
  <2> QED  BY <1>a, <2>1, <2>2, LoopKeepsTypes
<1>2. CASE Blocked
  <2>1. /\ UNCHANGED <<step, dispatched, recorded, openSteps, pendingIds, covered, compaction,
                       counted, lastSent, abandoned>>
        /\ pc' \in Pcs /\ (InStep' => InStep)
    BY <1>2 DEF Blocked, ghosts, Pcs, InStep
  <2> QED  BY <1>a, <2>1, LoopKeepsTypes
<1>3. CASE RetryTurn \/ ToTools \/ NoTools \/ BatchDone \/ ResultsDone \/ Continue \/ GiveUp \/ Closed
  <2>1. /\ \E from, to : Move(from, to)
        /\ pc' \in Pcs /\ (InStep' => InStep)
    BY <1>3 DEF RetryTurn, ToTools, NoTools, BatchDone, ResultsDone, Continue, GiveUp, Closed,
                Pcs, InStep, Move
  <2>2. UNCHANGED <<step, dispatched, recorded, openSteps, pendingIds, covered, compaction,
                    counted, lastSent, abandoned>>
    BY <2>1 DEF Move, memory, ghosts
  <2> QED  BY <1>a, <2>1, <2>2, LoopKeepsTypes
<1>4. CASE BeginStep
  <2>1. /\ pc' = "llm" /\ step < MaxSteps /\ step' = step + 1 /\ lastSent' = Sent
        /\ openSteps' = IF Len(history) < MaxHistory
                        THEN [t \in DOMAIN openSteps \cup {step + 1} |->
                                IF t = step + 1 THEN Len(history) + 1 ELSE openSteps[t]]
                        ELSE openSteps
        /\ UNCHANGED <<dispatched, recorded, pendingIds, covered, snapshot, planned, compactions,
                       counted, abandoned>>
    BY <1>4 DEF BeginStep, compaction
  <2>2. step \in 0..MaxSteps /\ MaxSteps \in Nat /\ step + 1 \in Steps /\ Len(history) + 1 \in Nat \ {0}
    <3>1. step \in 0..MaxSteps /\ MaxSteps \in Nat /\ history \in Seq(Message)
      BY MemoryAssumption DEF TypeOK
    <3>2. Len(history) \in Nat
      BY <3>1, LenProperties
    <3> QED  BY <2>1, <3>1, <3>2 DEF Steps
  <2>3. Sent \in Seq(Message)
    <3> DEFINE P == {m \in Range(history) : Whole(m)}
    <3>1. history \in Seq(Message) /\ Sent = Pick(history, P)
      BY DEF TypeOK, Sent
    <3> HIDE DEF P
    <3>2. Pick(history, P) \in Seq(Message \cap P) /\ Message \cap P \subseteq Message
      BY <3>1, PickType
    <3>3. Pick(history, P) \in Seq(Message)
      BY <3>2, SeqMonotonic
    <3> QED  BY <3>1, <3>3
  <2>4. OpenTypes'
    BY <2>1, <2>2 DEF OpenTypes, TypeOK
  <2>5. DOMAIN openSteps' \subseteq 1..step'
    BY <2>1, <2>2 DEF Begun
  <2>6. BatchTypes' /\ RoundTypes'
    BY <1>0, <2>1, <2>2 DEF RestTypes, BatchTypes, RoundTypes
  <2>7. step' >= 1
    BY <2>1, <2>2
  <2> QED  BY <1>0, <2>1, <2>3, <2>4, <2>5, <2>6, <2>7 DEF RestTypes, Begun, Pcs
<1>5. CASE StepFails \/ EmptyAnswer
  <2>1. /\ UNCHANGED <<step, dispatched, recorded, openSteps, pendingIds, covered, compaction,
                       counted, lastSent>>
        /\ abandoned' = (abandoned \/ step \in DOMAIN openSteps)
        /\ pc' \in Pcs /\ (InStep' => InStep)
    BY <1>5 DEF StepFails, EmptyAnswer, memory, Pcs, InStep
  <2>2. abandoned' \in BOOLEAN
    BY <2>1
  <2> QED  BY <2>1, <2>2, LoopKeepsTypes
<1>6. ASSUME NEW hasText \in BOOLEAN, Answer(hasText) PROVE RestTypes' /\ Begun'
  <2>1. /\ UNCHANGED <<step, dispatched, recorded, openSteps, pendingIds, covered, compaction,
                       counted, lastSent, abandoned>>
        /\ pc' \in Pcs /\ (InStep' => InStep)
    BY <1>6 DEF Answer, ghosts, Pcs, InStep
  <2> QED  BY <1>a, <2>1, LoopKeepsTypes
<1>7. CASE Dispatch \/ Unexecuted
  <2>1. /\ dispatched < MaxCalls /\ dispatched' = dispatched + 1
        /\ recorded' \in {recorded, recorded + 1}
        /\ pendingIds' \in {pendingIds, pendingIds \cup {NextCall}}
        /\ UNCHANGED <<openSteps, covered, step, snapshot, planned, compactions, counted, lastSent,
                       abandoned>>
        /\ pc' \in {"content", "tools", "end"} /\ InStep
    BY <1>7 DEF Dispatch, Unexecuted, compaction, ghosts, InStep
  <2>2. NextCall \in CallIds
    <3>1. step \in 1..MaxSteps /\ dispatched + 1 \in 1..MaxCalls
      BY <2>1, MemoryAssumption DEF Begun, TypeOK
    <3> QED  BY <3>1 DEF NextCall, CallIds, Steps
  <2>3. BatchTypes'
    BY <1>0, <2>1, MemoryAssumption DEF RestTypes, BatchTypes
  <2>4. OpenTypes' /\ RoundTypes'
    BY <1>0, <2>1 DEF RestTypes, OpenTypes, RoundTypes
  <2> QED  BY <1>0, <2>1, <2>2, <2>3, <2>4 DEF RestTypes, Pcs, Begun, InStep
<1>8. CASE RecordResult
  <2>1. /\ recorded < dispatched /\ recorded' = recorded + 1
        /\ RecordToolResult(<<step, recorded + 1>>)
        /\ UNCHANGED <<openSteps, covered, step, dispatched, snapshot, planned, compactions, counted,
                       lastSent, abandoned>>
        /\ pc' \in {"results", "inject"} /\ InStep
    BY <1>8 DEF RecordResult, compaction, ghosts, InStep
  <2>2. pendingIds' \subseteq pendingIds
    BY <2>1 DEF RecordToolResult
  <2>3. BatchTypes'
    BY <1>0, <2>1, MemoryAssumption DEF RestTypes, BatchTypes
  <2>4. OpenTypes' /\ RoundTypes'
    BY <1>0, <2>1 DEF RestTypes, OpenTypes, RoundTypes
  <2> QED  BY <1>0, <2>1, <2>2, <2>3, <2>4 DEF RestTypes, Pcs, Begun, InStep
<1>9. CASE EndStep
  <2>1. PICK usage \in BOOLEAN : StepEnd(step, usage)
    BY <1>9 DEF EndStep
  <2>2. /\ pc' = "after" /\ dispatched' = 0 /\ recorded' = 0
        /\ UNCHANGED <<step, pendingIds, snapshot, planned, compactions, lastSent, abandoned>>
    BY <1>9 DEF EndStep, compaction
  <2>3. /\ OpenTypes' /\ DOMAIN openSteps' \subseteq 1..step'
        /\ covered' \in Nat /\ counted' \subseteq Nat
    BY <1>d, <2>1, <2>2, StepEndTypes
  <2>4. BatchTypes' /\ RoundTypes'
    BY <1>0, <2>2, MemoryAssumption DEF RestTypes, BatchTypes, RoundTypes
  <2> QED  BY <1>0, <2>2, <2>3, <2>4 DEF RestTypes, Pcs, Begun, InStep
<1>10. CASE Interrupt
  <2>1. /\ pc' = "closing" /\ dispatched' = 0 /\ recorded' = 0 /\ snapshot' = <<>> /\ planned' = 0
        /\ UNCHANGED <<step, pendingIds, openSteps, covered, compactions, counted, lastSent, abandoned>>
    BY <1>10 DEF Interrupt, memory, ghosts
  <2>2. BatchTypes' /\ OpenTypes'
    BY <1>0, <2>1, MemoryAssumption DEF RestTypes, BatchTypes, OpenTypes
  <2>3. RoundTypes'
    BY <1>0, <2>1, EmptySeq DEF RestTypes, RoundTypes
  <2> QED  BY <1>0, <2>1, <2>2, <2>3 DEF RestTypes, Pcs, Begun, InStep
<1>11. ASSUME NEW c \in CallIds, CloseResult(c) PROVE RestTypes' /\ Begun'
  <2>1. /\ RecordToolResult(c) /\ UNCHANGED <<pc, step, dispatched, recorded, openSteps, covered,
           snapshot, planned, compactions, counted, lastSent, abandoned>>
    BY <1>11 DEF CloseResult, loop, compaction, ghosts
  <2>2. pendingIds' \subseteq pendingIds
    BY <2>1 DEF RecordToolResult
  <2>3. BatchTypes' /\ OpenTypes' /\ RoundTypes'
    BY <1>0, <2>1 DEF RestTypes, OpenTypes, BatchTypes, RoundTypes
  <2> QED  BY <1>0, <2>1, <2>2, <2>3 DEF RestTypes, Pcs, Begun, InStep
<1>12. ASSUME NEW s \in Steps, CloseStep(s) PROVE RestTypes' /\ Begun'
  <2>1. /\ StepEnd(s, FALSE) /\ UNCHANGED <<pc, step, dispatched, recorded, pendingIds,
           snapshot, planned, compactions, lastSent, abandoned>>
    BY <1>12 DEF CloseStep, loop, compaction
  <2>2. /\ OpenTypes' /\ DOMAIN openSteps' \subseteq 1..step'
        /\ covered' \in Nat /\ counted' \subseteq Nat
    BY <1>d, <2>1, StepEndTypes
  <2>3. BatchTypes' /\ RoundTypes'
    BY <1>0, <2>1 DEF RestTypes, BatchTypes, RoundTypes
  <2> QED  BY <1>0, <2>1, <2>2, <2>3 DEF RestTypes, Begun, InStep
<1> QED
  BY <1>1, <1>2, <1>3, <1>4, <1>5, <1>6, <1>7, <1>8, <1>9, <1>10, <1>11, <1>12 DEF Turn

LEMMA OthersKeepTypes ==
    ASSUME TypeOK, Begun, ExchangeInv, Others
    PROVE  /\ RestTypes' /\ Begun'
           /\ Clear \/ (\E last \in 1..Len(history) : \E kept \in 0..last : ApplyCompaction(last, kept))
                => EditedTypes'
<1>0. RestTypes /\ EditedTypes
  BY TypeParts
<1>h. history \in Seq(Message) /\ Len(history) \in Nat
  BY LenProperties DEF TypeOK
<1>e. Len(<<>>) = 0 /\ <<>> \in Seq(Message)
  BY EmptySeq
<1>n. 0 \in Nat
  OBVIOUS
<1>i. ASSUME UNCHANGED <<step, openSteps>>, InStep' => InStep PROVE Begun'
  BY <1>i DEF Begun
<1>r. Retracted(history') \in Nat \/ Len(history') \notin Nat
  BY <1>0 DEF Retracted, Smaller, RestTypes
<1>1. CASE Deliver
  <2>1. UNCHANGED <<pc, step, dispatched, recorded, openSteps, pendingIds, covered, compaction,
                    counted, lastSent, abandoned>>
    BY <1>1 DEF Deliver, AppendUser, loop, ghosts
  <2>2. RestTypes' /\ Begun'
    BY <1>0, <2>1, LoopKeepsTypes DEF RestTypes, InStep
  <2>3. Edits
    <3>1. "injection" \in Origins
      BY DEF Origins
    <3> QED  BY <1>1, <3>1, UserEdit DEF Deliver, AppendUser, ExchangeInv
  <2>4. EditedTypes'
    BY <2>3, EditTypes DEF EditedTypes
  <2> QED  BY <2>2, <2>4
<1>2. CASE Clear
  <2>1. /\ history' = <<>> /\ openSteps' = <<>> /\ pendingIds' = {} /\ deferred' = <<>>
        /\ covered' = 0 /\ nextSeq' = 0 /\ counted' = {} /\ lastSent' = <<>> /\ abandoned' = FALSE
        /\ UNCHANGED <<pc, step, dispatched, recorded, snapshot, planned, compactions, arrivals, rejected>>
    BY <1>2 DEF Clear, DropExchange, loop, compaction
  <2>2. DOMAIN openSteps' = {}
    BY <2>1
  <2>3. OpenTypes' /\ BatchTypes' /\ RoundTypes'
    BY <1>0, <2>1, <2>2 DEF RestTypes, OpenTypes, BatchTypes, RoundTypes
  <2>4. Begun'
    BY <2>1, <2>2 DEF Begun, InStep
  <2>5. EditedTypes'
    BY <1>0, <1>e, <2>1 DEF EditedTypes
  <2>6. RestTypes'
    BY <1>0, <1>e, <2>1, <2>3 DEF RestTypes
  <2> QED  BY <2>4, <2>5, <2>6
<1>3. CASE PopReminder
  <2>1. /\ covered' = Retracted(history') /\ lastSent' = <<>>
        /\ UNCHANGED <<openSteps, pendingIds, pc, step, dispatched, recorded, snapshot, planned,
                       compactions, counted, abandoned>>
    BY <1>3 DEF PopReminder, loop, compaction
  <2>2. Len(history') \in Nat
    BY <1>3, PopIs, LenProperties
  <2>3. OpenTypes' /\ BatchTypes' /\ RoundTypes' /\ Begun'
    BY <1>0, <1>i, <2>1 DEF RestTypes, OpenTypes, BatchTypes, RoundTypes, InStep
  <2>4. RestTypes'
    BY <1>0, <1>e, <1>r, <2>1, <2>2, <2>3 DEF RestTypes
  <2>5. Edits
    <3>0. Shortens
      BY <1>3 DEF Shortens
    <3>1. UNCHANGED <<nextSeq, rejected, arrivals, deferred>>
      BY <1>3 DEF PopReminder
    <3>2. history' \in Seq(Message) /\ Thinned(history, history')
      BY <1>3, PopIs
    <3> QED  BY <3>0, <3>1, <3>2, ThinnedEdit
  <2>6. EditedTypes'
    BY <2>5, EditTypes DEF EditedTypes
  <2> QED  BY <2>3, <2>4, <2>6
<1>4. ASSUME NEW cut \in 1..Len(history), NEW count \in 1..Len(history), Undo(cut, count)
      PROVE  RestTypes' /\ Begun' /\ EditedTypes'
  <2>1. /\ pendingIds' = {} /\ deferred' = <<>>
        /\ openSteps' = [t \in {s \in DOMAIN openSteps : openSteps[s] < cut} |-> openSteps[t]]
        /\ covered' = Retracted(history')
        /\ counted' = IF covered > Len(history') THEN EntriesOf(history', 1, Len(history'))
                                                 ELSE counted
        /\ lastSent' = <<>>
        /\ UNCHANGED <<pc, step, dispatched, recorded, nextSeq, snapshot, planned, compactions,
                       arrivals, rejected, abandoned>>
    BY <1>4 DEF Undo, DropExchange, loop, compaction
  <2>2. history' \in Seq(Message) /\ Len(history') \in Nat
    BY <1>4, UndoIs, LenProperties
  <2>3. OpenTypes' /\ BatchTypes' /\ RoundTypes'
    BY <1>0, <2>1 DEF RestTypes, OpenTypes, BatchTypes, RoundTypes
  <2>4. EntriesOf(history', 1, Len(history')) \subseteq Nat
    <3>1. PICK one \in Nat \ {0}, l \in Nat : one = 1 /\ l = Len(history') /\ l <= Len(history')
      BY <2>2
    <3>2. EntriesOf(history', one, l) \subseteq Nat
      BY <2>2, <3>1, EntriesAreNumbers
    <3> QED  BY <3>1, <3>2
  <2>5. counted' \subseteq Nat
    BY <1>0, <2>1, <2>4 DEF RestTypes
  <2>6. Begun'
    BY <2>1 DEF Begun, InStep
  <2>7. RestTypes'
    BY <1>0, <1>e, <1>r, <2>1, <2>2, <2>3, <2>5 DEF RestTypes
  <2>8. EditedTypes'
    BY <1>0, <1>e, <2>1, <2>2 DEF EditedTypes
  <2> QED  BY <2>6, <2>7, <2>8
<1>5. ASSUME NEW last \in 1..Len(history), BeginCompaction(last)
      PROVE  RestTypes' /\ Begun' /\ EditedTypes'
  <2>1. /\ pc' \in {"auto", "manual"} /\ compactions < MaxCompactions /\ compactions' = compactions + 1
        /\ snapshot' = history /\ planned' = last
        /\ UNCHANGED <<step, dispatched, recorded, history, openSteps, pendingIds, deferred, covered,
                       nextSeq, arrivals, counted, lastSent, abandoned, rejected>>
    BY <1>5 DEF BeginCompaction, memory, ghosts
  <2>2. RoundTypes'
    BY <1>0, <1>h, <2>1, MemoryAssumption DEF RestTypes, RoundTypes
  <2>3. OpenTypes' /\ BatchTypes' /\ Begun'
    BY <1>0, <1>i, <2>1 DEF RestTypes, OpenTypes, BatchTypes, InStep
  <2>4. RestTypes' /\ EditedTypes'
    BY <1>0, <2>1, <2>2, <2>3 DEF RestTypes, EditedTypes, Pcs
  <2> QED  BY <2>3, <2>4
<1>6. ASSUME NEW last \in 1..Len(history), NEW kept \in 0..last, ApplyCompaction(last, kept)
      PROVE  RestTypes' /\ Begun' /\ EditedTypes'
  <2>1. /\ openSteps' = <<>> /\ pendingIds' = {} /\ deferred' = <<>>
        /\ covered' = Len(history') /\ counted' = EntriesOf(history', 1, Len(history'))
        /\ lastSent' = <<>> /\ abandoned' = FALSE
        /\ pc' \in {"idle", "before"} /\ snapshot' = <<>> /\ planned' = 0
        /\ UNCHANGED <<step, dispatched, recorded, compactions, arrivals, rejected>>
    BY <1>6 DEF ApplyCompaction, DropExchange, RoundOver
  <2>2. PICK f, n : Compacted(f, kept, n, last)
    BY <1>6, CompactedIs
  <2>3. history' \in Seq(Message) /\ Len(history') \in Nat /\ nextSeq' \in Nat
    <3>1. history' \in Seq(Message) /\ n \in Nat /\ nextSeq' = nextSeq + n
      BY <2>2 DEF Compacted
    <3> QED  BY <1>0, <3>1, LenProperties DEF EditedTypes
  <2>4. EntriesOf(history', 1, Len(history')) \subseteq Nat
    <3>1. PICK one \in Nat \ {0}, l \in Nat : one = 1 /\ l = Len(history') /\ l <= Len(history')
      BY <2>3
    <3>2. EntriesOf(history', one, l) \subseteq Nat
      BY <2>3, <3>1, EntriesAreNumbers
    <3> QED  BY <3>1, <3>2
  <2>5. DOMAIN openSteps' = {}
    BY <2>1
  <2>6. OpenTypes' /\ BatchTypes' /\ RoundTypes' /\ Begun'
    BY <1>0, <1>e, <2>1, <2>5 DEF RestTypes, OpenTypes, BatchTypes, RoundTypes, Begun, InStep
  <2>7. RestTypes' /\ EditedTypes'
    BY <1>0, <1>e, <2>1, <2>3, <2>4, <2>6 DEF RestTypes, EditedTypes, Pcs
  <2> QED  BY <2>6, <2>7
<1>7. CASE RefuseCompaction \/ LoseCompaction
  <2>1. /\ pc' \in {"idle", "before", "failed"} /\ snapshot' = <<>> /\ planned' = 0
        /\ UNCHANGED <<step, dispatched, recorded, history, openSteps, pendingIds, deferred, covered,
                       nextSeq, arrivals, counted, lastSent, abandoned, rejected, compactions>>
    BY <1>7 DEF RefuseCompaction, LoseCompaction, RoundOver, memory, ghosts
  <2>2. OpenTypes' /\ BatchTypes' /\ RoundTypes' /\ Begun'
    BY <1>0, <1>e, <1>i, <2>1 DEF RestTypes, OpenTypes, BatchTypes, RoundTypes, InStep
  <2>3. RestTypes' /\ EditedTypes'
    BY <1>0, <2>1, <2>2 DEF RestTypes, EditedTypes, Pcs
  <2> QED  BY <2>2, <2>3
<1> QED  BY <1>1, <1>2, <1>3, <1>4, <1>5, <1>6, <1>7 DEF Others

(* A step of the memory: an edit, or one of the two rewrites. *)
LEMMA NextEdits ==
    ASSUME TypeOK, Begun, ExchangeInv, Next
    PROVE  Edits \/ Clear \/ \E last \in 1..Len(history) : \E kept \in 0..last : ApplyCompaction(last, kept)
BY TurnEdits, OthersEdit DEF Next

MemoryInv == TypeOK /\ Begun /\ ExchangeInv

LEMMA MemoryInductive ==
    /\ Init => MemoryInv
    /\ MemoryInv /\ [Next]_vars => MemoryInv'
<1>1. Init => MemoryInv
  <2> SUFFICES ASSUME Init PROVE TypeOK /\ Begun
    BY ExchangeInductive DEF MemoryInv
  <2>1. <<>> \in Seq(Message) /\ Len(<<>>) = 0 /\ DOMAIN <<>> = {}
    BY EmptySeq
  <2>2. DOMAIN openSteps = {}
    BY DEF Init
  <2>3. Begun
    BY <2>2 DEF Init, Begun, InStep
  <2>4. TypeOK
    <3>1. OpenTypes
      BY <2>2 DEF OpenTypes
    <3>2. BatchTypes
      BY MemoryAssumption DEF Init, BatchTypes
    <3>3. RoundTypes
      BY <2>1, MemoryAssumption DEF Init, RoundTypes
    <3>b. rejected \in BOOLEAN
      BY DEF Init
    <3>4. EditedTypes
      <4>1. history \in Seq(Message) /\ deferred \in Seq(Message)
        BY <2>1 DEF Init
      <4>2. nextSeq \in Nat /\ arrivals \in 0..MaxArrivals
        BY MemoryAssumption DEF Init
      <4> QED  BY <3>b, <4>1, <4>2 DEF EditedTypes
    <3>5. RestTypes
      BY <2>1, <3>1, <3>2, <3>3 DEF Init, RestTypes, Pcs
    <3> QED  BY <3>4, <3>5, TypeParts
  <2> QED  BY <2>3, <2>4
<1>2. ASSUME MemoryInv, Next PROVE MemoryInv'
  <2>1. TypeOK /\ Begun /\ ExchangeInv
    BY <1>2 DEF MemoryInv
  <2>2. RestTypes' /\ Begun'
    BY <1>2, <2>1, TurnKeepsTypes, OthersKeepTypes DEF Next
  <2>3. Edits => EditedTypes'
    BY <2>1, EditTypes DEF EditedTypes
  <2>4. EditedTypes'
    <3>1. CASE Turn
      BY <2>1, <2>3, <3>1, TurnEdits
    <3>2. CASE Others
      BY <2>1, <2>3, <3>2, OthersEdit, OthersKeepTypes
    <3> QED  BY <1>2, <3>1, <3>2 DEF Next
  <2>5. TypeOK'
    <3>1. (RestTypes /\ EditedTypes)'
      BY <2>2, <2>4
    <3>2. TypeOK' <=> RestTypes' /\ EditedTypes'
      BY DEF TypeOK, RestTypes, EditedTypes, OpenTypes, BatchTypes, RoundTypes, Pcs
    <3> QED  BY <2>2, <2>4, <3>2
  <2>6. ExchangeInv'
    BY <1>2, <2>1, ExchangeInductive
  <2> QED  BY <2>2, <2>5, <2>6 DEF MemoryInv
<1>3. ASSUME MemoryInv, UNCHANGED vars PROVE MemoryInv'
  <2>1. ExchangeInv'
    BY <1>3, ExchangeInductive DEF MemoryInv
  <2>2. TypeOK' /\ Begun'
    BY <1>3 DEF MemoryInv, TypeOK, Begun, InStep, vars, loop, memory, compaction, ghosts
  <2> QED  BY <2>1, <2>2 DEF MemoryInv
<1> QED  BY <1>1, <1>2, <1>3

(* The memory's variables keep their types, for any ceilings and bounds;   *)
(* in particular every message of the history, of the deferred buffer and  *)
(* of a pending snapshot is well formed, and an open step has a place in   *)
(* the numbering of the history.                                           *)
THEOREM MemoryTypeCorrect == Spec => []TypeOK
<1>1. MemoryInv => TypeOK
  BY DEF MemoryInv
<1> QED  BY <1>1, MemoryInductive, PTL DEF Spec

-----------------------------------------------------------------------------
(* The entry numbers, and the coverage point of the token count. *)

(* An edit, as far as the numbers go: the first g messages were at f, the  *)
(* k behind them are new.                                                  *)
Renumbers(f, g, k) ==
    /\ g \in Nat /\ k \in Nat /\ Len(history') = g + k /\ nextSeq' = nextSeq + k
    /\ f \in [1..g -> 1..Len(history)]
    /\ \A i \in 1..g : i <= f[i] /\ Kin(history'[i], history[f[i]])
    /\ \A i, j \in 1..g : i < j => f[i] < f[j]
    /\ \A i \in 1..k : history'[g + i].seq = nextSeq + (i - 1)
    /\ \A j \in 1..(g + k) : j \in 1..g \/ \E i \in 1..k : j = g + i
    /\ g = Len(history) \/ Shortens

LEMMA EditRenumbers ==
    ASSUME TypeOK, Edits
    PROVE  \E f, g, k : Renumbers(f, g, k)
<1>1. PICK base, msgs, k : Edit(base, msgs, k) /\ (Len(base) = Len(history) \/ Shortens)
  BY DEF Edits
<1>2. /\ base \in Seq(Message) /\ msgs \in Seq(Message) /\ k \in 0..Len(msgs) /\ nextSeq \in Nat
      /\ history' = base \o Numbered(msgs, k) /\ nextSeq' = nextSeq + k /\ Thinned(history, base)
  BY <1>1 DEF Edit, Grew, TypeOK
<1>3. /\ Len(history') = Len(base) + k
      /\ \A i \in 1..Len(base) : i \in 1..Len(history') /\ history'[i] = base[i]
      /\ \A i \in 1..k : history'[Len(base) + i].seq = nextSeq + (i - 1)
      /\ \A j \in 1..Len(history') : j \in 1..Len(base) \/ \E i \in 1..k : j = Len(base) + i
  <2>1. Grown(base, msgs, k)
    BY <1>2, GrownIs
  <2> QED  BY <2>1 DEF Grown
<1>4. PICK f : Thinning(f, history, base)
  BY <1>2 DEF Thinned
<1>5. PICK g \in Nat : g = Len(base)
  BY <1>2, LenProperties
<1>6. k \in Nat
  BY <1>2, LenProperties
<1>7. \A i \in 1..g : i <= f[i] /\ Kin(history'[i], history[f[i]])
  BY <1>3, <1>4, <1>5 DEF Thinning
<1>8. Renumbers(f, g, k)
  BY <1>1, <1>2, <1>3, <1>4, <1>5, <1>6, <1>7 DEF Renumbers, Thinning
<1> QED  BY <1>8

LEMMA EditKeepsNumbers ==
    ASSUME TypeOK, EntryNumbersUnique, Edits
    PROVE  EntryNumbersUnique'
<1>1. PICK f, g, k : Renumbers(f, g, k)
  BY EditRenumbers
<1>2. /\ g \in Nat /\ k \in Nat /\ Len(history') = g + k /\ nextSeq' = nextSeq + k /\ nextSeq \in Nat
      /\ \A j \in 1..(g + k) : j \in 1..g \/ \E i \in 1..k : j = g + i
      /\ Len(history) \in Nat /\ history \in Seq(Message)
  BY <1>1, LenProperties DEF Renumbers, TypeOK
<1>3. \A i \in 1..Len(history) : history[i].seq \in Nat
  BY <1>2, ElementOfSeq, MessageFields
<1>4. \A i \in 1..g : f[i] \in 1..Len(history) /\ i <= f[i] /\ history'[i].seq = history[f[i]].seq
  BY <1>1 DEF Renumbers, Kin
<1>5. \A i \in 1..g : history'[i].seq \in Nat /\ history'[i].seq < nextSeq
  BY <1>3, <1>4 DEF EntryNumbersUnique
<1>6. \A i \in 1..k : history'[g + i].seq = nextSeq + (i - 1)
  BY <1>1 DEF Renumbers
<1>7. ASSUME NEW i \in 1..g, NEW j \in 1..g, history'[i].seq = history'[j].seq PROVE i = j
  <2>1. f[i] = f[j]
    BY <1>4, <1>7 DEF EntryNumbersUnique
  <2>2. f[i] \in Nat /\ f[j] \in Nat /\ (i < j => f[i] < f[j]) /\ (j < i => f[j] < f[i])
    BY <1>1, <1>4 DEF Renumbers
  <2> QED  BY <1>2, <2>1, <2>2
<1>8. ASSUME NEW i \in 1..Len(history'), NEW j \in 1..Len(history'),
             history'[i].seq = history'[j].seq
      PROVE  i = j
  <2>1. CASE i \in 1..g /\ j \in 1..g
    BY <1>7, <1>8, <2>1
  <2>2. ASSUME NEW a \in 1..Len(history'), NEW b \in 1..k, a \in 1..g,
               history'[a].seq = history'[g + b].seq
        PROVE  FALSE
    <3>1. history'[a].seq \in Nat /\ history'[a].seq < nextSeq
      BY <1>5, <2>2
    <3>2. history'[a].seq = nextSeq + (b - 1)
      BY <1>6, <2>2
    <3> QED  BY <1>2, <3>1, <3>2
  <2>3. ASSUME NEW a \in 1..k, NEW b \in 1..k, history'[g + a].seq = history'[g + b].seq
        PROVE  a = b
    <3>1. nextSeq + (a - 1) = nextSeq + (b - 1)
      BY <1>6, <2>3
    <3> QED  BY <1>2, <3>1
  <2> QED  BY <1>2, <1>8, <2>1, <2>2, <2>3, ZenonT(30)
<1>9. \A i \in 1..Len(history') : history'[i].seq < nextSeq'
  <2>0. \A i \in 1..k : nextSeq + (i - 1) < nextSeq + k
    BY <1>2
  <2>1. \A i \in 1..k : history'[g + i].seq < nextSeq'
    BY <1>2, <1>6, <2>0
  <2>2. \A i \in 1..g : history'[i].seq < nextSeq'
    BY <1>2, <1>5
  <2> QED  BY <1>2, <2>1, <2>2
<1>10. ASSUME NEW j \in 2..Len(history') PROVE history'[j].seq > 0
  <2>1. j \in 1..(g + k) /\ j >= 2
    BY <1>2
  <2>2. CASE j \in 1..g
    <3>1. f[j] \in 2..Len(history)
      BY <1>4, <2>1, <2>2
    <3> QED  BY <1>4, <2>2, <3>1 DEF EntryNumbersUnique
  <2>3. ASSUME NEW i \in 1..k, j = g + i PROVE history'[j].seq > 0
    <3>0. history'[j].seq = nextSeq + (i - 1)
      BY <1>6, <2>3
    <3>1. CASE i >= 2
      <4>1. nextSeq + (i - 1) > 0
        BY <1>2, <3>1
      <4> QED  BY <3>0, <4>1
    <3>2. CASE i = 1
      <4>1. 1 \in 1..g
        BY <1>2, <2>1, <2>3, <3>2
      <4>2. nextSeq > 0
        BY <1>2, <1>5, <4>1
      <4> QED  BY <1>2, <1>6, <2>3, <3>2, <4>2
    <3> QED  BY <3>1, <3>2
  <2> QED  BY <1>2, <2>1, <2>2, <2>3
<1> QED  BY <1>8, <1>9, <1>10 DEF EntryNumbersUnique

LEMMA CompactionKeepsNumbers ==
    ASSUME TypeOK, EntryNumbersUnique, NEW last \in 1..Len(history), NEW kept \in 0..last,
           ApplyCompaction(last, kept)
    PROVE  EntryNumbersUnique'
<1>1. PICK f, n : Compacted(f, kept, n, last)
  BY CompactedIs
<1>2. /\ history \in Seq(Message) /\ Len(history) \in Nat /\ nextSeq \in Nat
      /\ last \in Nat /\ last >= 1 /\ last <= Len(history) /\ kept \in Nat
      /\ n \in Nat /\ nextSeq' = nextSeq + n
  <2>1. history \in Seq(Message) /\ nextSeq \in Nat
    BY DEF TypeOK
  <2>2. Len(history) \in Nat
    BY <2>1, LenProperties
  <2>3. n \in Nat /\ nextSeq' = nextSeq + n
    BY <1>1 DEF Compacted
  <2> QED  BY <2>1, <2>2, <2>3
<1>3. \A i \in 1..Len(history) : history[i].seq \in Nat /\ history[i].seq < nextSeq
  <2>1. \A i \in 1..Len(history) : history[i].seq \in Nat
    BY <1>2, ElementOfSeq, MessageFields
  <2> QED  BY <2>1 DEF EntryNumbersUnique
<1>4. nextSeq > 0
  <2>1. 1 \in 1..Len(history)
    BY <1>2
  <2> QED  BY <1>2, <1>3, <2>1
<1> DEFINE t == Len(history) - last
           Old(j) == \E p \in 1..Len(history) :
                       /\ history'[j] = history[p] /\ (j >= 2 => p >= 2)
                       /\ \/ j \in 1..kept /\ p = f[j]
                          \/ j = (kept + n) + (p - last) /\ p > last
           New(j) == \E i \in 1..n : j = kept + i /\ history'[j].seq = nextSeq + (i - 1)
<1>5. ASSUME NEW j \in 1..Len(history') PROVE Old(j) \/ New(j)
  <2>1. CASE j \in 1..kept
    <3>1. f[j] \in 1..last /\ history'[j] = history[f[j]]
      BY <1>1, <2>1 DEF Compacted
    <3>2. f[j] \in 1..Len(history)
      BY <1>2, <3>1
    <3>3. j >= 2 => f[j] >= 2
      <4> SUFFICES ASSUME j >= 2 PROVE f[j] >= 2
        OBVIOUS
      <4>1. 1 \in 1..kept /\ 1 < j
        BY <1>2, <2>1
      <4>2. f[1] \in 1..last /\ f[1] < f[j]
        BY <1>1, <2>1, <4>1 DEF Compacted
      <4> QED  BY <1>2, <3>1, <4>2
    <3> QED  BY <2>1, <3>1, <3>2, <3>3
  <2>2. ASSUME NEW i \in 1..n, j = kept + i PROVE New(j)
    <3>1. Note(history'[kept + i], nextSeq + (i - 1))
      BY <1>1 DEF Compacted
    <3> QED  BY <2>2, <3>1 DEF Note
  <2>3. ASSUME NEW i \in 1..t, j = (kept + n) + i PROVE Old(j)
    <3>1. last + i \in 1..Len(history) /\ history'[j] = history[last + i]
      BY <1>1, <2>3 DEF Compacted
    <3>2. PICK p \in 1..Len(history) : p = last + i
      BY <3>1
    <3>3. p >= 2 /\ p > last /\ j = (kept + n) + (p - last)
      BY <1>2, <2>3, <3>2
    <3> QED  BY <3>1, <3>2, <3>3
  <2>4. j \in 1..kept \/ (\E i \in 1..n : j = kept + i) \/ (\E i \in 1..t : j = (kept + n) + i)
    BY <1>1 DEF Compacted
  <2> HIDE DEF Old, New
  <2> QED  BY <2>1, <2>2, <2>3, <2>4
<1>6. ASSUME NEW i \in 1..Len(history'), NEW j \in 1..Len(history'),
             history'[i].seq = history'[j].seq
      PROVE  i = j
  <2>1. ASSUME Old(i), Old(j) PROVE i = j
    <3>1. PICK p \in 1..Len(history) : history'[i] = history[p]
             /\ ((i \in 1..kept /\ p = f[i]) \/ (i = (kept + n) + (p - last) /\ p > last))
      BY <2>1
    <3>2. PICK q \in 1..Len(history) : history'[j] = history[q]
             /\ ((j \in 1..kept /\ q = f[j]) \/ (j = (kept + n) + (q - last) /\ q > last))
      BY <2>1
    <3>3. p = q
      BY <1>6, <3>1, <3>2 DEF EntryNumbersUnique
    <3>4. CASE p > last
      <4>1. ~ (i \in 1..kept /\ p = f[i]) /\ ~ (j \in 1..kept /\ q = f[j])
        <5>1. \A x \in 1..kept : f[x] \in 1..last
          BY <1>1 DEF Compacted
        <5> QED  BY <1>2, <3>3, <3>4, <5>1
      <4> QED  BY <3>1, <3>2, <3>3, <4>1
    <3>5. CASE ~ (p > last)
      <4>1. i \in 1..kept /\ j \in 1..kept /\ f[i] = f[j]
        BY <3>1, <3>2, <3>3, <3>5
      <4>2. f[i] \in 1..last /\ f[j] \in 1..last /\ (i < j => f[i] < f[j]) /\ (j < i => f[j] < f[i])
        BY <1>1, <4>1 DEF Compacted
      <4> QED  BY <1>2, <4>1, <4>2
    <3> QED  BY <3>4, <3>5
  <2>2. ASSUME NEW a \in 1..Len(history'), NEW b \in 1..Len(history'), Old(a), New(b),
               history'[a].seq = history'[b].seq
        PROVE  FALSE
    <3>1. history'[a].seq \in Nat /\ history'[a].seq < nextSeq
      BY <1>3, <2>2
    <3>2. PICK x \in 1..n : history'[b].seq = nextSeq + (x - 1)
      BY <2>2
    <3> QED  BY <1>2, <2>2, <3>1, <3>2, SMTT(30)
  <2>3. ASSUME New(i), New(j) PROVE i = j
    <3>1. PICK x \in 1..n : i = kept + x /\ history'[i].seq = nextSeq + (x - 1)
      BY <2>3
    <3>2. PICK y \in 1..n : j = kept + y /\ history'[j].seq = nextSeq + (y - 1)
      BY <2>3
    <3> QED  BY <1>2, <1>6, <3>1, <3>2
  <2> HIDE DEF Old, New
  <2> QED  BY <1>5, <1>6, <2>1, <2>2, <2>3
<1>7. ASSUME NEW j \in 1..Len(history') PROVE history'[j].seq < nextSeq' /\ (j >= 2 => history'[j].seq > 0)
  <2>1. ASSUME Old(j) PROVE history'[j].seq < nextSeq' /\ (j >= 2 => history'[j].seq > 0)
    <3>1. PICK p \in 1..Len(history) : history'[j] = history[p] /\ (j >= 2 => p >= 2)
      BY <2>1
    <3>2. history[p].seq \in Nat /\ history[p].seq < nextSeq /\ (p \in 2..Len(history) => history[p].seq > 0)
      BY <1>3 DEF EntryNumbersUnique
    <3>3. p >= 2 => p \in 2..Len(history)
      BY <1>2
    <3> QED  BY <1>2, <3>1, <3>2, <3>3
  <2>2. ASSUME New(j) PROVE history'[j].seq < nextSeq' /\ (j >= 2 => history'[j].seq > 0)
    <3>1. PICK x \in 1..n : history'[j].seq = nextSeq + (x - 1)
      BY <2>2
    <3> QED  BY <1>2, <1>4, <3>1
  <2> HIDE DEF Old, New
  <2> QED  BY <1>5, <2>1, <2>2
<1>8. \A j \in 2..Len(history') : j \in 1..Len(history') /\ j >= 2
  <2>1. Len(history') \in Nat
    BY <1>1, LenProperties DEF Compacted
  <2> QED  BY <2>1
<1> QED  BY <1>6, <1>7, <1>8 DEF EntryNumbersUnique

(* As long as no step was abandoned, only the last step begun is ever      *)
(* open, not outside it, and the coverage point is in front of it.         *)
QuietPcs == {"idle", "failed", "hooked", "prompt", "blocked", "before", "after", "auto", "manual"}
OpenOnce ==
    ~ abandoned =>
      /\ DOMAIN openSteps \subseteq {step}
      /\ pc \in QuietPcs => DOMAIN openSteps = {}
      /\ \A s \in DOMAIN openSteps : covered < openSteps[s]
CountedOld == \A n \in counted : n < nextSeq
Uncounted == \A i \in (covered + 1)..Len(history) : history[i].seq \notin counted

CoverageInv ==
    /\ EntryNumbersUnique /\ CoveredInRange /\ CountedOld /\ OpenOnce /\ NoMessageCountedTwice

(* Behind the coverage point an edit brings only messages that were behind *)
(* it before, and new ones.                                                *)
LEMMA EditKeepsUncounted ==
    ASSUME TypeOK, CountedOld, Uncounted, Edits, NEW i \in 1..Len(history'), covered < i
    PROVE  history'[i].seq \notin counted
<1>1. PICK f, g, k : Renumbers(f, g, k)
  BY EditRenumbers
<1>2. /\ g \in Nat /\ k \in Nat /\ nextSeq \in Nat /\ covered \in Nat /\ counted \subseteq Nat
      /\ i \in 1..g \/ \E j \in 1..k : i = g + j
  BY <1>1 DEF Renumbers, TypeOK
<1>3. CASE i \in 1..g
  <2>1. f[i] \in 1..Len(history) /\ i <= f[i] /\ history'[i].seq = history[f[i]].seq
    BY <1>1, <1>3 DEF Renumbers, Kin
  <2>2. f[i] \in (covered + 1)..Len(history)
    BY <1>2, <2>1
  <2> QED  BY <2>1, <2>2 DEF Uncounted
<1>4. ASSUME NEW j \in 1..k, i = g + j PROVE history'[i].seq \notin counted
  <2>1. history'[i].seq = nextSeq + (j - 1)
    BY <1>1, <1>4 DEF Renumbers
  <2>2. \A n \in counted : n \in Nat /\ n < nextSeq
    BY <1>2 DEF CountedOld
  <2>3. \A n \in counted : n # nextSeq + (j - 1)
    BY <1>2, <2>2
  <2> QED  BY <2>1, <2>3
<1> QED  BY <1>2, <1>3, <1>4

(* What a step counts from the history it leaves is below the counter, and *)
(* not behind the point up to which it counts.                             *)
LEMMA CountedUpTo ==
    ASSUME TypeOK', EntryNumbersUnique', NEW from \in Nat \ {0}, NEW to \in Nat, to <= Len(history')
    PROVE  /\ \A n \in EntriesOf(history', from, to) : n < nextSeq'
           /\ \A i \in 1..Len(history') : to < i => history'[i].seq \notin EntriesOf(history', from, to)
<1>1. Len(history') \in Nat
  <2>1. history' \in Seq(Message)
    BY DEF TypeOK
  <2> QED  BY <2>1, LenProperties
<1>2. \A j \in from..to : j \in 1..Len(history') /\ j <= to
  BY <1>1
<1>3. \A n \in EntriesOf(history', from, to) : n < nextSeq'
  BY <1>2 DEF EntriesOf, EntryNumbersUnique
<1>4. ASSUME NEW i \in 1..Len(history'), to < i, NEW j \in from..to, history'[i].seq = history'[j].seq
      PROVE  FALSE
  <2>1. i = j
    BY <1>2, <1>4 DEF EntryNumbersUnique
  <2> QED  BY <1>1, <1>2, <1>4, <2>1
<1> QED  BY <1>3, <1>4 DEF EntriesOf

LEMMA StepEndKeepsCoverage ==
    ASSUME MemoryInv, MemoryInv', CoverageInv, EntryNumbersUnique', Edits, NEW s, NEW usage \in BOOLEAN,
           StepEnd(s, usage), UNCHANGED <<step, abandoned>>,
           s = step \/ s \in DOMAIN openSteps
    PROVE  CoverageInv'
<1>1. TypeOK /\ DeferredOnlyWhileOpen /\ TypeOK'
  BY DEF MemoryInv, ExchangeInv
<1>2. /\ history' = StepBase(s) /\ nextSeq' = nextSeq /\ covered' = StepCover(s)
      /\ openSteps' = [t \in DOMAIN openSteps \ {s} |-> openSteps[t]]
      /\ counted' = IF usage THEN EntriesOf(history', 1, covered')
                    ELSE counted \cup EntriesOf(history', covered + 1, covered')
  BY <1>1, StepEndIs
<1>3. StepCover(s) \in 0..Len(StepBase(s))
  BY <1>1, StepBaseIs
<1>4. PICK cov \in Nat : cov = covered' /\ cov <= Len(history') /\ Len(history') \in Nat
  <2>1. history' \in Seq(Message)
    BY <1>1 DEF TypeOK
  <2> QED  BY <1>2, <1>3, <2>1, LenProperties
<1>5. PICK d \in Nat \ {0} : d = covered + 1
  BY <1>1 DEF TypeOK
<1>6. PICK e \in Nat \ {0} : e = 1
  OBVIOUS
<1>7. /\ \A n \in EntriesOf(history', d, cov) : n < nextSeq'
      /\ \A i \in 1..Len(history') : cov < i => history'[i].seq \notin EntriesOf(history', d, cov)
  BY <1>1, <1>4, CountedUpTo
<1>8. /\ \A n \in EntriesOf(history', e, cov) : n < nextSeq'
      /\ \A i \in 1..Len(history') : cov < i => history'[i].seq \notin EntriesOf(history', e, cov)
  BY <1>1, <1>4, CountedUpTo
<1>9. counted' = IF usage THEN EntriesOf(history', e, cov) ELSE counted \cup EntriesOf(history', d, cov)
  BY <1>2, <1>4, <1>5, <1>6
<1>10. CountedOld'
  <2>1. \A n \in counted : n < nextSeq'
    BY <1>2 DEF CoverageInv, CountedOld
  <2> QED  BY <1>7, <1>8, <1>9, <2>1 DEF CountedOld
<1>11. CoveredInRange'
  BY <1>4 DEF CoveredInRange
<1>12. OpenOnce'
  <2> SUFFICES ASSUME ~ abandoned PROVE DOMAIN openSteps' = {}
    BY DEF OpenOnce
  <2>1. DOMAIN openSteps \subseteq {step}
    BY DEF CoverageInv, OpenOnce
  <2> QED  BY <1>2, <2>1
<1>13. NoMessageCountedTwice'
  <2> SUFFICES ASSUME ~ abandoned, NEW i \in (cov + 1)..Len(history')
               PROVE  history'[i].seq \notin counted'
    BY <1>4 DEF NoMessageCountedTwice
  <2>1. i \in 1..Len(history') /\ cov < i
    <3>1. PICK l \in Nat : l = Len(history')
      BY <1>4, Zenon
    <3>2. i \in (cov + 1)..l
      BY <3>1, Zenon
    <3>3. i \in 1..l /\ cov < i
      BY <3>2
    <3> QED  BY <3>1, <3>3
  <2>2. history'[i].seq \notin counted
    <3>1. s \in DOMAIN openSteps /\ cov = openSteps[s]
      <4>1. i \in Nat /\ cov < Len(history')
        BY <1>4, <2>1
      <4>2. cov # Len(history')
        BY <1>4, <4>1
      <4>3. s \in DOMAIN openSteps
        BY <1>2, <1>4, <4>2 DEF StepCover
      <4>4. cov = Smaller(openSteps[s], Len(history'))
        BY <1>2, <1>4, <4>3 DEF StepCover
      <4>5. cov = openSteps[s] \/ cov = Len(history')
        BY <4>4 DEF Smaller
      <4> QED  BY <4>2, <4>3, <4>5
    <3>2. covered < openSteps[s] /\ openSteps[s] \in Nat /\ covered \in Nat
      BY <1>1, <3>1 DEF CoverageInv, OpenOnce, TypeOK
    <3>3. covered < i
      BY <1>4, <2>1, <3>1, <3>2
    <3>4. CountedOld /\ Uncounted
      BY DEF CoverageInv, NoMessageCountedTwice, Uncounted
    <3> QED  BY <1>1, <2>1, <3>3, <3>4, EditKeepsUncounted
  <2> QED  BY <1>7, <1>8, <1>9, <2>1, <2>2
<1> QED  BY <1>10, <1>11, <1>12, <1>13 DEF CoverageInv

(* Undo and the retracted reminder. *)
LEMMA RetractKeepsCoverage ==
    ASSUME MemoryInv, MemoryInv', CoverageInv, EntryNumbersUnique', Edits,
           covered' = Retracted(history'), nextSeq' = nextSeq, UNCHANGED <<pc, step, abandoned>>,
           counted' = counted
             \/ (covered > Len(history') /\ counted' = EntriesOf(history', 1, Len(history'))),
           DOMAIN openSteps' \subseteq DOMAIN openSteps,
           \A s \in DOMAIN openSteps' : openSteps'[s] = openSteps[s]
    PROVE  CoverageInv'
<1>1. TypeOK /\ TypeOK' /\ covered \in Nat
  BY DEF MemoryInv, TypeOK
<1>2. PICK l \in Nat : l = Len(history') /\ l <= Len(history')
  <2>1. history' \in Seq(Message)
    BY <1>1 DEF TypeOK
  <2> QED  BY <2>1, LenProperties
<1>3. covered' = IF covered < l THEN covered ELSE l
  BY <1>2 DEF Retracted, Smaller
<1>4. CoveredInRange'
  BY <1>1, <1>2, <1>3 DEF CoveredInRange
<1>5. PICK e \in Nat \ {0} : e = 1
  OBVIOUS
<1>6. \A n \in EntriesOf(history', e, l) : n < nextSeq'
  BY <1>1, <1>2, CountedUpTo
<1>7. CountedOld'
  BY <1>2, <1>5, <1>6 DEF CountedOld, CoverageInv
<1>8. OpenOnce'
  <2> SUFFICES ASSUME ~ abandoned
               PROVE  /\ DOMAIN openSteps' \subseteq {step}
                      /\ pc \in QuietPcs => DOMAIN openSteps' = {}
                      /\ \A s \in DOMAIN openSteps' : covered' < openSteps'[s]
    BY DEF OpenOnce
  <2>1. /\ DOMAIN openSteps \subseteq {step}
        /\ pc \in QuietPcs => DOMAIN openSteps = {}
        /\ \A s \in DOMAIN openSteps : covered < openSteps[s] /\ openSteps[s] \in Nat
    BY <1>1 DEF CoverageInv, OpenOnce, TypeOK
  <2>2. \A s \in DOMAIN openSteps' : covered' < openSteps'[s]
    BY <1>1, <1>2, <1>3, <2>1
  <2> QED  BY <2>1, <2>2
<1>9. NoMessageCountedTwice'
  <2> SUFFICES ASSUME ~ abandoned, NEW i \in (covered' + 1)..Len(history')
               PROVE  history'[i].seq \notin counted'
    BY DEF NoMessageCountedTwice
  <2>1. PICK cov \in Nat : cov = covered'
    BY <1>1, <1>2, <1>3
  <2>2. i \in (cov + 1)..l
    BY <1>2, <2>1
  <2>3. cov < l /\ i \in 1..l /\ cov < i
    BY <2>2
  <2>4. cov = covered /\ ~ (covered > l)
    BY <1>1, <1>3, <2>1, <2>3
  <2>5. counted' = counted /\ covered < i /\ i \in 1..Len(history')
    BY <1>2, <2>3, <2>4
  <2>6. CountedOld /\ Uncounted
    BY DEF CoverageInv, NoMessageCountedTwice, Uncounted
  <2>7. history'[i].seq \notin counted
    BY <1>1, <2>5, <2>6, EditKeepsUncounted
  <2> QED  BY <2>5, <2>7
<1> QED  BY <1>4, <1>7, <1>8, <1>9 DEF CoverageInv

LEMMA ShorteningKeepsCoverage ==
    ASSUME MemoryInv, MemoryInv', CoverageInv, EntryNumbersUnique', Edits, Shortens
    PROVE  CoverageInv'
<1>1. CASE EndStep
  <2>1. PICK usage \in BOOLEAN : StepEnd(step, usage)
    BY <1>1 DEF EndStep
  <2>2. UNCHANGED <<step, abandoned>>
    BY <1>1 DEF EndStep
  <2> QED  BY <2>1, <2>2, StepEndKeepsCoverage
<1>2. ASSUME NEW s, CloseStep(s) PROVE CoverageInv'
  <2>1. StepEnd(s, FALSE) /\ s \in DOMAIN openSteps /\ UNCHANGED <<step, abandoned>>
    BY <1>2 DEF CloseStep, loop
  <2>2. PICK usage \in BOOLEAN : StepEnd(s, usage)
    BY <2>1
  <2> QED  BY <2>1, <2>2, StepEndKeepsCoverage
<1>3. CASE PopReminder
  <2>1. /\ covered' = Retracted(history') /\ UNCHANGED <<nextSeq, pc, step, abandoned, counted, openSteps>>
    BY <1>3 DEF PopReminder, loop
  <2> QED  BY <2>1, RetractKeepsCoverage
<1>4. ASSUME NEW cut, NEW count, Undo(cut, count) PROVE CoverageInv'
  <2>1. /\ covered' = Retracted(history') /\ UNCHANGED <<nextSeq, pc, step, abandoned>>
        /\ openSteps' = [t \in {s \in DOMAIN openSteps : openSteps[s] < cut} |-> openSteps[t]]
        /\ counted' = IF covered > Len(history') THEN EntriesOf(history', 1, Len(history'))
                                                 ELSE counted
    BY <1>4 DEF Undo, loop
  <2>2. /\ DOMAIN openSteps' \subseteq DOMAIN openSteps
        /\ \A s \in DOMAIN openSteps' : openSteps'[s] = openSteps[s]
    BY <2>1
  <2>3. counted' = counted
          \/ (covered > Len(history') /\ counted' = EntriesOf(history', 1, Len(history')))
    BY <2>1
  <2> QED  BY <2>1, <2>2, <2>3, RetractKeepsCoverage
<1> QED  BY <1>1, <1>2, <1>3, <1>4 DEF Shortens

(* Clear, and an applied compaction, which counts all it leaves. *)
LEMMA RewriteKeepsCoverage ==
    ASSUME MemoryInv, MemoryInv', CoverageInv,
           \/ Clear
           \/ \E last \in 1..Len(history) : \E kept \in 0..last : ApplyCompaction(last, kept)
    PROVE  CoverageInv'
<1>1. TypeOK /\ TypeOK'
  BY DEF MemoryInv
<1>2. CASE Clear
  <2>1. /\ history' = <<>> /\ openSteps' = <<>> /\ covered' = 0 /\ nextSeq' = 0 /\ counted' = {}
    BY <1>2 DEF Clear
  <2>2. Len(history') = 0 /\ DOMAIN openSteps' = {}
    BY <2>1, EmptySeq
  <2>3. EntryNumbersUnique' /\ CoveredInRange' /\ CountedOld' /\ OpenOnce' /\ NoMessageCountedTwice'
    BY <2>1, <2>2 DEF EntryNumbersUnique, CoveredInRange, CountedOld, OpenOnce, NoMessageCountedTwice
  <2> QED  BY <2>3 DEF CoverageInv
<1>3. ASSUME NEW last \in 1..Len(history), NEW kept \in 0..last, ApplyCompaction(last, kept)
      PROVE  CoverageInv'
  <2>1. EntryNumbersUnique'
    BY <1>1, <1>3, CompactionKeepsNumbers DEF CoverageInv
  <2>2. /\ openSteps' = <<>> /\ covered' = Len(history') /\ counted' = EntriesOf(history', 1, Len(history'))
    BY <1>3 DEF ApplyCompaction
  <2>3. PICK l \in Nat : l = Len(history') /\ l <= Len(history')
    <3>1. history' \in Seq(Message)
      BY <1>1 DEF TypeOK
    <3> QED  BY <3>1, LenProperties
  <2>4. PICK e \in Nat \ {0} : e = 1
    OBVIOUS
  <2>5. \A n \in EntriesOf(history', e, l) : n < nextSeq'
    BY <1>1, <2>1, <2>3, CountedUpTo
  <2>6. CountedOld'
    BY <2>2, <2>3, <2>4, <2>5 DEF CountedOld
  <2>7. DOMAIN openSteps' = {}
    BY <2>2
  <2>8. OpenOnce' /\ CoveredInRange'
    BY <2>2, <2>3, <2>7 DEF OpenOnce, CoveredInRange
  <2>9. \A i : i \notin (l + 1)..l
    BY <2>3
  <2>10. NoMessageCountedTwice'
    BY <2>2, <2>3, <2>9 DEF NoMessageCountedTwice
  <2> QED  BY <2>1, <2>6, <2>8, <2>10 DEF CoverageInv
<1> QED  BY <1>2, <1>3

(* The other steps leave the coverage point where it is. *)
LEMMA OpensKept ==
    ASSUME OpenOnce, UNCHANGED <<openSteps, covered, counted, step, abandoned>>,
           pc' \in QuietPcs => pc \in QuietPcs \/ DOMAIN openSteps = {}
    PROVE  OpenOnce' /\ UNCHANGED <<covered, counted>>
BY DEF OpenOnce

LEMMA RestKeepsOpens ==
    ASSUME MemoryInv, OpenOnce, CoveredInRange, Next, ~ Shortens,
           ~ Clear, ~ \E last \in 1..Len(history) : \E kept \in 0..last : ApplyCompaction(last, kept)
    PROVE  OpenOnce' /\ UNCHANGED <<covered, counted>>
<1>1. CASE HookResult \/ HookContext \/ Prompt \/ Steer \/ Inject \/ Deliver
  <2>1. \E o : AppendUser(o)
    BY <1>1 DEF HookResult, HookContext, Prompt, Steer, Inject, Deliver
  <2>2. UNCHANGED <<openSteps, covered, counted, abandoned>>
    BY <2>1 DEF AppendUser, ghosts
  <2>3. step' = step /\ (pc' \in QuietPcs => pc \in QuietPcs)
    BY <1>1 DEF HookResult, HookContext, Prompt, Steer, Inject, Deliver, loop, QuietPcs, Between
  <2> QED  BY <2>2, <2>3, OpensKept
<1>2. CASE Blocked
  <2>1. UNCHANGED <<openSteps, covered, counted, step, abandoned>> /\ pc \in QuietPcs
    BY <1>2 DEF Blocked, ghosts, QuietPcs
  <2> QED  BY <2>1, OpensKept
<1>3. CASE RetryTurn \/ ToTools \/ NoTools \/ BatchDone \/ ResultsDone \/ Continue \/ GiveUp \/ Closed
  <2>1. \E from, to : Move(from, to)
    BY <1>3 DEF RetryTurn, ToTools, NoTools, BatchDone, ResultsDone, Continue, GiveUp, Closed
  <2>2. UNCHANGED <<openSteps, covered, counted, step, abandoned>>
    BY <2>1 DEF Move, memory, ghosts
  <2>3. pc' \in QuietPcs => pc \in QuietPcs \/ DOMAIN openSteps = {}
    BY <1>3 DEF RetryTurn, ToTools, NoTools, BatchDone, ResultsDone, Continue, GiveUp, Closed,
                Move, QuietPcs
  <2> QED  BY <2>2, <2>3, OpensKept
<1>4. CASE BeginStep
  <2>1. /\ pc = "before" /\ pc' = "llm" /\ step' = step + 1
        /\ openSteps' = IF Len(history) < MaxHistory
                        THEN [t \in DOMAIN openSteps \cup {step + 1} |->
                                IF t = step + 1 THEN Len(history) + 1 ELSE openSteps[t]]
                        ELSE openSteps
        /\ UNCHANGED <<covered, counted, abandoned>>
    BY <1>4 DEF BeginStep
  <2>2. covered \in Nat /\ Len(history) \in Nat /\ covered <= Len(history)
    <3>1. history \in Seq(Message) /\ covered \in Nat
      BY DEF MemoryInv, TypeOK
    <3> QED  BY <3>1, LenProperties DEF CoveredInRange
  <2>3. ASSUME ~ abandoned
        PROVE  /\ DOMAIN openSteps' \subseteq {step'}
               /\ \A s \in DOMAIN openSteps' : covered < openSteps'[s]
    <3>1. DOMAIN openSteps = {}
      BY <2>1, <2>3 DEF OpenOnce, QuietPcs
    <3>2. DOMAIN openSteps' \subseteq {step'} /\ \A s \in DOMAIN openSteps' : openSteps'[s] = Len(history) + 1
      BY <2>1, <3>1
    <3>3. covered < Len(history) + 1
      BY <2>2
    <3> QED  BY <3>2, <3>3
  <2> QED  BY <2>1, <2>3 DEF OpenOnce, QuietPcs
<1>5. CASE StepFails \/ EmptyAnswer
  <2>1. /\ abandoned' = (abandoned \/ step \in DOMAIN openSteps)
        /\ UNCHANGED <<openSteps, covered, counted, step>>
    BY <1>5 DEF StepFails, EmptyAnswer, memory
  <2>2. ASSUME ~ abandoned' PROVE ~ abandoned /\ DOMAIN openSteps = {}
    BY <2>1, <2>2 DEF OpenOnce
  <2> QED  BY <2>1, <2>2 DEF OpenOnce
<1>6. ASSUME NEW hasText \in BOOLEAN, Answer(hasText) PROVE OpenOnce' /\ UNCHANGED <<covered, counted>>
  <2>1. UNCHANGED <<openSteps, covered, counted, step, abandoned>> /\ pc' \notin QuietPcs
    BY <1>6 DEF Answer, ghosts, QuietPcs
  <2> QED  BY <2>1, OpensKept
<1>7. CASE Dispatch \/ Unexecuted \/ RecordResult \/ Interrupt
  <2>1. UNCHANGED <<openSteps, covered, counted, step, abandoned>> /\ pc' \notin QuietPcs
    BY <1>7 DEF Dispatch, Unexecuted, RecordResult, Interrupt, ghosts, memory, QuietPcs
  <2> QED  BY <2>1, OpensKept
<1>8. ASSUME NEW c \in CallIds, CloseResult(c) PROVE OpenOnce' /\ UNCHANGED <<covered, counted>>
  <2>1. UNCHANGED <<openSteps, covered, counted, step, abandoned, pc>>
    BY <1>8 DEF CloseResult, loop, ghosts
  <2> QED  BY <2>1, OpensKept
<1>9. CASE \/ \E last \in 1..Len(history) : BeginCompaction(last)
           \/ RefuseCompaction \/ LoseCompaction
  <2>1. UNCHANGED <<openSteps, covered, counted, step, abandoned>> /\ pc \in QuietPcs
    BY <1>9 DEF BeginCompaction, RefuseCompaction, RoundOver, LoseCompaction, memory, ghosts, QuietPcs,
                Between
  <2> QED  BY <2>1, OpensKept
<1>10. CASE EndStep \/ (\E s \in Steps : CloseStep(s)) \/ PopReminder
            \/ \E cut, count \in 1..Len(history) : Undo(cut, count)
  BY <1>10 DEF Shortens
<1> QED
  BY <1>1, <1>2, <1>3, <1>4, <1>5, <1>6, <1>7, <1>8, <1>9, <1>10 DEF Next, Turn, Others

LEMMA CoverageInductive ==
    /\ Init => CoverageInv
    /\ MemoryInv /\ MemoryInv' /\ CoverageInv /\ [Next]_vars => CoverageInv'
<1>1. Init => CoverageInv
  <2> SUFFICES ASSUME Init PROVE CoverageInv
    OBVIOUS
  <2>1. /\ history = <<>> /\ Len(history) = 0 /\ covered = 0 /\ counted = {} /\ DOMAIN openSteps = {}
    BY EmptySeq DEF Init
  <2>2. EntryNumbersUnique /\ CoveredInRange /\ CountedOld /\ OpenOnce /\ NoMessageCountedTwice
    BY <2>1 DEF EntryNumbersUnique, CoveredInRange, CountedOld, OpenOnce, NoMessageCountedTwice
  <2> QED  BY <2>2 DEF CoverageInv
<1>2. ASSUME MemoryInv, MemoryInv', CoverageInv, Next PROVE CoverageInv'
  <2> DEFINE A == \E last \in 1..Len(history) : \E kept \in 0..last : ApplyCompaction(last, kept)
  <2>1. Edits \/ Clear \/ A
    BY <1>2, NextEdits DEF MemoryInv
  <2>2. CASE Clear \/ A
    BY <1>2, <2>2, RewriteKeepsCoverage
  <2>3. ASSUME Edits, ~ (Clear \/ A) PROVE CoverageInv'
    <3>1. EntryNumbersUnique'
      BY <1>2, <2>3, EditKeepsNumbers DEF MemoryInv, CoverageInv
    <3>2. CASE Shortens
      BY <1>2, <2>3, <3>1, <3>2, ShorteningKeepsCoverage
    <3>3. CASE ~ Shortens
      <4>1. OpenOnce' /\ UNCHANGED <<covered, counted>>
        BY <1>2, <2>3, <3>3, RestKeepsOpens DEF CoverageInv
      <4>2. TypeOK /\ TypeOK'
        BY <1>2 DEF MemoryInv
      <4>3. PICK f, g, k : Renumbers(f, g, k)
        BY <2>3, <4>2, EditRenumbers
      <4>4. g = Len(history) /\ g \in Nat /\ k \in Nat /\ Len(history') = g + k /\ nextSeq' = nextSeq + k
        BY <3>3, <4>3 DEF Renumbers
      <4>5. CoveredInRange'
        <5>1. covered <= g /\ covered \in Nat
          BY <1>2, <4>2, <4>4 DEF CoverageInv, CoveredInRange, TypeOK
        <5>2. covered <= g + k
          BY <4>4, <5>1
        <5> QED  BY <4>1, <4>4, <5>2 DEF CoveredInRange
      <4>6. CountedOld'
        <5>1. \A n \in counted : n \in Nat /\ n < nextSeq
          BY <1>2, <4>2 DEF CoverageInv, CountedOld, TypeOK
        <5>2. \A n \in counted : n < nextSeq + k
          <6>1. nextSeq \in Nat
            BY <4>2 DEF TypeOK
          <6> QED  BY <4>4, <5>1, <6>1
        <5> QED  BY <4>1, <4>4, <5>2 DEF CountedOld
      <4>7. NoMessageCountedTwice'
        <5> SUFFICES ASSUME ~ abandoned', NEW i \in (covered' + 1)..Len(history')
                     PROVE  history'[i].seq \notin counted'
          BY DEF NoMessageCountedTwice
        <5>1. ~ abandoned
          <6>1. CASE StepFails \/ EmptyAnswer
            BY <6>1 DEF StepFails, EmptyAnswer
          <6>2. CASE ~ (StepFails \/ EmptyAnswer)
            <7>1. abandoned' = abandoned
              BY <1>2, <2>3, <3>3, <6>2
                 DEF Next, Turn, Others, Shortens, HookResult, HookContext, Prompt, Blocked, RetryTurn,
                     Steer, BeginStep, Answer, ToTools, NoTools, Dispatch, Unexecuted, BatchDone,
                     RecordResult, Inject, ResultsDone, Continue, GiveUp, Interrupt, Closed, CloseResult,
                     Deliver, BeginCompaction, RefuseCompaction, LoseCompaction, Move, AppendUser, ghosts
            <7> QED  BY <7>1
          <6> QED  BY <6>1, <6>2
        <5>2. CountedOld /\ Uncounted
          BY <1>2, <5>1 DEF CoverageInv, NoMessageCountedTwice, Uncounted
        <5>3. i \in 1..Len(history') /\ covered < i
          <6>1. covered \in Nat /\ covered' = covered
            BY <4>1, <4>2 DEF TypeOK
          <6>2. PICK l : l = Len(history')
            BY Zenon
          <6>3. l \in Nat /\ i \in (covered + 1)..l
            BY <4>4, <6>1, <6>2
          <6>4. i \in 1..l /\ covered < i
            BY <6>1, <6>3
          <6> QED  BY <6>2, <6>4
        <5>4. history'[i].seq \notin counted
          BY <2>3, <4>2, <5>2, <5>3, EditKeepsUncounted
        <5> QED  BY <4>1, <5>4
      <4> QED  BY <3>1, <4>1, <4>5, <4>6, <4>7 DEF CoverageInv
    <3> QED  BY <3>2, <3>3
  <2> QED  BY <2>1, <2>2, <2>3
<1>3. ASSUME CoverageInv, UNCHANGED vars PROVE CoverageInv'
  <2>1. UNCHANGED <<history, nextSeq, covered, counted, openSteps, abandoned, pc, step>>
    BY <1>3 DEF vars, loop, memory, ghosts
  <2> QED
    BY <1>3, <2>1 DEF CoverageInv, EntryNumbersUnique, CoveredInRange, CountedOld, OpenOnce,
                      NoMessageCountedTwice
<1> QED  BY <1>1, <1>2, <1>3

(* Entry numbers are never given twice and the coverage point never lies   *)
(* behind the end of the history (where token_count_with_pending would     *)
(* panic), whatever undo, clear, compaction, removals and the ceilings do. *)
THEOREM EntriesStayNumbered == Spec => [](EntryNumbersUnique /\ CoveredInRange)
<1>1. CoverageInv => EntryNumbersUnique /\ CoveredInRange
  BY DEF CoverageInv
<1>2. Init => CoverageInv
  BY CoverageInductive
<1>3. MemoryInv /\ MemoryInv' /\ CoverageInv /\ [Next]_vars => CoverageInv'
  BY CoverageInductive
<1> QED  BY <1>1, <1>2, <1>3, MemoryInductive, PTL DEF Spec

(* No message is in the token count and estimated on top of it, unless a   *)
(* failed step was left open: through every removal, undo, retraction and  *)
(* closure, for any number of messages and steps.                          *)
THEOREM TokensCountedOnce == Spec => []NoMessageCountedTwice
<1>1. CoverageInv => NoMessageCountedTwice
  BY DEF CoverageInv
<1>2. Init => CoverageInv
  BY CoverageInductive
<1>3. MemoryInv /\ MemoryInv' /\ CoverageInv /\ [Next]_vars => CoverageInv'
  BY CoverageInductive
<1> QED  BY <1>1, <1>2, <1>3, MemoryInductive, PTL DEF Spec


-----------------------------------------------------------------------------
(* The order of arrival.  Messages that arrived rise within a list, up to  *)
(* the last arrival, and those of the history come before the deferred.    *)
Rising(s, a) ==
    /\ \A i \in 1..Len(s) : Arrived(s[i]) => s[i].id <= a
    /\ \A i, j \in 1..Len(s) : i < j /\ Arrived(s[i]) /\ Arrived(s[j]) => s[i].id < s[j].id
Before(s, t) ==
    \A i \in 1..Len(s), j \in 1..Len(t) : Arrived(s[i]) /\ Arrived(t[j]) => s[i].id < t[j].id

ArrivalInv == Rising(history, arrivals) /\ Rising(deferred, arrivals) /\ Before(history, deferred)

(* Two such lists, one behind the other. *)
LEMMA JoinRising ==
    ASSUME NEW s \in Seq(Message), NEW t \in Seq(Message), NEW a \in Nat,
           Rising(s, a), Rising(t, a), Before(s, t)
    PROVE  Rising(s \o t, a)
<1> DEFINE r == s \o t
           p == Len(s)
<1>1. /\ Len(r) = p + Len(t) /\ \A i \in 1..p : r[i] = s[i]
      /\ \A i \in 1..Len(t) : r[p + i] = t[i]
      /\ \A j \in 1..Len(r) : j \in 1..p \/ \E i \in 1..Len(t) : j = p + i
  BY JoinIs
<1>2. p \in Nat /\ Len(t) \in Nat
  BY LenProperties
<1> HIDE DEF r, p
<1>3. ASSUME NEW j \in 1..Len(r), Arrived(r[j]) PROVE r[j].id <= a
  <2>1. CASE j \in 1..p
    BY <1>1, <1>3, <2>1 DEF Rising, p
  <2>2. ASSUME NEW y \in 1..Len(t), j = p + y PROVE r[j].id <= a
    BY <1>1, <1>3, <2>2 DEF Rising
  <2> QED  BY <1>1, <2>1, <2>2
<1>4. ASSUME NEW i \in 1..Len(r), NEW j \in 1..Len(r), i < j, Arrived(r[i]), Arrived(r[j])
      PROVE  r[i].id < r[j].id
  <2>1. CASE j \in 1..p
    <3>1. i \in 1..p
      BY <1>2, <1>4, <2>1
    <3> QED  BY <1>1, <1>4, <2>1, <3>1 DEF Rising, p
  <2>2. ASSUME NEW y \in 1..Len(t), j = p + y PROVE r[i].id < r[j].id
    <3>1. CASE i \in 1..p
      BY <1>1, <1>4, <2>2, <3>1 DEF Before, p
    <3>2. ASSUME NEW x \in 1..Len(t), i = p + x PROVE r[i].id < r[j].id
      <4>1. x < y
        BY <1>2, <1>4, <2>2, <3>2
      <4> QED  BY <1>1, <1>4, <2>2, <3>2, <4>1 DEF Rising
    <3> QED  BY <1>1, <3>1, <3>2
  <2> QED  BY <1>1, <2>1, <2>2
<1> QED  BY <1>3, <1>4 DEF Rising, r

(* Taking messages out keeps the order. *)
LEMMA ThinnedRising ==
    ASSUME NEW h \in Seq(Message), NEW g \in Seq(Message), Thinned(h, g), NEW a, Rising(h, a)
    PROVE  Rising(g, a) /\ \A t : Before(h, t) => Before(g, t)
<1>1. PICK f : Thinning(f, h, g)
  BY DEF Thinned
<1>2. \A i \in 1..Len(g) : /\ f[i] \in 1..Len(h) /\ g[i].id = h[f[i]].id
                           /\ Arrived(g[i]) <=> Arrived(h[f[i]])
  BY <1>1 DEF Thinning, Kin, Arrived
<1>3. \A i, j \in 1..Len(g) : i < j => f[i] < f[j]
  BY <1>1 DEF Thinning
<1>4. \A i \in 1..Len(g) : Arrived(g[i]) => g[i].id <= a
  BY <1>2 DEF Rising
<1>5. ASSUME NEW i \in 1..Len(g), NEW j \in 1..Len(g), i < j, Arrived(g[i]), Arrived(g[j])
      PROVE  g[i].id < g[j].id
  <2>1. f[i] \in 1..Len(h) /\ f[j] \in 1..Len(h) /\ f[i] < f[j]
        /\ Arrived(h[f[i]]) /\ Arrived(h[f[j]])
    BY <1>2, <1>3, <1>5
  <2>2. h[f[i]].id < h[f[j]].id
    BY <2>1 DEF Rising
  <2> QED  BY <1>2, <2>2
<1>6. ASSUME NEW t, Before(h, t) PROVE Before(g, t)
  BY <1>2, <1>6 DEF Before
<1> QED  BY <1>4, <1>5, <1>6 DEF Rising

(* Appending messages that come behind, or the first of them. *)
LEMMA GrownRising ==
    ASSUME NEW base \in Seq(Message), NEW msgs \in Seq(Message), NEW k \in 0..Len(msgs),
           Grown(base, msgs, k), NEW a, Rising(base, a), Rising(msgs, a), Before(base, msgs)
    PROVE  Rising(history', a) /\ \A t : Before(base, t) /\ Before(msgs, t) => Before(history', t)
<1>1. PICK b : b = Len(base)
  BY Zenon
<1>2. b \in Nat /\ k \in Nat /\ Len(msgs) \in Nat
  BY <1>1, LenProperties
<1>3. PICK h : h = history'
  BY Zenon
<1>4. /\ \A i \in 1..b : h[i] = base[i]
      /\ \A i \in 1..k : Alike(h[b + i], msgs[i])
      /\ \A j \in 1..Len(h) : j \in 1..b \/ \E i \in 1..k : j = b + i
  BY <1>1, <1>3 DEF Grown
<1>5. \A i \in 1..k : /\ i \in 1..Len(msgs) /\ h[b + i].id = msgs[i].id
                      /\ Arrived(h[b + i]) <=> Arrived(msgs[i])
  BY <1>2, <1>4 DEF Alike, Arrived
<1>6. ASSUME NEW j \in 1..Len(h), Arrived(h[j]) PROVE h[j].id <= a
  <2>1. CASE j \in 1..b
    BY <1>1, <1>4, <1>6, <2>1 DEF Rising
  <2>2. ASSUME NEW y \in 1..k, j = b + y PROVE h[j].id <= a
    BY <1>5, <1>6, <2>2 DEF Rising
  <2> QED  BY <1>4, <2>1, <2>2
<1>7. ASSUME NEW i \in 1..Len(h), NEW j \in 1..Len(h), i < j, Arrived(h[i]), Arrived(h[j])
      PROVE  h[i].id < h[j].id
  <2>1. CASE j \in 1..b
    <3>1. i \in 1..b
      BY <1>2, <1>7, <2>1
    <3> QED  BY <1>1, <1>4, <1>7, <2>1, <3>1 DEF Rising
  <2>2. ASSUME NEW y \in 1..k, j = b + y PROVE h[i].id < h[j].id
    <3>1. CASE i \in 1..b
      BY <1>1, <1>4, <1>5, <1>7, <2>2, <3>1 DEF Before
    <3>2. ASSUME NEW x \in 1..k, i = b + x PROVE h[i].id < h[j].id
      <4>1. x < y
        BY <1>2, <1>7, <2>2, <3>2
      <4> QED  BY <1>5, <1>7, <2>2, <3>2, <4>1 DEF Rising
    <3> QED  BY <1>4, <3>1, <3>2
  <2> QED  BY <1>4, <2>1, <2>2
<1>8. ASSUME NEW t, Before(base, t), Before(msgs, t) PROVE Before(h, t)
  <2> SUFFICES ASSUME NEW i \in 1..Len(h), NEW j \in 1..Len(t), Arrived(h[i]), Arrived(t[j])
               PROVE  h[i].id < t[j].id
    BY DEF Before
  <2>1. CASE i \in 1..b
    BY <1>1, <1>4, <1>8, <2>1 DEF Before
  <2>2. ASSUME NEW x \in 1..k, i = b + x PROVE h[i].id < t[j].id
    BY <1>5, <1>8, <2>2 DEF Before
  <2> QED  BY <1>4, <2>1, <2>2
<1> QED  BY <1>3, <1>6, <1>7, <1>8 DEF Rising


(* A list without arrivals, and one with a single new arrival. *)
LEMMA NoneRising ==
    ASSUME NEW s, \A i \in 1..Len(s) : ~ Arrived(s[i])
    PROVE  /\ \A a : Rising(s, a)
           /\ \A t : Before(s, t) /\ Before(t, s)
BY DEF Rising, Before

LEMMA NewestRising ==
    ASSUME TypeOK, NEW o \in Origins
    PROVE  /\ Rising(<<User(o)>>, arrivals + 1)
           /\ \A s \in Seq(Message) : Rising(s, arrivals) => /\ Before(s, <<User(o)>>)
                                                            /\ Rising(s, arrivals + 1)
<1>1. PICK u : u = <<User(o)>>
  BY Zenon
<1>2. Len(u) = 1 /\ u[1].id = arrivals + 1 /\ arrivals \in Nat
  BY <1>1, NewMessages, OneMessage DEF TypeOK
<1>3. Rising(u, arrivals + 1)
  BY <1>2 DEF Rising
<1>4. ASSUME NEW s \in Seq(Message), Rising(s, arrivals) PROVE Before(s, u) /\ Rising(s, arrivals + 1)
  <2>1. \A i \in 1..Len(s) : s[i].id \in Nat
    BY ElementOfSeq, MessageFields
  <2>2. \A i \in 1..Len(s) : Arrived(s[i]) => s[i].id <= arrivals
    BY <1>4 DEF Rising
  <2>3. \A i \in 1..Len(s) : Arrived(s[i]) => s[i].id <= arrivals + 1 /\ s[i].id < arrivals + 1
    BY <1>2, <2>1, <2>2
  <2>4. Before(s, u)
    <3>1. \A j \in 1..Len(u) : u[j].id = arrivals + 1
      BY <1>2
    <3> QED  BY <2>3, <3>1 DEF Before
  <2> QED  BY <1>4, <2>3, <2>4 DEF Rising
<1> QED  BY <1>1, <1>3, <1>4

LEMMA EditKeepsArrival ==
    ASSUME TypeOK, ArrivalInv, Edits
    PROVE  ArrivalInv'
<1>1. PICK base, msgs, k : Edit(base, msgs, k) /\ Flow(msgs)
  BY DEF Edits
<1>2. /\ base \in Seq(Message) /\ msgs \in Seq(Message) /\ k \in 0..Len(msgs)
      /\ nextSeq \in Nat /\ history' = base \o Numbered(msgs, k) /\ Thinned(history, base)
      /\ history \in Seq(Message) /\ deferred \in Seq(Message) /\ arrivals \in Nat
  BY <1>1 DEF Edit, Grew, TypeOK
<1>3. Grown(base, msgs, k)
  BY <1>2, GrownIs
<1>4. Rising(history, arrivals) /\ Rising(deferred, arrivals) /\ Before(history, deferred)
  BY DEF ArrivalInv
<1>5. Rising(base, arrivals) /\ Before(base, deferred)
  BY <1>2, <1>4, ThinnedRising
<1>6. Len(<<>>) = 0
  BY EmptySeq
<1>7. (\A a : Rising(<<>>, a)) /\ \A t : Before(<<>>, t) /\ Before(t, <<>>)
  BY <1>6, NoneRising
<1>8. CASE Plain(msgs)
  <2>1. \A i \in 1..Len(msgs) : ~ Arrived(msgs[i])
    BY <1>8 DEF Plain, Arrived
  <2>2. (\A a : Rising(msgs, a)) /\ \A t : Before(msgs, t) /\ Before(t, msgs)
    BY <2>1, NoneRising
  <2>3. Rising(history', arrivals) /\ Before(history', deferred)
    <3>1. Rising(msgs, arrivals) /\ Before(base, msgs) /\ Before(msgs, deferred)
      BY <2>2
    <3> QED  BY <1>2, <1>3, <1>5, <3>1, GrownRising
  <2>4. arrivals' = arrivals /\ deferred' \in {deferred, <<>>}
    BY <1>8 DEF Plain
  <2> QED  BY <1>4, <1>7, <2>3, <2>4 DEF ArrivalInv
<1>9. CASE Flush(msgs)
  <2>1. PICK c \in CallIds : msgs = <<Result(c)>> \o deferred
    BY <1>9 DEF Flush
  <2>2. PICK one \in Seq(Message) : one = <<Result(c)>> /\ Len(one) = 1 /\ one[1].role = "tool"
    BY NewMessages, OneMessage
  <2>3. \A i \in 1..Len(one) : ~ Arrived(one[i])
    BY <2>2 DEF Arrived
  <2>4. (\A a : Rising(one, a)) /\ \A t : Before(one, t) /\ Before(t, one)
    BY <2>3, NoneRising
  <2>5. Rising(msgs, arrivals)
    <3>1. Rising(one, arrivals) /\ Before(one, deferred)
      BY <2>4
    <3>2. Rising(one \o deferred, arrivals)
      BY <1>2, <1>4, <3>1, JoinRising
    <3> QED  BY <2>1, <2>2, <3>2
  <2>6. Before(base, msgs)
    <3>1. \A j \in 1..Len(msgs) : j \in 1..1 \/ \E i \in 1..Len(deferred) : j = 1 + i
      BY <1>2, <2>1, <2>2, JoinIs
    <3>2. \A i \in 1..Len(deferred) : msgs[1 + i] = deferred[i]
      BY <1>2, <2>1, <2>2, JoinIs
    <3>3. msgs[1] = one[1]
      <4>1. \A i \in 1..Len(one) : (one \o deferred)[i] = one[i]
        BY <1>2, JoinIs
      <4>2. 1 \in 1..Len(one)
        BY <2>2
      <4> QED  BY <2>1, <2>2, <4>1, <4>2
    <3> SUFFICES ASSUME NEW i \in 1..Len(base), NEW j \in 1..Len(msgs),
                        Arrived(base[i]), Arrived(msgs[j])
                 PROVE  base[i].id < msgs[j].id
      BY DEF Before
    <3>4. j # 1
      BY <2>2, <3>3 DEF Arrived
    <3>5. PICK x \in 1..Len(deferred) : j = 1 + x
      BY <3>1, <3>4
    <3> QED  BY <1>5, <3>2, <3>5 DEF Before
  <2>7. Rising(history', arrivals)
    BY <1>2, <1>3, <1>5, <2>5, <2>6, GrownRising
  <2>8. arrivals' = arrivals /\ deferred' = <<>>
    BY <1>9 DEF Flush
  <2> QED  BY <1>7, <2>7, <2>8 DEF ArrivalInv
<1>10. CASE Arrive(msgs)
  <2>1. PICK o \in Origins : msgs = <<User(o)>>
    BY <1>10 DEF Arrive
  <2>2. Rising(msgs, arrivals + 1) /\ Before(base, msgs) /\ Rising(base, arrivals + 1)
    BY <1>2, <1>5, <2>1, NewestRising
  <2>3. Rising(history', arrivals + 1)
    BY <1>2, <1>3, <2>2, GrownRising
  <2>4. arrivals' = arrivals + 1 /\ deferred' = <<>>
    BY <1>10 DEF Arrive
  <2> QED  BY <1>7, <2>3, <2>4 DEF ArrivalInv
<1>11. CASE Defer(msgs)
  <2>1. PICK o \in Origins : deferred' \in {deferred, Append(deferred, User(o))}
    BY <1>11 DEF Defer
  <2>2. msgs = <<>> /\ arrivals' = arrivals + 1
    BY <1>11 DEF Defer
  <2>3. Rising(base, arrivals + 1)
    BY <1>2, <1>5, NewestRising
  <2>4. Rising(history', arrivals + 1) /\ Before(history', deferred)
    <3>1. Rising(msgs, arrivals + 1) /\ Before(base, msgs) /\ Before(msgs, deferred)
      BY <1>7, <2>2
    <3> QED  BY <1>2, <1>3, <1>5, <2>3, <3>1, GrownRising
  <2>5. Rising(history', arrivals)
    <3>1. Rising(msgs, arrivals) /\ Before(base, msgs)
      BY <1>7, <2>2
    <3> QED  BY <1>2, <1>3, <1>5, <3>1, GrownRising
  <2>6. CASE deferred' = deferred
    <3>1. Rising(deferred, arrivals + 1)
      BY <1>2, <1>4, NewestRising
    <3> QED  BY <2>2, <2>4, <2>6, <3>1 DEF ArrivalInv
  <2>7. CASE deferred' = Append(deferred, User(o))
    <3>1. PICK one \in Seq(Message) : one = <<User(o)>> /\ Len(one) = 1
      BY NewMessages, OneMessage
    <3>2. /\ Rising(one, arrivals + 1) /\ Before(deferred, one) /\ Rising(deferred, arrivals + 1)
          /\ Before(history', one)
      <4>1. history' \in Seq(Message)
        BY <1>3 DEF Grown
      <4> QED  BY <1>2, <1>4, <2>5, <3>1, <4>1, NewestRising
    <3>3. arrivals + 1 \in Nat
      BY <1>2
    <3>4. Rising(deferred \o one, arrivals + 1)
      BY <1>2, <3>2, <3>3, JoinRising
    <3>5. deferred' = deferred \o one
      <4>1. User(o) \in Message
        BY NewMessages
      <4> QED  BY <1>2, <2>7, <3>1, <4>1, AppendIsConcat
    <3>6. Before(history', deferred \o one)
      <4>1. /\ \A i \in 1..Len(deferred) : (deferred \o one)[i] = deferred[i]
            /\ \A i \in 1..Len(one) : (deferred \o one)[Len(deferred) + i] = one[i]
            /\ \A j \in 1..Len(deferred \o one) : j \in 1..Len(deferred) \/ \E i \in 1..Len(one) : j = Len(deferred) + i
        BY <1>2, JoinIs
      <4> QED  BY <2>4, <3>2, <4>1 DEF Before
    <3> QED  BY <2>2, <2>4, <3>4, <3>5, <3>6 DEF ArrivalInv
  <2> QED  BY <2>1, <2>6, <2>7
<1> QED  BY <1>1, <1>8, <1>9, <1>10, <1>11 DEF Flow


(* A compaction keeps the order of what it keeps; its notes do not arrive. *)
LEMMA CompactionKeepsArrival ==
    ASSUME TypeOK, ArrivalInv, NEW last \in 1..Len(history), NEW kept \in 0..last,
           ApplyCompaction(last, kept)
    PROVE  ArrivalInv'
<1>1. PICK f, n : Compacted(f, kept, n, last)
  BY CompactedIs
<1>2. /\ Len(history) \in Nat /\ last \in Nat /\ last <= Len(history) /\ kept \in Nat /\ n \in Nat
  <2>1. Len(history) \in Nat
    BY LenProperties DEF TypeOK
  <2>2. n \in Nat
    BY <1>1 DEF Compacted
  <2> QED  BY <2>1, <2>2
<1> DEFINE Was(j, p) == /\ p \in 1..Len(history) /\ history'[j] = history[p]
                        /\ \/ j \in 1..kept /\ p = f[j] /\ p <= last
                           \/ j = (kept + n) + (p - last) /\ p > last
<1>3. ASSUME NEW j \in 1..Len(history'), Arrived(history'[j])
      PROVE  \E p \in 1..Len(history) : Was(j, p)
  <2>1. CASE j \in 1..kept
    <3>1. f[j] \in 1..last /\ history'[j] = history[f[j]]
      BY <1>1, <2>1 DEF Compacted
    <3>2. f[j] \in 1..Len(history) /\ f[j] <= last
      BY <1>2, <3>1
    <3> QED  BY <2>1, <3>1, <3>2
  <2>2. ASSUME NEW i \in 1..n, j = kept + i PROVE FALSE
    <3>1. Note(history'[kept + i], nextSeq + (i - 1))
      BY <1>1 DEF Compacted
    <3> QED  BY <1>3, <2>2, <3>1 DEF Note, Arrived
  <2>3. ASSUME NEW i \in 1..(Len(history) - last), j = (kept + n) + i
        PROVE  \E p \in 1..Len(history) : Was(j, p)
    <3>1. last + i \in 1..Len(history) /\ history'[j] = history[last + i]
      BY <1>1, <2>3 DEF Compacted
    <3>2. PICK p \in 1..Len(history) : p = last + i
      BY <3>1
    <3>3. p > last /\ j = (kept + n) + (p - last)
      BY <1>2, <2>3, <3>2
    <3> QED  BY <3>1, <3>2, <3>3
  <2>4. \/ j \in 1..kept \/ (\E i \in 1..n : j = kept + i)
        \/ (\E i \in 1..(Len(history) - last) : j = (kept + n) + i)
    BY <1>1 DEF Compacted
  <2> HIDE DEF Was
  <2> QED  BY <2>1, <2>2, <2>3, <2>4
<1>4. ASSUME NEW i \in 1..Len(history'), NEW j \in 1..Len(history'), i < j,
             NEW p \in 1..Len(history), NEW q \in 1..Len(history), Was(i, p), Was(j, q)
      PROVE  p < q
  <2>1. \A x, y \in 1..kept : x < y => f[x] < f[y]
    BY <1>1 DEF Compacted
  <2>2. CASE p <= last /\ q <= last
    BY <1>2, <1>4, <2>1, <2>2
  <2>3. CASE p <= last /\ q > last
    BY <1>2, <2>3
  <2>4. CASE p > last /\ q <= last
    BY <1>2, <1>4, <2>4
  <2>5. CASE p > last /\ q > last
    BY <1>2, <1>4, <2>5
  <2> QED  BY <1>2, <2>2, <2>3, <2>4, <2>5
<1>5. Rising(history', arrivals)
  <2>1. ASSUME NEW j \in 1..Len(history'), Arrived(history'[j]) PROVE history'[j].id <= arrivals
    <3>1. PICK p \in 1..Len(history) : history'[j] = history[p]
      BY <1>3, <2>1
    <3> QED  BY <2>1, <3>1 DEF ArrivalInv, Rising
  <2>2. ASSUME NEW i \in 1..Len(history'), NEW j \in 1..Len(history'), i < j,
               Arrived(history'[i]), Arrived(history'[j])
        PROVE  history'[i].id < history'[j].id
    <3>1. PICK p \in 1..Len(history) : Was(i, p)
      BY <1>3, <2>2
    <3>2. PICK q \in 1..Len(history) : Was(j, q)
      BY <1>3, <2>2
    <3>3. p < q
      BY <1>4, <2>2, <3>1, <3>2
    <3>4. history'[i] = history[p] /\ history'[j] = history[q]
      BY <3>1, <3>2
    <3> HIDE DEF Was
    <3> QED  BY <2>2, <3>3, <3>4 DEF ArrivalInv, Rising
  <2> QED  BY <2>1, <2>2 DEF Rising
<1>6. deferred' = <<>> /\ arrivals' = arrivals
  BY DEF ApplyCompaction, DropExchange, RoundOver
<1>7. Len(<<>>) = 0
  BY EmptySeq
<1>8. Rising(<<>>, arrivals) /\ Before(history', <<>>)
  BY <1>7, NoneRising
<1> QED  BY <1>5, <1>6, <1>8 DEF ArrivalInv

LEMMA ArrivalInductive ==
    /\ Init => ArrivalInv
    /\ MemoryInv /\ ArrivalInv /\ [Next]_vars => ArrivalInv'
<1>0. Len(<<>>) = 0
  BY EmptySeq
<1>1. (\A a : Rising(<<>>, a)) /\ \A t : Before(<<>>, t) /\ Before(t, <<>>)
  BY <1>0, NoneRising
<1>2. Init => ArrivalInv
  BY <1>1 DEF Init, ArrivalInv
<1>3. ASSUME MemoryInv, ArrivalInv, Next PROVE ArrivalInv'
  <2>1. TypeOK /\ Begun /\ ExchangeInv
    BY <1>3 DEF MemoryInv
  <2>2. CASE Edits
    BY <1>3, <2>1, <2>2, EditKeepsArrival
  <2>3. CASE Clear
    <3>1. history' = <<>> /\ deferred' = <<>>
      BY <2>3 DEF Clear, DropExchange
    <3> QED  BY <1>1, <3>1 DEF ArrivalInv
  <2>4. ASSUME NEW last \in 1..Len(history), NEW kept \in 0..last, ApplyCompaction(last, kept)
        PROVE  ArrivalInv'
    BY <1>3, <2>1, <2>4, CompactionKeepsArrival
  <2> QED  BY <1>3, <2>1, <2>2, <2>3, <2>4, NextEdits
<1>4. ASSUME ArrivalInv, UNCHANGED vars PROVE ArrivalInv'
  BY <1>4 DEF ArrivalInv, vars, memory
<1> QED  BY <1>2, <1>3, <1>4

(* Messages keep their order of arrival in the history and the deferred    *)
(* buffer behind it, however many arrive, whichever are refused, undone,   *)
(* compacted or flushed: append_message never lets a message overtake one  *)
(* that is waiting for the exchange to close.                              *)
THEOREM ArrivalOrderKept == Spec => []InArrivalOrder
<1>1. ASSUME MemoryInv, ArrivalInv PROVE InArrivalOrder
  <2>1. history \in Seq(Message) /\ deferred \in Seq(Message) /\ arrivals \in Nat
    BY <1>1 DEF MemoryInv, TypeOK
  <2>2. Rising(history \o deferred, arrivals)
    BY <1>1, <2>1, JoinRising DEF ArrivalInv
  <2> QED  BY <2>2 DEF InArrivalOrder, Rising
<1> QED  BY <1>1, ArrivalInductive, MemoryInductive, PTL DEF Spec


-----------------------------------------------------------------------------
(* The compaction round.  While the summarizer runs, the first k messages  *)
(* are what is left of the snapshot (all of it only if none is missing),   *)
(* and the ones behind them were delivered meanwhile.                      *)
InRound == pc \in {"auto", "manual"}
NewTo(s, m) ==
    /\ m.role = "user" /\ m.origin # "user"
    /\ \A i \in 1..Len(s) : s[i].role = "user" => s[i].id < m.id
Diverged(h, s, k) ==
    /\ k \in 0..Len(h) /\ k <= Len(s)
    /\ k = Len(s) => \A i \in 1..k : h[i] = s[i]
    /\ \A i \in 1..Len(h) : i > k => NewTo(s, h[i])
RoundInv ==
    InRound => /\ \E k : Diverged(history, snapshot, k)
               /\ \A i \in 1..Len(snapshot) : snapshot[i].role = "user" => snapshot[i].id <= arrivals

(* Who acts in a round. *)
LEMMA RoundSteps ==
    ASSUME Next, InRound'
    PROVE  \/ \E last \in 1..Len(history) : BeginCompaction(last)
           \/ /\ InRound /\ UNCHANGED compaction
              /\ Deliver \/ Clear \/ PopReminder \/ \E cut, count : Undo(cut, count)
<1>1. CASE Turn
  <2>1. FALSE
    BY <1>1 DEF Turn, InRound, HookResult, HookContext, Prompt, Blocked, RetryTurn, Steer, BeginStep,
                StepFails, EmptyAnswer, Answer, ToTools, NoTools, Dispatch, Unexecuted, BatchDone,
                RecordResult, Inject, ResultsDone, EndStep, Continue, GiveUp, Interrupt, Closed,
                CloseResult, CloseStep, Move, loop
  <2> QED  BY <2>1
<1>2. CASE Others
  <2>1. CASE Deliver
    BY <2>1 DEF Deliver, AppendUser, InRound, loop
  <2>2. CASE Clear
    BY <2>2 DEF Clear, InRound, loop
  <2>3. CASE PopReminder
    BY <2>3 DEF PopReminder, InRound, loop
  <2>4. ASSUME NEW cut, NEW count, Undo(cut, count)
        PROVE  InRound /\ UNCHANGED compaction
    BY <2>4 DEF Undo, InRound, loop
  <2>5. ASSUME NEW last, NEW kept, ApplyCompaction(last, kept)
        PROVE  FALSE
    BY <2>5 DEF ApplyCompaction, RoundOver, InRound
  <2>6. CASE RefuseCompaction \/ LoseCompaction
    BY <2>6 DEF RefuseCompaction, LoseCompaction, RoundOver, InRound
  <2> QED  BY <1>2, <2>1, <2>2, <2>3, <2>4, <2>5, <2>6 DEF Others
<1> QED  BY <1>1, <1>2 DEF Next

LEMMA RoundBegins ==
    ASSUME TypeOK, ArrivalInv, NEW last, BeginCompaction(last)
    PROVE  RoundInv'
<1>1. history \in Seq(Message) /\ arrivals \in Nat /\ Len(history) \in Nat
  BY LenProperties DEF TypeOK
<1>2. history' = history /\ snapshot' = history /\ arrivals' = arrivals
  BY DEF BeginCompaction, memory
<1>3. \A i \in 1..Len(history) : history[i].role = "user" => history[i].id <= arrivals
  <2> SUFFICES ASSUME NEW i \in 1..Len(history), history[i].role = "user"
               PROVE  history[i].id <= arrivals
    OBVIOUS
  <2>1. history[i].id \in Nat
    BY <1>1, ElementOfSeq, MessageFields
  <2>2. CASE history[i].id > 0
    BY <2>2 DEF ArrivalInv, Rising, Arrived
  <2>3. CASE ~ (history[i].id > 0)
    BY <1>1, <2>1, <2>3
  <2> QED  BY <2>2, <2>3
<1>4. PICK k \in Nat : k = Len(history)
  BY <1>1
<1>5. Diverged(history', snapshot', k)
  <2>1. k \in 0..Len(history') /\ k <= Len(snapshot')
    BY <1>2, <1>4
  <2>2. \A i \in 1..Len(history') : ~ (i > k)
    BY <1>2, <1>4
  <2> QED  BY <1>2, <2>1, <2>2 DEF Diverged
<1> QED  BY <1>2, <1>3, <1>5 DEF RoundInv

(* A message is delivered, or refused at the ceiling. *)
LEMMA RoundDelivers ==
    ASSUME TypeOK, ExchangeInv, RoundInv, InRound, Deliver, UNCHANGED compaction
    PROVE  RoundInv'
<1>1. /\ history \in Seq(Message) /\ arrivals \in Nat /\ Len(history) \in Nat
      /\ nextSeq \in Nat /\ rejected \in BOOLEAN /\ snapshot \in Seq(Message)
  BY LenProperties DEF TypeOK
<1>2. PICK k : Diverged(history, snapshot, k)
  BY DEF RoundInv
<1>3. \A i \in 1..Len(snapshot) : snapshot[i].role = "user" => snapshot[i].id <= arrivals
  BY DEF RoundInv
<1>4. snapshot' = snapshot /\ arrivals' = arrivals + 1 /\ AppendMessage(User("injection"))
  BY DEF Deliver, AppendUser, compaction
<1>5. pendingIds = {}
  BY DEF ExchangeInv, QuietBetweenSteps, InRound
<1>6. PICK m \in Message : /\ m = User("injection") /\ m.role = "user" /\ m.origin = "injection"
                           /\ m.id = arrivals + 1
  <2>1. "injection" \in Origins
    BY DEF Origins
  <2>2. User("injection").origin = "injection"
    BY DEF User
  <2> QED  BY <2>1, <2>2, NewMessages
<1>7. Push(history, <<m>>)
  BY <1>4, <1>5, <1>6 DEF AppendMessage
<1>8. PICK one \in Seq(Message) : one = <<m>> /\ Len(one) = 1 /\ one[1] = m
  BY OneMessage
<1>9. PICK j \in 0..Len(one) : Grew(history, one, j)
  BY <1>1, <1>7, <1>8, PushGrows
<1>10. Grown(history, one, j)
  BY <1>1, <1>9, GrownIs DEF Grew
<1>11. /\ Len(history') = Len(history) + j
       /\ \A i \in 1..Len(history) : history'[i] = history[i]
       /\ \A i \in 1..j : Alike(history'[Len(history) + i], one[i])
       /\ \A i \in 1..Len(history') : i \in 1..Len(history) \/ \E x \in 1..j : i = Len(history) + x
  BY <1>10 DEF Grown
<1>12. j \in Nat /\ \A x \in 1..j : one[x] = m
  BY <1>8
<1>13. ASSUME NEW n, n.role = "user", n.origin # "user", n.id = arrivals + 1 PROVE NewTo(snapshot, n)
  <2>1. \A i \in 1..Len(snapshot) : snapshot[i].id \in Nat
    BY <1>1, ElementOfSeq, MessageFields
  <2>2. \A i \in 1..Len(snapshot) : snapshot[i].role = "user" => snapshot[i].id < arrivals + 1
    BY <1>1, <1>3, <2>1
  <2> QED  BY <1>13, <2>2 DEF NewTo
<1>14. ASSUME NEW i \in 1..Len(history'), i > k PROVE NewTo(snapshot, history'[i])
  <2>1. CASE i \in 1..Len(history)
    BY <1>2, <1>11, <1>14, <2>1 DEF Diverged
  <2>2. ASSUME NEW x \in 1..j, i = Len(history) + x PROVE NewTo(snapshot, history'[i])
    <3>1. Alike(history'[i], m)
      BY <1>11, <1>12, <2>2
    <3>2. history'[i].role = "user" /\ history'[i].origin # "user" /\ history'[i].id = arrivals + 1
      BY <1>6, <3>1 DEF Alike
    <3> QED  BY <1>13, <3>2
  <2> QED  BY <1>11, <2>1, <2>2
<1>15. Diverged(history', snapshot', k)
  <2>1. k \in 0..Len(history') /\ k <= Len(snapshot')
    BY <1>1, <1>2, <1>4, <1>11, <1>12 DEF Diverged
  <2>2. k = Len(snapshot') => \A i \in 1..k : history'[i] = snapshot'[i]
    <3>1. \A i \in 1..k : i \in 1..Len(history)
      BY <1>1, <1>2 DEF Diverged
    <3> QED  BY <1>2, <1>4, <1>11, <3>1 DEF Diverged
  <2>3. \A i \in 1..Len(history') : i > k => NewTo(snapshot', history'[i])
    BY <1>4, <1>14
  <2> QED  BY <2>1, <2>2, <2>3 DEF Diverged
<1>16. \A i \in 1..Len(snapshot) : snapshot[i].role = "user" => snapshot[i].id <= arrivals + 1
  <2>1. \A i \in 1..Len(snapshot) : snapshot[i].id \in Nat
    BY <1>1, ElementOfSeq, MessageFields
  <2> QED  BY <1>1, <1>3, <2>1
<1> QED  BY <1>4, <1>15, <1>16 DEF RoundInv


(* Undo, clear and a retracted reminder leave a part of the snapshot. *)
LEMMA RoundShrinks ==
    ASSUME TypeOK, RoundInv, InRound, UNCHANGED compaction,
           Clear \/ PopReminder \/ \E cut, count : Undo(cut, count)
    PROVE  RoundInv'
<1>1. history \in Seq(Message) /\ Len(history) \in Nat /\ Len(snapshot) \in Nat
  BY LenProperties DEF TypeOK
<1>2. PICK k : Diverged(history, snapshot, k)
  BY DEF RoundInv
<1>3. snapshot' = snapshot /\ arrivals' = arrivals
  BY DEF compaction, Clear, PopReminder, Undo
<1>4. k \in Nat /\ k <= Len(history) /\ k <= Len(snapshot)
  BY <1>1, <1>2 DEF Diverged
<1> SUFFICES \E j : Diverged(history', snapshot, j)
  BY <1>3 DEF RoundInv
<1>5. ASSUME NEW j \in Nat, Len(history') = j, j < Len(snapshot)
      PROVE  Diverged(history', snapshot, j)
  <2>1. j \in 0..Len(history') /\ j <= Len(snapshot) /\ j # Len(snapshot)
    BY <1>1, <1>5
  <2>2. \A i \in 1..Len(history') : ~ (i > j)
    BY <1>5
  <2> QED  BY <2>1, <2>2 DEF Diverged
<1>6. CASE Clear
  <2>1. history' = <<>> /\ Len(<<>>) = 0
    BY <1>6, EmptySeq DEF Clear
  <2>2. CASE Len(snapshot) # 0
    BY <1>1, <1>5, <2>1, <2>2
  <2>3. CASE Len(snapshot) = 0
    <3>1. Diverged(history', snapshot, 0)
      BY <2>1, <2>3 DEF Diverged
    <3> QED  BY <3>1
  <2> QED  BY <2>2, <2>3
<1>7. CASE PopReminder
  <2>1. Len(history) # 0 /\ Slice(0, Len(history) - 1)
    BY <1>7, PopIs
  <2>2. PICK b \in Nat : b = Len(history) - 1
    BY <1>1, <2>1
  <2>3. Len(history') = b /\ \A i \in 1..b : i \in 1..Len(history) /\ history'[i] = history[i]
    BY <2>1, <2>2 DEF Slice
  <2>4. CASE k = Len(history)
    <3>1. b < Len(snapshot)
      BY <1>1, <1>4, <2>2, <2>4
    <3>2. Diverged(history', snapshot, b)
      BY <1>5, <2>3, <3>1
    <3> QED  BY <3>2
  <2>5. CASE k # Len(history)
    <3>1. k <= b
      BY <1>1, <1>4, <2>2, <2>5
    <3>2. \A i \in 1..k : i \in 1..b
      BY <1>4, <3>1
    <3>3. k \in 0..Len(history')
      BY <1>4, <2>3, <3>1
    <3> QED  BY <1>2, <1>4, <2>3, <3>2, <3>3 DEF Diverged
  <2> QED  BY <2>4, <2>5
<1>8. ASSUME NEW cut, NEW count, Undo(cut, count) PROVE \E j : Diverged(history', snapshot, j)
  <2>1. cut \in 1..Len(history) /\ history[cut].origin = "user"
    BY <1>8, UndoIs
  <2>2. PICK a \in Nat : Slice(a, cut - 1)
    BY <1>8, UndoIs
  <2>3. cut <= k
    BY <1>1, <1>2, <1>4, <2>1 DEF Diverged, NewTo
  <2>4. PICK j \in Nat : j = (cut - 1) - a /\ j < k
    BY <1>1, <1>4, <2>1, <2>2, <2>3 DEF Slice
  <2>5. Len(history') = j /\ j < Len(snapshot)
    BY <1>1, <1>4, <2>2, <2>4 DEF Slice
  <2> QED  BY <1>5, <2>5
<1> QED  BY <1>6, <1>7, <1>8

LEMMA RoundInductive ==
    /\ Init => RoundInv
    /\ MemoryInv /\ ArrivalInv /\ RoundInv /\ [Next]_vars => RoundInv'
<1>1. Init => RoundInv
  BY DEF Init, RoundInv, InRound
<1>2. ASSUME MemoryInv, ArrivalInv, RoundInv, Next PROVE RoundInv'
  <2>1. TypeOK /\ ExchangeInv
    BY <1>2 DEF MemoryInv
  <2>2. CASE ~ InRound'
    BY <2>2 DEF RoundInv
  <2>3. CASE InRound'
    <3>1. \/ \E last \in 1..Len(history) : BeginCompaction(last)
          \/ /\ InRound /\ UNCHANGED compaction
             /\ Deliver \/ Clear \/ PopReminder \/ \E cut, count : Undo(cut, count)
      BY <1>2, <2>3, RoundSteps
    <3>2. CASE \E last \in 1..Len(history) : BeginCompaction(last)
      BY <1>2, <2>1, <3>2, RoundBegins
    <3>3. CASE InRound /\ UNCHANGED compaction /\ Deliver
      BY <1>2, <2>1, <3>3, RoundDelivers
    <3>4. CASE InRound /\ UNCHANGED compaction
               /\ (Clear \/ PopReminder \/ \E cut, count : Undo(cut, count))
      BY <1>2, <2>1, <3>4, RoundShrinks
    <3> QED  BY <3>1, <3>2, <3>3, <3>4
  <2> QED  BY <2>2, <2>3
<1>3. ASSUME RoundInv, UNCHANGED vars PROVE RoundInv'
  BY <1>3 DEF RoundInv, InRound, vars, loop, memory, compaction
<1> QED  BY <1>1, <1>2, <1>3

(* What is applied was planned on this very history: prefix_race_check     *)
(* lets nothing else pass, although it does not compare entry numbers.     *)
LEMMA AppliedToSnapshot ==
    ASSUME TypeOK, RoundInv, NEW last, NEW kept, ApplyCompaction(last, kept)
    PROVE  /\ Len(history) = Len(snapshot) /\ last = planned
           /\ \A i \in 1..Len(history) : history[i] = snapshot[i]
<1>1. /\ history \in Seq(Message) /\ Len(history) \in Nat
      /\ snapshot \in Seq(Message) /\ Len(snapshot) \in Nat
  BY LenProperties DEF TypeOK
<1>2. PrefixRaceCheck /\ LiveCut(last) /\ InRound
  BY DEF ApplyCompaction, InRound
<1>3. PICK k : Diverged(history, snapshot, k)
  BY <1>2 DEF RoundInv
<1>4. k \in Nat /\ k <= Len(history) /\ k <= Len(snapshot) /\ Len(snapshot) <= Len(history)
  BY <1>1, <1>2, <1>3 DEF Diverged, PrefixRaceCheck
<1>5. k = Len(snapshot)
  <2> SUFFICES ASSUME k # Len(snapshot) PROVE FALSE
    OBVIOUS
  <2>1. PICK i \in 1..Len(snapshot) : i = k + 1
    BY <1>1, <1>4
  <2>2. i \in 1..Len(history) /\ i > k
    BY <1>1, <1>4, <2>1
  <2>3. NewTo(snapshot, history[i])
    BY <1>3, <2>2 DEF Diverged
  <2>4. SameMessage(snapshot[i], history[i])
    BY <1>2 DEF PrefixRaceCheck
  <2>5. snapshot[i] \in Message /\ history[i] \in Message
    BY <1>1, <2>2, ElementOfSeq
  <2>6. snapshot[i].role = history[i].role /\ snapshot[i].id = history[i].id
    BY <2>4, <2>5 DEF SameMessage, Message
  <2>7. snapshot[i].id < snapshot[i].id /\ snapshot[i].id \in Nat
    BY <2>3, <2>5, <2>6, MessageFields DEF NewTo
  <2> QED  BY <2>7
<1>6. Len(history) = k
  <2> SUFFICES ASSUME Len(history) # k PROVE FALSE
    OBVIOUS
  <2>1. PICK i \in 1..Len(history) : i = k + 1
    BY <1>1, <1>4
  <2>2. i \in (Len(snapshot) + 1)..Len(history) /\ i > k
    BY <1>1, <1>4, <1>5, <2>1
  <2>3. NewTo(snapshot, history[i]) /\ history[i].origin = "user"
    BY <1>2, <1>3, <2>2 DEF Diverged, PrefixRaceCheck
  <2> QED  BY <2>3 DEF NewTo
<1>7. last = planned
  BY <1>2, <1>5, <1>6 DEF LiveCut
<1> QED  BY <1>3, <1>5, <1>6, <1>7 DEF Diverged

(* Only an applied compaction ends a round with the history changed. *)
LEMMA AppliedBy ==
    ASSUME Next, Applied
    PROVE  \E last \in 1..Len(history) : \E kept \in 0..last : ApplyCompaction(last, kept)
<1>1. snapshot # <<>> /\ snapshot' = <<>> /\ history' # history
  BY DEF Applied
<1>2. CASE Turn
  <2>1. UNCHANGED snapshot \/ UNCHANGED history
    BY <1>2 DEF Turn, HookResult, HookContext, Prompt, Blocked, RetryTurn, Steer, BeginStep,
                StepFails, EmptyAnswer, Answer, ToTools, NoTools, Dispatch, Unexecuted, BatchDone,
                RecordResult, Inject, ResultsDone, EndStep, Continue, GiveUp, Interrupt, Closed,
                CloseResult, CloseStep, Move, AppendUser, compaction, memory
  <2> QED  BY <1>1, <2>1
<1>3. CASE Deliver \/ Clear \/ PopReminder \/ \E cut, count \in 1..Len(history) : Undo(cut, count)
  <2>1. UNCHANGED snapshot
    BY <1>3 DEF Deliver, AppendUser, Clear, PopReminder, Undo, compaction
  <2> QED  BY <1>1, <2>1
<1>4. CASE \/ \E last \in 1..Len(history) : BeginCompaction(last)
           \/ RefuseCompaction \/ LoseCompaction
  <2>1. UNCHANGED history
    BY <1>4 DEF BeginCompaction, RefuseCompaction, LoseCompaction, memory
  <2> QED  BY <1>1, <2>1
<1> QED  BY <1>2, <1>3, <1>4 DEF Next, Others

(* What an applied compaction takes out of the history was in the prefix   *)
(* handed to its summarizer, whatever was delivered, undone, cleared or    *)
(* retracted while the summarizer ran with the lock released.              *)
THEOREM NothingDroppedUnsummarized == Spec => SummaryCoversDropped
<1>1. ASSUME MemoryInv, RoundInv, Next, Applied
      PROVE  Entries(history) \ Entries(history') \subseteq EntriesOf(snapshot, 1, planned)
  <2>1. TypeOK
    BY <1>1 DEF MemoryInv
  <2>2. PICK last \in 1..Len(history) : \E kept \in 0..last : ApplyCompaction(last, kept)
    BY <1>1, AppliedBy
  <2>3. PICK kept \in 0..last : ApplyCompaction(last, kept)
    BY <2>2
  <2>4. last = planned /\ \A i \in 1..Len(history) : history[i] = snapshot[i]
    BY <1>1, <2>1, <2>3, AppliedToSnapshot
  <2>5. PICK f, n : Compacted(f, kept, n, last)
    BY <2>1, <2>3, CompactedIs
  <2>6. Len(history) \in Nat /\ last \in Nat
    BY <2>1, LenProperties DEF TypeOK
  <2>7. ASSUME NEW p \in 1..Len(history), p > last PROVE history[p].seq \in Entries(history')
    <3>1. PICK i \in 1..(Len(history) - last) : p = last + i
      <4>1. p - last \in 1..(Len(history) - last) /\ p = last + (p - last)
        BY <2>6, <2>7
      <4> QED  BY <4>1
    <3>2. (kept + n) + i \in 1..Len(history') /\ history'[(kept + n) + i] = history[last + i]
      BY <2>5 DEF Compacted
    <3> QED  BY <3>1, <3>2 DEF Entries
  <2> SUFFICES ASSUME NEW p \in 1..Len(history), history[p].seq \notin Entries(history')
               PROVE  history[p].seq \in EntriesOf(snapshot, 1, planned)
    BY DEF Entries
  <2>8. p \in 1..planned /\ history[p] = snapshot[p]
    BY <2>4, <2>6, <2>7
  <2> QED  BY <2>8 DEF EntriesOf
<1>2. MemoryInv /\ RoundInv /\ [Next]_vars
        => [Applied => Entries(history) \ Entries(history') \subseteq EntriesOf(snapshot, 1, planned)]_vars
  BY <1>1
<1> QED  BY <1>2, MemoryInductive, ArrivalInductive, RoundInductive, PTL DEF Spec, SummaryCoversDropped


-----------------------------------------------------------------------------
(* Calls and results.  A call is settled by a result behind it, or still   *)
(* awaited, and no real user input lies in between: that is where an undo  *)
(* may cut.                                                                *)
Calm(h, a, b) == \A x \in a..b : h[x].origin # "user"
Settled(h, i, c) == \E j \in 1..Len(h) : i < j /\ h[j].call = c /\ Calm(h, i, j)
Awaited(h, P, i, c) == c \in P /\ Calm(h, i, Len(h))
Exchanged(h, P) == \A i \in 1..Len(h) : \A c \in h[i].calls : Settled(h, i, c) \/ Awaited(h, P, i, c)

(* Only an assistant of the model makes calls, only a result answers one,  *)
(* and it has content; what is deferred is neither, nor real user input.   *)
Shape(m) ==
    /\ m.calls # {} => m.origin = "none"
    /\ m.call # NoCall => m.origin = "none" /\ m.content
Aside(m) == m.calls = {} /\ m.call = NoCall /\ m.origin # "user"
Shapes ==
    /\ \A i \in 1..Len(history) : Shape(history[i])
    /\ \A i \in 1..Len(deferred) : Aside(deferred[i])

(* In a step, its message is in place, with no real user input behind it.  *)
StepPlace ==
    InStep /\ step \in DOMAIN openSteps =>
      /\ openSteps[step] \in 1..Len(history)
      /\ history[openSteps[step]].origin = "none"
      /\ Calm(history, openSteps[step], Len(history))

CallsInv == Shapes /\ StepPlace /\ (~ rejected => Exchanged(history, pendingIds))

LEMMA NoCallIsNone ==
    ASSUME NEW m \in Message, NEW c \in m.calls
    PROVE  c \in CallIds /\ c # NoCall
<1>1. c \in CallIds
  BY MessageFields
<1>2. NoCall \notin CallIds
  BY MemoryAssumption DEF NoCall, CallIds, Steps
<1> QED  BY <1>1, <1>2

(* A message gets a call that is awaited from now on, or none does. *)
LEMMA CallsAdded ==
    ASSUME NEW h \in Seq(Message), NEW g \in Seq(Message), Len(g) = Len(h), NEW P, NEW Q, P \subseteq Q,
           \A i \in 1..Len(h) : Kin(g[i], h[i]),
           \A i \in 1..Len(h) : \A c \in g[i].calls :
             c \in h[i].calls \/ (c \in Q /\ Calm(h, i, Len(h))),
           Exchanged(h, P)
    PROVE  Exchanged(g, Q)
<1>0. Len(h) \in Nat
  BY LenProperties
<1>1. \A a, b \in 1..Len(h) : Calm(h, a, b) => Calm(g, a, b)
  <2> SUFFICES ASSUME NEW a \in 1..Len(h), NEW b \in 1..Len(h), Calm(h, a, b), NEW x \in a..b
               PROVE  g[x].origin # "user"
    BY DEF Calm
  <2>1. x \in 1..Len(h)
    BY <1>0
  <2> QED  BY <2>1 DEF Calm, Kin
<1> SUFFICES ASSUME NEW i \in 1..Len(h), NEW c \in g[i].calls
             PROVE  Settled(g, i, c) \/ Awaited(g, Q, i, c)
  BY DEF Exchanged
<1>2. Len(h) \in 1..Len(h)
  BY <1>0
<1>3. CASE c \in Q /\ Calm(h, i, Len(h))
  BY <1>1, <1>2, <1>3 DEF Awaited
<1>4. CASE Settled(h, i, c)
  BY <1>1, <1>4 DEF Settled, Kin
<1>5. CASE Awaited(h, P, i, c)
  BY <1>1, <1>2, <1>5 DEF Awaited
<1> QED  BY <1>3, <1>4, <1>5 DEF Exchanged

(* Messages that make no calls are appended: they settle what is no longer *)
(* awaited, and no real user input comes in while something is.            *)
LEMMA CallsPushed ==
    ASSUME NEW base \in Seq(Message), NEW msgs \in Seq(Message), NEW k, k = Len(msgs),
           Grown(base, msgs, k), NEW P, NEW Q,
           \A i \in 1..k : msgs[i].calls = {},
           P = {} \/ \A i \in 1..k : msgs[i].origin # "user",
           \A c \in P \ Q : \E i \in 1..k : msgs[i].call = c,
           Exchanged(base, P)
    PROVE  Exchanged(history', Q)
<1>1. PICK b : b = Len(base)
  BY Zenon
<1>2. b \in Nat /\ k \in Nat
  BY <1>1, LenProperties
<1>3. PICK h : h = history'
  BY Zenon
<1>4. /\ Len(h) = b + k
      /\ \A i \in 1..b : i \in 1..Len(h) /\ h[i] = base[i]
      /\ \A i \in 1..k : b + i \in 1..Len(h) /\ Alike(h[b + i], msgs[i])
      /\ \A j \in 1..Len(h) : j \in 1..b \/ \E i \in 1..k : j = b + i
  BY <1>1, <1>3 DEF Grown
<1>5. ASSUME NEW i \in 1..b, NEW j \in 1..b, Calm(base, i, j) PROVE Calm(h, i, j)
  <2> SUFFICES ASSUME NEW x \in i..j PROVE h[x].origin # "user"
    BY DEF Calm
  <2>1. x \in 1..b
    BY <1>2
  <2> QED  BY <1>4, <1>5, <2>1 DEF Calm
<1>6. ASSUME NEW i \in 1..b, Calm(base, i, b), \A y \in 1..k : msgs[y].origin # "user",
             NEW j \in 1..Len(h)
      PROVE  Calm(h, i, j)
  <2> SUFFICES ASSUME NEW x \in i..j PROVE h[x].origin # "user"
    BY DEF Calm
  <2>1. x \in 1..Len(h) /\ x >= i
    BY <1>2, <1>4
  <2>2. CASE x \in 1..b
    <3>1. x \in i..b
      BY <1>2, <2>1, <2>2
    <3> QED  BY <1>4, <1>6, <2>2, <3>1 DEF Calm
  <2>3. ASSUME NEW y \in 1..k, x = b + y PROVE h[x].origin # "user"
    BY <1>4, <1>6, <2>3 DEF Alike
  <2> QED  BY <1>4, <2>1, <2>2, <2>3
<1> SUFFICES ASSUME NEW i \in 1..Len(h), NEW c \in h[i].calls
             PROVE  Settled(h, i, c) \/ Awaited(h, Q, i, c)
  BY <1>3 DEF Exchanged
<1>7. i \in 1..b /\ c \in base[i].calls
  <2>1. ASSUME NEW y \in 1..k, i = b + y PROVE FALSE
    BY <1>4, <2>1 DEF Alike
  <2> QED  BY <1>4, <2>1
<1>8. CASE Settled(base, i, c)
  <2>1. PICK j \in 1..b : i < j /\ base[j].call = c /\ Calm(base, i, j)
    BY <1>1, <1>8 DEF Settled
  <2>2. Calm(h, i, j) /\ j \in 1..Len(h) /\ h[j].call = c
    BY <1>4, <1>5, <1>7, <2>1
  <2> QED  BY <2>1, <2>2 DEF Settled
<1>9. CASE Awaited(base, P, i, c)
  <2>1. c \in P /\ Calm(base, i, b)
    BY <1>1, <1>9 DEF Awaited
  <2>2. \A y \in 1..k : msgs[y].origin # "user"
    BY <2>1
  <2>3. \A j \in 1..Len(h) : Calm(h, i, j)
    BY <1>6, <1>7, <2>1, <2>2
  <2>4. CASE c \in Q
    <3>1. Len(h) \in 1..Len(h)
      BY <1>2, <1>4, <1>7
    <3> QED  BY <2>3, <2>4, <3>1 DEF Awaited
  <2>5. CASE c \notin Q
    <3>1. PICK y \in 1..k : msgs[y].call = c
      BY <2>1, <2>5
    <3>2. b + y \in 1..Len(h) /\ h[b + y].call = c /\ i < b + y
      BY <1>2, <1>4, <1>7, <3>1 DEF Alike
    <3> QED  BY <2>3, <3>2 DEF Settled
  <2> QED  BY <2>4, <2>5
<1> QED  BY <1>1, <1>7, <1>8, <1>9 DEF Exchanged

(* Messages are taken out.  A result goes only with its call. *)
LEMMA CallsThinned ==
    ASSUME NEW h \in Seq(Message), NEW g \in Seq(Message), NEW P, NEW Q,
           NEW f \in [1..Len(g) -> 1..Len(h)],
           \A i, j \in 1..Len(g) : i < j => f[i] < f[j],
           \A i \in 1..Len(g) : /\ g[i].origin = h[f[i]].origin /\ g[i].call = h[f[i]].call
                                /\ g[i].calls = h[f[i]].calls,
           \A i \in 1..Len(g), j \in 1..Len(h) :
             f[i] < j /\ h[j].call # NoCall /\ Calm(h, f[i], j) => \E x \in 1..Len(g) : f[x] = j,
           \A i \in 1..Len(g) : Calm(h, f[i], Len(h)) => P \subseteq Q,
           Exchanged(h, P)
    PROVE  Exchanged(g, Q)
<1>0. Len(h) \in Nat /\ Len(g) \in Nat
  BY LenProperties
<1> SUFFICES ASSUME NEW i \in 1..Len(g), NEW c \in g[i].calls
             PROVE  Settled(g, i, c) \/ Awaited(g, Q, i, c)
  BY DEF Exchanged
<1>1. f[i] \in 1..Len(h) /\ c \in h[f[i]].calls
  OBVIOUS
<1>2. c # NoCall
  BY ElementOfSeq, NoCallIsNone
<1>3. ASSUME NEW j \in 1..Len(g), NEW b \in 1..Len(h), f[j] <= b, Calm(h, f[i], b)
      PROVE  Calm(g, i, j)
  <2> SUFFICES ASSUME NEW x \in i..j PROVE g[x].origin # "user"
    BY DEF Calm
  <2>1. x \in 1..Len(g) /\ i <= x /\ x <= j
    BY <1>0
  <2>2. f[x] \in 1..Len(h) /\ f[j] \in 1..Len(h) /\ f[i] <= f[x] /\ f[x] <= f[j]
    <3>1. x = i \/ i < x
      BY <1>0, <2>1
    <3>2. x = j \/ x < j
      BY <1>0, <2>1
    <3>3. f[x] \in 1..Len(h) /\ f[j] \in 1..Len(h) /\ f[i] \in 1..Len(h)
      BY <2>1
    <3>4. (i < x => f[i] < f[x]) /\ (x < j => f[x] < f[j])
      BY <2>1
    <3> QED  BY <1>0, <3>1, <3>2, <3>3, <3>4
  <2>3. f[x] \in f[i]..b
    BY <1>0, <1>1, <1>3, <2>2
  <2>4. h[f[x]].origin # "user"
    BY <1>3, <2>3 DEF Calm
  <2> QED  BY <2>1, <2>4
<1>4. CASE Settled(h, f[i], c)
  <2>1. PICK j \in 1..Len(h) : f[i] < j /\ h[j].call = c /\ Calm(h, f[i], j)
    BY <1>4 DEF Settled
  <2>2. PICK x \in 1..Len(g) : f[x] = j
    BY <1>2, <2>1
  <2>3. i < x
    <3>1. f[i] \in Nat /\ j \in Nat
      BY <1>1
    <3>2. x # i
      BY <2>1, <2>2, <3>1
    <3>3. ~ (x < i)
      BY <2>1, <2>2, <3>1
    <3> QED  BY <1>0, <3>2, <3>3
  <2>4. Calm(g, i, x)
    BY <1>3, <2>1, <2>2
  <2> QED  BY <2>1, <2>2, <2>3, <2>4 DEF Settled
<1>5. CASE Awaited(h, P, f[i], c)
  <2>1. c \in Q /\ Calm(h, f[i], Len(h))
    BY <1>5 DEF Awaited
  <2>2. Len(g) \in 1..Len(g) /\ Len(h) \in 1..Len(h)
    BY <1>0, <1>1
  <2>3. f[Len(g)] <= Len(h)
    BY <1>0, <2>2
  <2> QED  BY <1>3, <2>1, <2>2, <2>3 DEF Awaited
<1> QED  BY <1>1, <1>4, <1>5 DEF Exchanged


(* The step's message stays in place while nothing is taken out and no     *)
(* real user input comes in.                                               *)
LEMMA PlaceKept ==
    ASSUME TypeOK, StepPlace, step' = step, openSteps' = openSteps, InStep' => InStep,
           Len(history') \in Nat, Len(history) <= Len(history'),
           \A i \in 1..Len(history) : Kin(history'[i], history[i]),
           \A i \in 1..Len(history') : i > Len(history) => history'[i].origin # "user"
    PROVE  StepPlace'
<1> SUFFICES ASSUME InStep, step \in DOMAIN openSteps
             PROVE  /\ openSteps[step] \in 1..Len(history')
                    /\ history'[openSteps[step]].origin = "none"
                    /\ Calm(history', openSteps[step], Len(history'))
  BY DEF StepPlace
<1>0. Len(history) \in Nat
  BY LenProperties DEF TypeOK
<1>1. PICK p : p = openSteps[step]
  BY Zenon
<1>2. p \in 1..Len(history) /\ history[p].origin = "none" /\ Calm(history, p, Len(history))
  BY <1>1 DEF StepPlace
<1>3. p \in 1..Len(history') /\ history'[p].origin = "none"
  BY <1>0, <1>2 DEF Kin
<1>4. ASSUME NEW x \in p..Len(history') PROVE history'[x].origin # "user"
  <2>1. x \in 1..Len(history') /\ x >= p
    BY <1>0, <1>2
  <2>2. CASE x > Len(history)
    BY <2>1, <2>2
  <2>3. CASE ~ (x > Len(history))
    <3>1. x \in 1..Len(history) /\ x \in p..Len(history)
      BY <1>0, <2>1, <2>3
    <3> QED  BY <1>2, <3>1 DEF Calm, Kin
  <2> QED  BY <2>2, <2>3
<1> QED  BY <1>1, <1>3, <1>4 DEF Calm

LEMMA PlaceGrown ==
    ASSUME TypeOK, StepPlace, step' = step, openSteps' = openSteps, InStep' => InStep,
           NEW base \in Seq(Message), NEW msgs \in Seq(Message), NEW k \in 0..Len(msgs),
           Len(base) = Len(history), \A i \in 1..Len(history) : Kin(base[i], history[i]),
           Grown(base, msgs, k), \A i \in 1..k : msgs[i].origin # "user"
    PROVE  StepPlace'
<1>0. Len(history) \in Nat /\ k \in Nat
  <2>1. Len(msgs) \in Nat
    BY LenProperties
  <2> QED  BY <2>1, LenProperties DEF TypeOK
<1>1. /\ Len(history') = Len(history) + k
      /\ \A i \in 1..Len(history) : history'[i] = base[i]
      /\ \A i \in 1..k : Alike(history'[Len(history) + i], msgs[i])
      /\ \A j \in 1..Len(history') : j \in 1..Len(history) \/ \E i \in 1..k : j = Len(history) + i
  BY DEF Grown
<1>2. Len(history') \in Nat /\ Len(history) <= Len(history')
  BY <1>0, <1>1
<1>3. \A i \in 1..Len(history) : Kin(history'[i], history[i])
  BY <1>1
<1>4. ASSUME NEW j \in 1..Len(history'), j > Len(history) PROVE history'[j].origin # "user"
  <2>1. j \notin 1..Len(history)
    BY <1>0, <1>4
  <2>2. PICK i \in 1..k : j = Len(history) + i
    BY <1>1, <2>1
  <2> QED  BY <1>1, <2>2 DEF Alike
<1> QED  BY <1>2, <1>3, <1>4, PlaceKept

LEMMA ShapesGrown ==
    ASSUME NEW base \in Seq(Message), NEW msgs \in Seq(Message), NEW k \in 0..Len(msgs),
           Grown(base, msgs, k), \A i \in 1..Len(base) : Shape(base[i]), \A i \in 1..k : Shape(msgs[i])
    PROVE  \A j \in 1..Len(history') : Shape(history'[j])
<1> SUFFICES ASSUME NEW j \in 1..Len(history') PROVE Shape(history'[j])
  OBVIOUS
<1>1. CASE j \in 1..Len(base)
  BY <1>1 DEF Grown
<1>2. ASSUME NEW i \in 1..k, j = Len(base) + i PROVE Shape(history'[j])
  <2>1. Alike(history'[j], msgs[i]) /\ Shape(msgs[i])
    BY <1>2 DEF Grown
  <2> QED  BY <2>1 DEF Alike, Shape
<1> QED  BY <1>1, <1>2 DEF Grown

(* The memory is not touched. *)
LEMMA CallsUntouched ==
    ASSUME TypeOK, CallsInv, UNCHANGED <<history, deferred, pendingIds, rejected, openSteps, step>>,
           InStep' => InStep
    PROVE  CallsInv'
<1>1. StepPlace'
  BY DEF CallsInv, StepPlace
<1> QED  BY <1>1 DEF CallsInv, Shapes

(* append_message, of a message that neither calls nor answers.  Real user *)
(* input comes in only outside the steps, when nothing is awaited.         *)
LEMMA AppendKeepsCalls ==
    ASSUME TypeOK, ExchangeInv, CallsInv, NEW m \in Message, AppendMessage(m),
           m.calls = {}, m.call = NoCall,
           UNCHANGED <<pendingIds, openSteps, step>>, InStep' => InStep,
           m.origin = "user" => pendingIds = {} /\ ~ InStep'
    PROVE  CallsInv'
<1>1. /\ history \in Seq(Message) /\ deferred \in Seq(Message) /\ nextSeq \in Nat
      /\ Len(history) \in Nat /\ Len(deferred) \in Nat
  BY LenProperties DEF TypeOK
<1>2. Shapes /\ StepPlace /\ (~ rejected => Exchanged(history, pendingIds))
  BY DEF CallsInv
<1>3. DeferredOnlyWhileOpen
  BY DEF ExchangeInv
<1>4. CASE pendingIds # {}
  <2>1. history' = history /\ deferred' \in {deferred, Append(deferred, m)} /\ Edit(history, <<>>, 0)
    BY <1>3, <1>4, AppendEdit
  <2>2. ~ rejected' => ~ rejected
    BY <2>1 DEF Edit, Grew
  <2>3. \A i \in 1..Len(deferred') : Aside(deferred'[i])
    <3>1. CASE deferred' = deferred
      BY <1>2, <3>1 DEF Shapes
    <3>2. CASE deferred' = Append(deferred, m)
      <4>1. /\ Len(deferred') = Len(deferred) + 1 /\ deferred'[Len(deferred) + 1] = m
            /\ \A i \in 1..Len(deferred) : deferred'[i] = deferred[i]
        BY <1>1, <3>2, AppendProperties
      <4>2. Aside(m)
        BY <1>4 DEF Aside
      <4> QED  BY <1>1, <1>2, <4>1, <4>2 DEF Shapes
    <3> QED  BY <2>1, <3>1, <3>2
  <2>4. StepPlace'
    BY <1>2, <2>1 DEF StepPlace
  <2>5. ~ rejected' => Exchanged(history', pendingIds')
    BY <1>2, <2>1, <2>2
  <2> QED  BY <1>2, <2>1, <2>3, <2>4, <2>5 DEF CallsInv, Shapes
<1>5. CASE pendingIds = {}
  <2>1. deferred' = deferred /\ \E k : Edit(history, <<m>>, k)
    BY <1>3, <1>5, AppendEdit
  <2>2. PICK one \in Seq(Message) : one = <<m>> /\ Len(one) = 1 /\ one[1] = m
    BY OneMessage
  <2>3. PICK k : Edit(history, one, k)
    BY <2>1, <2>2
  <2>4. k \in 0..Len(one) /\ history' = history \o Numbered(one, k)
        /\ (~ rejected' => ~ rejected /\ k = Len(one))
    BY <2>3 DEF Edit, Grew
  <2>5. Grown(history, one, k)
    BY <1>1, <2>4, GrownIs
  <2>6. \A i \in 1..k : one[i] = m
    BY <2>2, <2>4
  <2>7. Shapes'
    <3>1. \A i \in 1..k : Shape(one[i])
      BY <2>6 DEF Shape
    <3>2. \A j \in 1..Len(history') : Shape(history'[j])
      BY <1>1, <1>2, <2>4, <2>5, <3>1, ShapesGrown DEF Shapes
    <3> QED  BY <1>2, <2>1, <3>2 DEF Shapes
  <2>8. StepPlace'
    <3>1. CASE InStep'
      <4>1. \A i \in 1..k : one[i].origin # "user"
        BY <2>6, <3>1
      <4>2. \A i \in 1..Len(history) : Kin(history[i], history[i])
        BY DEF Kin
      <4> QED  BY <1>1, <1>2, <2>4, <2>5, <4>1, <4>2, PlaceGrown
    <3>2. CASE ~ InStep'
      BY <3>2 DEF StepPlace
    <3> QED  BY <3>1, <3>2
  <2>9. ASSUME ~ rejected' PROVE Exchanged(history', pendingIds')
    <3>1. k = Len(one) /\ Exchanged(history, pendingIds)
      BY <1>2, <2>4, <2>9
    <3>2. \A i \in 1..k : one[i].calls = {}
      BY <2>6
    <3>3. \A c \in pendingIds \ pendingIds' : \E i \in 1..k : one[i].call = c
      OBVIOUS
    <3> QED  BY <1>1, <1>5, <2>5, <3>1, <3>2, <3>3, CallsPushed
  <2> QED  BY <2>7, <2>8, <2>9 DEF CallsInv
<1> QED  BY <1>4, <1>5


(* StepBegin: the new assistant is the newest message. *)
LEMMA BeginKeepsCalls ==
    ASSUME TypeOK, Begun, ExchangeInv, CallsInv, BeginStep
    PROVE  CallsInv'
<1>1. /\ history \in Seq(Message) /\ nextSeq \in Nat /\ Len(history) \in Nat
      /\ rejected \in BOOLEAN /\ step \in Nat
  BY LenProperties DEF TypeOK
<1>2. Shapes /\ (~ rejected => Exchanged(history, pendingIds)) /\ pendingIds = {}
  BY DEF CallsInv, ExchangeInv, QuietBetweenSteps, BeginStep
<1>3. PICK m \in Message : /\ m = Assistant(step + 1) /\ m.calls = {} /\ m.call = NoCall
                           /\ m.origin = "none"
  <2>1. PICK w \in Nat : w = step + 1
    BY <1>1
  <2>2. Assistant(w) \in Message
    BY NewMessages
  <2>3. Assistant(w).calls = {} /\ Assistant(w).call = NoCall /\ Assistant(w).origin = "none"
    BY DEF Assistant
  <2> QED  BY <2>1, <2>2, <2>3
<1>4. PICK one \in Seq(Message) : one = <<m>> /\ Len(one) = 1 /\ one[1] = m /\ one # <<>>
  BY OneMessage
<1>5. Push(history, one) /\ pendingIds' = pendingIds /\ deferred' = deferred /\ step' = step + 1
  BY <1>3, <1>4 DEF BeginStep
<1>6. PICK k \in 0..Len(one) : /\ Grew(history, one, k) /\ (Len(history) < MaxHistory => k >= 1)
  BY <1>1, <1>4, <1>5, PushGrows
<1>7. Grown(history, one, k)
  BY <1>1, <1>6, GrownIs DEF Grew
<1>8. \A i \in 1..k : one[i] = m
  BY <1>4, <1>6
<1>9. Shapes'
  <2>1. \A i \in 1..k : Shape(one[i])
    BY <1>3, <1>8 DEF Shape
  <2>2. \A j \in 1..Len(history') : Shape(history'[j])
    BY <1>1, <1>2, <1>7, <2>1, ShapesGrown DEF Shapes
  <2> QED  BY <1>2, <1>5, <2>2 DEF Shapes
<1>10. StepPlace'
  <2> SUFFICES ASSUME step' \in DOMAIN openSteps'
               PROVE  /\ openSteps'[step'] \in 1..Len(history')
                      /\ history'[openSteps'[step']].origin = "none"
                      /\ Calm(history', openSteps'[step'], Len(history'))
    BY DEF StepPlace
  <2>1. step + 1 \notin DOMAIN openSteps
    BY <1>1 DEF Begun
  <2>2. Len(history) < MaxHistory
    BY <1>5, <2>1 DEF BeginStep
  <2>3. openSteps'[step'] = Len(history) + 1
    BY <1>5, <2>2 DEF BeginStep
  <2>4. k = 1
    BY <1>4, <1>6, <2>2
  <2>5. /\ Len(history') = Len(history) + 1
        /\ Alike(history'[Len(history) + 1], m)
    <3>1. 1 \in 1..k
      BY <2>4
    <3> QED  BY <1>7, <1>8, <2>4, <3>1 DEF Grown
  <2>6. history'[Len(history) + 1].origin = "none"
    BY <1>3, <2>5 DEF Alike
  <2>7. Len(history) + 1 \in 1..(Len(history) + 1)
        /\ \A x \in (Len(history) + 1)..(Len(history) + 1) : x = Len(history) + 1
    BY <1>1
  <2> QED  BY <2>3, <2>5, <2>6, <2>7 DEF Calm
<1>11. ASSUME ~ rejected' PROVE Exchanged(history', pendingIds')
  <2>1. k = Len(one) /\ Exchanged(history, pendingIds)
    BY <1>2, <1>6, <1>11 DEF Grew
  <2>2. \A i \in 1..k : one[i].calls = {}
    BY <1>3, <1>8
  <2>3. \A c \in pendingIds \ pendingIds' : \E i \in 1..k : one[i].call = c
    BY <1>5
  <2> QED  BY <1>1, <1>2, <1>7, <2>1, <2>2, <2>3, CallsPushed
<1> QED  BY <1>9, <1>10, <1>11 DEF CallsInv

(* Text is recorded. *)
LEMMA AnswerKeepsCalls ==
    ASSUME TypeOK, CallsInv, NEW hasText, Answer(hasText)
    PROVE  CallsInv'
<1>1. history \in Seq(Message) /\ Len(history) \in Nat
  BY LenProperties DEF TypeOK
<1>2. /\ history' \in Seq(Message) /\ Len(history') = Len(history)
      /\ \A j \in 1..Len(history) : /\ Kin(history'[j], history[j])
                                    /\ history[j].content => history'[j].content
                                    /\ history'[j].calls = history[j].calls
  BY AnswerIs
<1>3. UNCHANGED <<deferred, pendingIds, rejected, openSteps, step>> /\ InStep
  BY DEF Answer, InStep
<1>4. StepPlace'
  <2>1. Len(history') \in Nat /\ Len(history) <= Len(history')
        /\ \A i \in 1..Len(history') : ~ (i > Len(history))
    BY <1>1, <1>2
  <2> QED  BY <1>2, <1>3, <2>1, PlaceKept DEF CallsInv
<1>5. Shapes'
  BY <1>2, <1>3 DEF CallsInv, Shapes, Shape, Kin
<1>6. ASSUME ~ rejected PROVE Exchanged(history', pendingIds)
  <2>1. Exchanged(history, pendingIds)
    BY <1>6 DEF CallsInv
  <2>2. \A i \in 1..Len(history) : \A c \in history'[i].calls :
           c \in history[i].calls \/ (c \in pendingIds /\ Calm(history, i, Len(history)))
    BY <1>2
  <2> QED  BY <1>1, <1>2, <2>1, <2>2, CallsAdded
<1> QED  BY <1>3, <1>4, <1>5, <1>6 DEF CallsInv

(* The step's message with a call more. *)
LEMMA WithCallKeepsCalls ==
    ASSUME TypeOK, CallsInv, InStep, NEW c \in CallIds, NEW Q, pendingIds \subseteq Q, c \in Q
    PROVE  /\ WithCall(c) \in Seq(Message) /\ Len(WithCall(c)) = Len(history)
           /\ \A i \in 1..Len(history) : /\ Kin(WithCall(c)[i], history[i])
                                         /\ Shape(WithCall(c)[i])
           /\ ~ rejected => Exchanged(WithCall(c), Q)
<1>1. history \in Seq(Message) /\ Len(history) \in Nat
  BY LenProperties DEF TypeOK
<1>2. PICK g : g = WithCall(c)
  BY Zenon
<1>3. /\ g \in Seq(Message) /\ Len(g) = Len(history)
      /\ \A j \in 1..Len(history) : /\ Kin(g[j], history[j])
                                    /\ g[j].content = history[j].content
                                    /\ \/ g[j].calls = history[j].calls
                                       \/ /\ step \in DOMAIN openSteps /\ openSteps[step] = j
                                          /\ g[j].calls = history[j].calls \cup {c}
  BY <1>2, WithCallIs
<1>4. \A j \in 1..Len(history) :
        step \in DOMAIN openSteps /\ openSteps[step] = j =>
          history[j].origin = "none" /\ Calm(history, j, Len(history))
  BY DEF CallsInv, StepPlace
<1>5. \A j \in 1..Len(history) : Shape(g[j])
  <2> SUFFICES ASSUME NEW j \in 1..Len(history) PROVE Shape(g[j])
    OBVIOUS
  <2>1. Shape(history[j])
    BY DEF CallsInv, Shapes
  <2> QED  BY <1>3, <1>4, <2>1 DEF Shape, Kin
<1>6. ASSUME ~ rejected PROVE Exchanged(g, Q)
  <2>1. Exchanged(history, pendingIds)
    BY <1>6 DEF CallsInv
  <2>2. \A i \in 1..Len(history) : \A d \in g[i].calls :
           d \in history[i].calls \/ (d \in Q /\ Calm(history, i, Len(history)))
    BY <1>3, <1>4
  <2>3. \A i \in 1..Len(history) : Kin(g[i], history[i])
    BY <1>3
  <2> QED  BY <1>1, <1>3, <2>1, <2>2, <2>3, CallsAdded
<1> QED  BY <1>2, <1>3, <1>5, <1>6


LEMMA NextCallIsCall ==
    ASSUME TypeOK, Begun, InStep, dispatched < MaxCalls
    PROVE  NextCall \in CallIds
<1>1. step \in Nat /\ step >= 1 /\ step <= MaxSteps /\ dispatched \in Nat /\ MaxCalls \in Nat /\ MaxSteps \in Nat
  BY MemoryAssumption DEF TypeOK, Begun
<1>2. step \in 1..MaxSteps /\ dispatched + 1 \in 1..MaxCalls
  BY <1>1
<1> QED  BY <1>2 DEF NextCall, CallIds, Steps

LEMMA DispatchKeepsCalls ==
    ASSUME TypeOK, Begun, CallsInv, Dispatch
    PROVE  CallsInv'
<1>1. InStep /\ InStep' /\ dispatched < MaxCalls
  BY DEF Dispatch, InStep
<1>2. /\ history' = WithCall(NextCall) /\ pendingIds' = pendingIds \cup {NextCall}
      /\ UNCHANGED <<deferred, rejected, openSteps, step>>
  BY DEF Dispatch
<1>3. /\ history' \in Seq(Message) /\ Len(history') = Len(history)
      /\ \A i \in 1..Len(history) : Kin(history'[i], history[i]) /\ Shape(history'[i])
      /\ ~ rejected => Exchanged(history', pendingIds')
  <2>1. NextCall \in CallIds
    BY <1>1, NextCallIsCall
  <2>2. PICK Q : Q = pendingIds'
    BY Zenon
  <2>3. pendingIds \subseteq Q /\ NextCall \in Q
    BY <1>2, <2>2
  <2> QED  BY <1>1, <1>2, <2>1, <2>2, <2>3, WithCallKeepsCalls
<1>4. StepPlace'
  <2>1. Len(history') \in Nat /\ Len(history) <= Len(history')
        /\ \A i \in 1..Len(history') : ~ (i > Len(history))
    <3>1. Len(history) \in Nat
      BY LenProperties DEF TypeOK
    <3> QED  BY <1>3, <3>1
  <2> QED  BY <1>1, <1>2, <1>3, <2>1, PlaceKept DEF CallsInv
<1> QED  BY <1>2, <1>3, <1>4 DEF CallsInv, Shapes

LEMMA UnexecutedKeepsCalls ==
    ASSUME TypeOK, Begun, ExchangeInv, CallsInv, Unexecuted
    PROVE  CallsInv'
<1>1. InStep /\ InStep' /\ dispatched < MaxCalls
  BY DEF Unexecuted, InStep
<1>2. /\ Push(WithCall(NextCall), <<Result(NextCall)>>)
      /\ UNCHANGED <<pendingIds, deferred, openSteps, step>>
  BY DEF Unexecuted
<1>3. history \in Seq(Message) /\ nextSeq \in Nat /\ rejected \in BOOLEAN
  BY DEF TypeOK
<1>4. PICK c \in CallIds : c = NextCall
  BY <1>1, NextCallIsCall
<1>5. PICK Q : Q = pendingIds \cup {c}
  BY Zenon
<1>6. PICK g : g = WithCall(c)
  BY Zenon
<1>7. /\ g \in Seq(Message) /\ Len(g) = Len(history)
      /\ \A i \in 1..Len(history) : Kin(g[i], history[i]) /\ Shape(g[i])
      /\ ~ rejected => Exchanged(g, Q)
  <2>1. pendingIds \subseteq Q /\ c \in Q
    BY <1>5
  <2> QED  BY <1>1, <1>6, <2>1, WithCallKeepsCalls
<1>8. PICK m \in Message : m = Result(c) /\ m.calls = {} /\ m.call = c /\ m.origin = "none" /\ m.content
  <2>1. Result(c).calls = {} /\ Result(c).call = c /\ Result(c).origin = "none" /\ Result(c).content
    BY DEF Result
  <2> QED  BY <2>1, NewMessages
<1>9. PICK one \in Seq(Message) : one = <<m>> /\ Len(one) = 1 /\ one[1] = m
  BY OneMessage
<1>10. Push(g, one)
  BY <1>2, <1>4, <1>6, <1>8, <1>9
<1>11. PICK k \in 0..Len(one) : Grew(g, one, k)
  BY <1>3, <1>7, <1>10, PushGrows
<1>12. Grown(g, one, k)
  BY <1>3, <1>7, <1>11, GrownIs DEF Grew
<1>13. \A i \in 1..k : one[i] = m
  BY <1>9, <1>11
<1>14. Shapes'
  <2>1. \A i \in 1..k : Shape(one[i])
    BY <1>8, <1>13 DEF Shape
  <2>2. \A i \in 1..Len(g) : Shape(g[i])
    BY <1>7
  <2>3. \A j \in 1..Len(history') : Shape(history'[j])
    BY <1>7, <1>12, <2>1, <2>2, ShapesGrown
  <2> QED  BY <1>2, <2>3 DEF CallsInv, Shapes
<1>15. StepPlace'
  <2>1. \A i \in 1..k : one[i].origin # "user"
    BY <1>8, <1>13
  <2>2. \A i \in 1..Len(history) : Kin(g[i], history[i])
    BY <1>7
  <2> QED  BY <1>1, <1>2, <1>7, <1>12, <2>1, <2>2, PlaceGrown DEF CallsInv
<1>16. ASSUME ~ rejected' PROVE Exchanged(history', pendingIds')
  <2>1. k = Len(one) /\ Exchanged(g, Q)
    BY <1>7, <1>11, <1>16 DEF Grew
  <2>2. \A i \in 1..k : one[i].calls = {} /\ one[i].origin # "user"
    BY <1>8, <1>13
  <2>3. \A d \in Q \ pendingIds : \E i \in 1..k : one[i].call = d
    <3>1. 1 \in 1..k
      BY <1>9, <2>1
    <3> QED  BY <1>5, <1>8, <1>13, <3>1
  <2>4. Exchanged(history', pendingIds)
    <3>1. \A i \in 1..k : one[i].calls = {}
      BY <2>2
    <3>2. Q = {} \/ \A i \in 1..k : one[i].origin # "user"
      BY <2>2
    <3> QED  BY <1>7, <1>12, <2>1, <2>3, <3>1, <3>2, CallsPushed
  <2> QED  BY <1>2, <2>4
<1> QED  BY <1>14, <1>15, <1>16 DEF CallsInv

(* A result settles the call it answers; with the last one the deferred    *)
(* messages come in behind it.                                             *)
LEMMA ResultKeepsCalls ==
    ASSUME TypeOK, ExchangeInv, CallsInv, NEW c, RecordToolResult(c),
           UNCHANGED <<arrivals, openSteps, step>>, InStep' => InStep
    PROVE  CallsInv'
<1>1. /\ history \in Seq(Message) /\ nextSeq \in Nat /\ deferred \in Seq(Message)
      /\ Len(deferred) \in Nat
  BY LenProperties DEF TypeOK
<1>2. CASE c \notin pendingIds
  <2>1. UNCHANGED <<history, rejected, pendingIds, deferred>>
    BY <1>2 DEF RecordToolResult
  <2> QED  BY <2>1, CallsUntouched
<1>3. CASE c \in pendingIds
  <2>1. c \in CallIds /\ pendingIds' = pendingIds \ {c}
    BY <1>3, ResultEdit
  <2>2. PICK msgs, k : /\ Edit(history, msgs, k) /\ msgs # <<>>
                       /\ \/ Flush(msgs) /\ msgs = <<Result(c)>> \o deferred
                          \/ Plain(msgs) /\ deferred' = deferred /\ msgs = <<Result(c)>>
    BY <1>3, ResultEdit
  <2>3. /\ msgs \in Seq(Message) /\ k \in 0..Len(msgs) /\ Grew(history, msgs, k)
    BY <2>2 DEF Edit
  <2>4. Grown(history, msgs, k)
    BY <1>1, <2>3, GrownIs DEF Grew
  <2>5. PICK m \in Message : m = Result(c) /\ m.calls = {} /\ m.call = c /\ m.origin = "none" /\ m.content
    <3>1. Result(c).calls = {} /\ Result(c).call = c /\ Result(c).origin = "none" /\ Result(c).content
      BY DEF Result
    <3> QED  BY <2>1, <3>1, NewMessages
  <2>6. PICK one \in Seq(Message) : one = <<m>> /\ Len(one) = 1 /\ one[1] = m
    BY OneMessage
  <2>7. deferred' \in {deferred, <<>>} /\ msgs \in {one, one \o deferred}
    BY <2>2, <2>5, <2>6 DEF Flush
  <2>8. Len(msgs) \in Nat /\ 1 \in 1..Len(msgs) /\ msgs[1] = m
        /\ \A i \in 1..Len(msgs) : i = 1 \/ \E x \in 1..Len(deferred) : msgs[i] = deferred[x]
    <3>1. CASE msgs = one
      BY <2>6, <3>1
    <3>2. CASE msgs = one \o deferred
      <4>1. /\ Len(msgs) = 1 + Len(deferred)
            /\ \A i \in 1..1 : msgs[i] = one[i]
            /\ \A i \in 1..Len(deferred) : msgs[1 + i] = deferred[i]
            /\ \A j \in 1..Len(msgs) : j \in 1..1 \/ \E i \in 1..Len(deferred) : j = 1 + i
        <5>1. /\ Len(one \o deferred) = Len(one) + Len(deferred)
              /\ \A i \in 1..Len(one) : (one \o deferred)[i] = one[i]
              /\ \A i \in 1..Len(deferred) : (one \o deferred)[Len(one) + i] = deferred[i]
              /\ \A j \in 1..Len(one \o deferred) :
                   j \in 1..Len(one) \/ \E i \in 1..Len(deferred) : j = Len(one) + i
          BY <1>1, JoinIs
        <5> QED  BY <2>6, <3>2, <5>1
      <4>2. 1 \in 1..1 /\ \A j \in 1..1 : j = 1
        OBVIOUS
      <4>3. Len(msgs) \in Nat /\ 1 \in 1..Len(msgs)
        BY <1>1, <4>1
      <4>4. msgs[1] = m
        BY <2>6, <4>1, <4>2
      <4>5. \A i \in 1..Len(msgs) : i = 1 \/ \E x \in 1..Len(deferred) : msgs[i] = deferred[x]
        BY <4>1, <4>2
      <4> QED  BY <4>3, <4>4, <4>5
    <3> QED  BY <2>7, <3>1, <3>2
  <2>9. \A i \in 1..Len(msgs) : msgs[i].calls = {} /\ msgs[i].origin # "user" /\ Shape(msgs[i])
    <3>1. m.calls = {} /\ m.origin # "user" /\ Shape(m)
      BY <2>5 DEF Shape
    <3>2. \A x \in 1..Len(deferred) : /\ deferred[x].calls = {} /\ deferred[x].origin # "user"
                                      /\ Shape(deferred[x])
      BY DEF CallsInv, Shapes, Aside, Shape
    <3> QED  BY <2>8, <3>1, <3>2
  <2>10. \A i \in 1..k : i \in 1..Len(msgs)
    BY <2>3, <2>8
  <2>11. Shapes'
    <3>1. \A i \in 1..k : Shape(msgs[i])
      BY <2>9, <2>10
    <3>2. \A i \in 1..Len(history) : Shape(history[i])
      BY DEF CallsInv, Shapes
    <3>3. \A j \in 1..Len(history') : Shape(history'[j])
      BY <1>1, <2>3, <2>4, <3>1, <3>2, ShapesGrown
    <3>4. \A i \in 1..Len(deferred') : Aside(deferred'[i])
      <4>1. Len(<<>>) = 0
        BY EmptySeq
      <4> QED  BY <2>7, <4>1 DEF CallsInv, Shapes
    <3> QED  BY <3>3, <3>4 DEF Shapes
  <2>12. StepPlace'
    <3>1. \A i \in 1..k : msgs[i].origin # "user"
      BY <2>9, <2>10
    <3>2. \A i \in 1..Len(history) : Kin(history[i], history[i])
      BY DEF Kin
    <3> QED  BY <1>1, <2>3, <2>4, <3>1, <3>2, PlaceGrown DEF CallsInv
  <2>13. ASSUME ~ rejected' PROVE Exchanged(history', pendingIds')
    <3>1. k = Len(msgs) /\ Exchanged(history, pendingIds)
      BY <2>3, <2>13 DEF Grew, CallsInv
    <3>2. \A i \in 1..k : msgs[i].calls = {}
      BY <2>9, <3>1
    <3>3. pendingIds = {} \/ \A i \in 1..k : msgs[i].origin # "user"
      BY <2>9, <3>1
    <3>4. \A d \in pendingIds \ pendingIds' : \E i \in 1..k : msgs[i].call = d
      BY <2>1, <2>5, <2>8, <3>1
    <3>5. PICK Q : Q = pendingIds'
      BY Zenon
    <3>6. \A d \in pendingIds \ Q : \E i \in 1..k : msgs[i].call = d
      BY <3>4, <3>5
    <3>a. k = Len(msgs)
      BY <3>1
    <3>b. Exchanged(history, pendingIds)
      BY <3>1
    <3>c. history \in Seq(Message)
      BY <1>1
    <3>d. msgs \in Seq(Message)
      BY <2>3
    <3>7. Exchanged(history', Q)
      BY <2>4, <3>a, <3>b, <3>c, <3>d, <3>2, <3>3, <3>6, CallsPushed
    <3> QED  BY <3>5, <3>7
  <2> QED  BY <2>11, <2>12, <2>13 DEF CallsInv
<1> QED  BY <1>2, <1>3


(* A vacuous message is taken out: it is no result. *)
LEMMA RemovedCalls ==
    ASSUME NEW h \in Seq(Message), NEW i \in 1..Len(h), h[i].call = NoCall, NEW P, Exchanged(h, P)
    PROVE  Exchanged(RemoveAt(h, i), P)
<1>1. PICK g : g = RemoveAt(h, i)
  BY Zenon
<1>2. PICK n \in Nat : n = Len(h)
  BY LenProperties
<1>3. /\ g \in Seq(Message) /\ Len(g) = n - 1
      /\ \A k \in 1..(i - 1) : k \in 1..Len(g) /\ g[k] = h[k]
      /\ \A k \in i..(n - 1) : k + 1 \in 1..n /\ g[k] = h[k + 1]
  BY <1>1, <1>2, RemovedIs
<1> DEFINE f == [x \in 1..(n - 1) |-> IF x < i THEN x ELSE x + 1]
<1>4. n - 1 \in Nat /\ i \in 1..n
  BY <1>2
<1>5. f \in [1..Len(g) -> 1..Len(h)] /\ \A x, y \in 1..Len(g) : x < y => f[x] < f[y]
  BY <1>2, <1>3, <1>4
<1>6. ASSUME NEW x \in 1..Len(g) PROVE g[x] = h[f[x]]
  <2>1. CASE x < i
    <3>1. x \in 1..(i - 1) /\ f[x] = x
      BY <1>3, <1>4, <1>6, <2>1
    <3> QED  BY <1>3, <3>1
  <2>2. CASE ~ (x < i)
    <3>1. x \in i..(n - 1) /\ f[x] = x + 1
      BY <1>3, <1>4, <1>6, <2>2
    <3> QED  BY <1>3, <3>1
  <2> QED  BY <2>1, <2>2
<1>7. ASSUME NEW j \in 1..Len(h), h[j].call # NoCall PROVE \E x \in 1..Len(g) : f[x] = j
  <2>1. j # i /\ j \in 1..n
    BY <1>2, <1>7
  <2>2. CASE j < i
    <3>1. j \in 1..Len(g) /\ f[j] = j
      BY <1>3, <1>4, <2>1, <2>2
    <3> QED  BY <3>1
  <2>3. CASE ~ (j < i)
    <3>1. j - 1 \in 1..Len(g) /\ f[j - 1] = j
      BY <1>3, <1>4, <2>1, <2>3
    <3> QED  BY <3>1
  <2> QED  BY <2>2, <2>3
<1> HIDE DEF f
<1>8. \A x \in 1..Len(g) : /\ g[x].origin = h[f[x]].origin /\ g[x].call = h[f[x]].call
                           /\ g[x].calls = h[f[x]].calls
  BY <1>6
<1>9. \A x \in 1..Len(g), j \in 1..Len(h) :
        f[x] < j /\ h[j].call # NoCall /\ Calm(h, f[x], j) => \E y \in 1..Len(g) : f[y] = j
  BY <1>7
<1>10. f \in [1..Len(g) -> 1..Len(h)]
  BY <1>5
<1>11. \A x, y \in 1..Len(g) : x < y => f[x] < f[y]
  BY <1>5
<1>12. g \in Seq(Message)
  BY <1>3
<1>13. Exchanged(g, P)
  BY <1>8, <1>9, <1>10, <1>11, <1>12, CallsThinned, SMTT(30)
<1> QED  BY <1>1, <1>13

(* A slice of the history. *)
LEMMA SlicedCalls ==
    ASSUME TypeOK, NEW a \in Nat, NEW b \in Nat, Slice(a, b), NEW P, NEW Q, Exchanged(history, P),
           \A i \in 1..b, j \in 1..Len(history) :
             i < j /\ history[j].call # NoCall /\ Calm(history, i, j) => j <= b,
           \A i \in 1..b : Calm(history, i, Len(history)) => P \subseteq Q
    PROVE  Exchanged(history', Q)
<1>1. PICK n \in Nat : n = Len(history)
  BY LenProperties DEF TypeOK
<1>2. PICK g : g = history'
  BY Zenon
<1>3. /\ a <= b /\ b <= n /\ g \in Seq(Message) /\ Len(g) = b - a
      /\ \A i \in 1..(b - a) : a + i \in 1..n /\ g[i] = history[a + i]
  BY <1>1, <1>2 DEF Slice
<1> DEFINE f == [x \in 1..(b - a) |-> a + x]
<1>4. f \in [1..Len(g) -> 1..Len(history)] /\ \A x, y \in 1..Len(g) : x < y => f[x] < f[y]
  BY <1>1, <1>3
<1>5. \A x \in 1..Len(g) : f[x] \in 1..b /\ g[x] = history[f[x]] /\ f[x] > a
  BY <1>1, <1>3
<1>6. ASSUME NEW j \in 1..Len(history), j <= b, j > a PROVE \E x \in 1..Len(g) : f[x] = j
  <2>1. j - a \in 1..Len(g) /\ f[j - a] = j
    BY <1>1, <1>3, <1>6
  <2> QED  BY <2>1
<1> HIDE DEF f
<1>7. \A x \in 1..Len(g) : /\ g[x].origin = history[f[x]].origin /\ g[x].call = history[f[x]].call
                           /\ g[x].calls = history[f[x]].calls
  BY <1>5
<1>8. ASSUME NEW x \in 1..Len(g), NEW j \in 1..Len(history), f[x] < j, history[j].call # NoCall,
             Calm(history, f[x], j)
      PROVE  \E y \in 1..Len(g) : f[y] = j
  <2>1. j <= b
    BY <1>5, <1>8
  <2>2. j > a
    BY <1>1, <1>5, <1>8
  <2> QED  BY <1>6, <2>1, <2>2
<1>9. \A x \in 1..Len(g) : Calm(history, f[x], Len(history)) => P \subseteq Q
  BY <1>5
<1>10. f \in [1..Len(g) -> 1..Len(history)]
  BY <1>4
<1>11. \A x, y \in 1..Len(g) : x < y => f[x] < f[y]
  BY <1>4
<1>12. g \in Seq(Message) /\ history \in Seq(Message)
  BY <1>3 DEF TypeOK
<1>13. \A x \in 1..Len(g), j \in 1..Len(history) :
         f[x] < j /\ history[j].call # NoCall /\ Calm(history, f[x], j) => \E y \in 1..Len(g) : f[y] = j
  BY <1>8
<1>14. Exchanged(g, Q)
  BY <1>7, <1>9, <1>10, <1>11, <1>12, <1>13, CallsThinned
<1> QED  BY <1>2, <1>14

(* StepEnd. *)
LEMMA StepEndKeepsCalls ==
    ASSUME TypeOK, ExchangeInv, CallsInv, NEW s, NEW usage, StepEnd(s, usage),
           pendingIds' = pendingIds, ~ InStep'
    PROVE  CallsInv'
<1>1. history \in Seq(Message) /\ Len(history) \in Nat
  BY LenProperties DEF TypeOK
<1>2. history' = StepBase(s) /\ rejected' = rejected /\ deferred' = deferred
  BY StepEndIs DEF ExchangeInv
<1>3. StepPlace'
  BY DEF StepPlace
<1>4. \A i \in 1..Len(history) : Shape(history[i])
  BY DEF CallsInv, Shapes
<1> SUFFICES /\ \A i \in 1..Len(history') : Shape(history'[i])
             /\ ~ rejected => Exchanged(history', pendingIds)
  BY <1>2, <1>3 DEF CallsInv, Shapes
<1>5. CASE ~ (s \in DOMAIN openSteps /\ openSteps[s] <= Len(history))
  <2>1. history' = history
    BY <1>2, <1>5 DEF StepBase
  <2> QED  BY <1>4, <2>1 DEF CallsInv
<1>6. CASE s \in DOMAIN openSteps /\ openSteps[s] <= Len(history)
  <2>1. PICK i \in 1..Len(history) : i = openSteps[s]
    BY <1>1, <1>6 DEF TypeOK
  <2>2. history' = Settle(i)
    BY <1>2, <1>6, <2>1 DEF StepBase
  <2>3. CASE Vacuous(history[i])
    <3>1. history' = RemoveAt(history, i)
      BY <2>2, <2>3 DEF Settle
    <3>2. history[i].call = NoCall
      BY <1>4, <2>3 DEF Vacuous, Shape
    <3>3. ~ rejected => Exchanged(history', pendingIds)
      BY <1>1, <3>1, <3>2, RemovedCalls DEF CallsInv
    <3>4. \A j \in 1..Len(history') : \E x \in 1..Len(history) : history'[j] = history[x]
      <4>1. PICK n \in Nat : n = Len(history)
        BY <1>1
      <4>2. /\ Len(history') = n - 1
            /\ \A k \in 1..(i - 1) : history'[k] = history[k]
            /\ \A k \in i..(n - 1) : k + 1 \in 1..n /\ history'[k] = history[k + 1]
        BY <1>1, <3>1, <4>1, RemovedIs
      <4>3. ASSUME NEW j \in 1..(n - 1) PROVE j \in 1..n /\ (j \in 1..(i - 1) \/ j \in i..(n - 1))
        BY <4>1
      <4> QED  BY <4>1, <4>2, <4>3
    <3> QED  BY <1>4, <3>3, <3>4
  <2>4. CASE ~ Vacuous(history[i])
    <3>1. history' = Sealed(i)
      BY <2>2, <2>4 DEF Settle
    <3>2. /\ history' \in Seq(Message) /\ Len(history') = Len(history)
          /\ \A j \in 1..Len(history) : /\ Kin(history'[j], history[j])
                                        /\ history'[j].calls = history[j].calls
                                        /\ history'[j].content = history[j].content
      BY <3>1, SealedIs
    <3>3. \A j \in 1..Len(history') : Shape(history'[j])
      BY <1>4, <3>2 DEF Shape, Kin
    <3>4. ASSUME ~ rejected PROVE Exchanged(history', pendingIds)
      <4>1. Exchanged(history, pendingIds)
        BY <3>4 DEF CallsInv
      <4>2. \A j \in 1..Len(history) : \A c \in history'[j].calls :
               c \in history[j].calls \/ (c \in pendingIds /\ Calm(history, j, Len(history)))
        BY <3>2
      <4>3. \A j \in 1..Len(history) : Kin(history'[j], history[j])
        BY <3>2
      <4> QED  BY <1>1, <3>2, <4>1, <4>2, <4>3, CallsAdded
    <3> QED  BY <3>3, <3>4
  <2> QED  BY <2>3, <2>4
<1> QED  BY <1>5, <1>6


(* Undo: a call and its result are on the same side of the cut, and a call *)
(* still awaited goes with its step.                                       *)
LEMMA UndoKeepsCalls ==
    ASSUME TypeOK, CallsInv, NEW cut, NEW count, Undo(cut, count)
    PROVE  CallsInv'
<1>1. history \in Seq(Message) /\ Len(history) \in Nat
  BY LenProperties DEF TypeOK
<1>2. cut \in 1..Len(history) /\ history[cut].origin = "user"
  BY UndoIs
<1>3. PICK a \in Nat, b \in Nat : b = cut - 1 /\ Slice(a, b)
  <2>1. PICK a \in Nat : Slice(a, cut - 1)
    BY UndoIs
  <2>2. cut - 1 \in Nat
    BY <1>1, <1>2
  <2> QED  BY <2>1, <2>2
<1>4. /\ pendingIds' = {} /\ deferred' = <<>> /\ rejected' = rejected
      /\ step' = step /\ (InStep' => InStep)
      /\ openSteps' = [t \in {s \in DOMAIN openSteps : openSteps[s] < cut} |-> openSteps[t]]
  BY DEF Undo, DropExchange, loop, InStep
<1>5. Shapes'
  <2>1. Len(<<>>) = 0
    BY EmptySeq
  <2>2. \A i \in 1..Len(history') : \E x \in 1..Len(history) : history'[i] = history[x]
    BY <1>3 DEF Slice
  <2> QED  BY <1>4, <2>1, <2>2 DEF CallsInv, Shapes
<1>6. StepPlace'
  <2> SUFFICES ASSUME InStep', step \in DOMAIN openSteps' PROVE FALSE
    BY <1>4 DEF StepPlace
  <2>1. InStep /\ step \in DOMAIN openSteps /\ openSteps[step] < cut
    BY <1>4
  <2>2. openSteps[step] \in 1..Len(history) /\ Calm(history, openSteps[step], Len(history))
    BY <2>1 DEF CallsInv, StepPlace
  <2>3. cut \in openSteps[step]..Len(history)
    BY <1>1, <1>2, <2>1, <2>2
  <2> QED  BY <1>2, <2>2, <2>3 DEF Calm
<1>7. ASSUME ~ rejected PROVE Exchanged(history', {})
  <2>1. Exchanged(history, pendingIds)
    BY <1>7 DEF CallsInv
  <2>2. \A i \in 1..b, j \in 1..Len(history) : j > b => cut \in i..j
    BY <1>1, <1>2, <1>3
  <2>3. \A i \in 1..b, j \in 1..Len(history) : Calm(history, i, j) => ~ (j > b)
    BY <1>2, <2>2 DEF Calm
  <2>4. \A i \in 1..b, j \in 1..Len(history) :
          i < j /\ history[j].call # NoCall /\ Calm(history, i, j) => j <= b
    BY <1>1, <1>3, <2>3
  <2>5. Len(history) \in 1..Len(history) /\ Len(history) > b
    BY <1>1, <1>2, <1>3
  <2>6. \A i \in 1..b : Calm(history, i, Len(history)) => pendingIds \subseteq {}
    BY <2>3, <2>5
  <2> QED  BY <1>3, <2>1, <2>4, <2>6, SlicedCalls
<1> QED  BY <1>4, <1>5, <1>6, <1>7 DEF CallsInv

(* The newest message is retracted: a reminder. *)
LEMMA PopKeepsCalls ==
    ASSUME TypeOK, CallsInv, PopReminder
    PROVE  CallsInv'
<1>1. PICK n \in Nat : n = Len(history)
  BY LenProperties DEF TypeOK
<1>2. n # 0 /\ history[n].origin = "injection"
  BY <1>1, PopIs
<1>3. PICK a \in Nat, b \in Nat : a = 0 /\ b = n - 1 /\ Slice(a, b)
  <2>1. Slice(0, n - 1) /\ 0 \in Nat /\ n - 1 \in Nat
    BY <1>1, <1>2, PopIs
  <2> QED  BY <2>1
<1>4. UNCHANGED <<pendingIds, deferred, rejected, step, openSteps>> /\ (InStep' => InStep)
  BY DEF PopReminder, loop, InStep
<1>5. Len(history') = b /\ \A i \in 1..b : i \in 1..n /\ history'[i] = history[i]
  BY <1>1, <1>3 DEF Slice
<1>6. Shapes'
  BY <1>1, <1>4, <1>5 DEF CallsInv, Shapes
<1>7. StepPlace'
  <2> SUFFICES ASSUME InStep, step \in DOMAIN openSteps
               PROVE  /\ openSteps[step] \in 1..Len(history')
                      /\ history'[openSteps[step]].origin = "none"
                      /\ Calm(history', openSteps[step], Len(history'))
    BY <1>4 DEF StepPlace
  <2>1. PICK p : p = openSteps[step]
    BY Zenon
  <2>2. p \in 1..n /\ history[p].origin = "none" /\ Calm(history, p, n)
    BY <1>1, <2>1 DEF CallsInv, StepPlace
  <2>3. p \in 1..b
    <3>1. p # n
      BY <1>2, <2>2
    <3> QED  BY <1>2, <1>3, <2>2, <3>1
  <2>4. \A x \in p..b : x \in 1..b /\ x \in p..n
    BY <1>2, <1>3, <2>3
  <2> QED  BY <1>5, <2>1, <2>2, <2>3, <2>4 DEF Calm
<1>8. ASSUME ~ rejected PROVE Exchanged(history', pendingIds)
  <2>1. Exchanged(history, pendingIds)
    BY <1>8 DEF CallsInv
  <2>2. ASSUME NEW j \in 1..Len(history), history[j].call # NoCall PROVE j <= b
    <3>1. history[j].origin = "none"
      BY <2>2 DEF CallsInv, Shapes, Shape
    <3>2. j # n
      BY <1>2, <3>1
    <3> QED  BY <1>1, <1>2, <1>3, <3>2
  <2>3. \A i \in 1..b, j \in 1..Len(history) :
          i < j /\ history[j].call # NoCall /\ Calm(history, i, j) => j <= b
    BY <2>2
  <2> QED  BY <1>3, <2>1, <2>3, SlicedCalls
<1> QED  BY <1>4, <1>6, <1>7, <1>8 DEF CallsInv

(* A compaction: only the tail makes calls, and keeps their results. *)
LEMMA CompactionKeepsCalls ==
    ASSUME TypeOK, ExchangeInv, CallsInv, NEW last \in 1..Len(history), NEW kept \in 0..last,
           ApplyCompaction(last, kept)
    PROVE  CallsInv'
<1>1. PICK f, n : Compacted(f, kept, n, last)
  BY CompactedIs
<1>2. /\ pendingIds = {} /\ pendingIds' = {} /\ deferred' = <<>> /\ rejected' = rejected /\ ~ InStep'
  BY DEF ApplyCompaction, DropExchange, RoundOver, ExchangeInv, QuietBetweenSteps, InStep
<1>3. PICK L \in Nat : L = Len(history)
  BY LenProperties DEF TypeOK
<1>4. last \in Nat /\ last <= L /\ kept \in Nat /\ n \in Nat
  BY <1>1, <1>3 DEF Compacted
<1>5. PICK b \in Nat : b = kept + n
  BY <1>4
<1>6. /\ Len(history') = b + (L - last)
      /\ \A i \in 1..kept : /\ f[i] \in 1..last /\ history'[i] = history[f[i]]
                            /\ history[f[i]].origin = "user"
      /\ \A i \in 1..n : Note(history'[kept + i], nextSeq + (i - 1))
      /\ \A i \in 1..(L - last) : /\ last + i \in 1..L /\ b + i \in 1..Len(history')
                                  /\ history'[b + i] = history[last + i]
      /\ \A j \in 1..Len(history') :
           j \in 1..kept \/ (\E i \in 1..n : j = kept + i) \/ \E i \in 1..(L - last) : j = b + i
  BY <1>1, <1>3, <1>5 DEF Compacted
<1>7. \A i \in 1..L : Shape(history[i])
  BY <1>3 DEF CallsInv, Shapes
<1>8. ASSUME NEW i \in 1..kept PROVE history'[i].calls = {} /\ Shape(history'[i])
  <2>1. f[i] \in 1..L
    BY <1>4, <1>6
  <2> QED  BY <1>6, <1>7, <2>1 DEF Shape
<1>9. \A i \in 1..n : history'[kept + i].calls = {} /\ Shape(history'[kept + i])
  BY <1>6 DEF Note, Shape
<1>10. ASSUME NEW j \in 1..Len(history') PROVE Shape(history'[j])
  <2>1. \A i \in 1..(L - last) : Shape(history'[b + i])
    BY <1>6, <1>7
  <2>2. j \in 1..kept \/ (\E i \in 1..n : j = kept + i) \/ \E i \in 1..(L - last) : j = b + i
    BY <1>6
  <2> QED  BY <1>8, <1>9, <2>1, <2>2
<1>11. Shapes'
  <2>1. Len(<<>>) = 0
    BY EmptySeq
  <2> QED  BY <1>2, <1>10, <2>1 DEF Shapes
<1>12. StepPlace'
  BY <1>2 DEF StepPlace
<1>13. ASSUME ~ rejected PROVE Exchanged(history', {})
  <2> SUFFICES ASSUME NEW j \in 1..Len(history'), NEW c \in history'[j].calls
               PROVE  Settled(history', j, c)
    BY DEF Exchanged
  <2>1. PICK i \in 1..(L - last) : j = b + i
    BY <1>6, <1>8, <1>9
  <2>2. last + i \in 1..L /\ c \in history[last + i].calls
    BY <1>6, <2>1
  <2>3. Settled(history, last + i, c)
    BY <1>2, <1>3, <1>13, <2>2 DEF CallsInv, Exchanged, Awaited
  <2>4. PICK q \in 1..L : last + i < q /\ history[q].call = c /\ Calm(history, last + i, q)
    BY <1>3, <2>3 DEF Settled
  <2>5. PICK y \in 1..(L - last) : q = last + y /\ i < y
    <3>1. q - last \in 1..(L - last) /\ q = last + (q - last) /\ i < q - last
      BY <1>3, <1>4, <2>4
    <3> QED  BY <3>1
  <2>6. b + y \in 1..Len(history') /\ history'[b + y].call = c /\ j < b + y
    <3>1. b + y \in 1..Len(history') /\ history'[b + y] = history[last + y]
      BY <1>6
    <3>2. j < b + y
      BY <1>3, <1>4, <2>1, <2>5
    <3> QED  BY <2>4, <2>5, <3>1, <3>2
  <2>7. Calm(history', j, b + y)
    <3> SUFFICES ASSUME NEW x \in j..(b + y) PROVE history'[x].origin # "user"
      BY DEF Calm
    <3>1. PICK z \in 1..(L - last) : x = b + z /\ i <= z /\ z <= y
      <4>1. x - b \in 1..(L - last) /\ x = b + (x - b) /\ i <= x - b /\ x - b <= y
        BY <1>3, <1>4, <1>5, <2>1, <2>5
      <4> QED  BY <4>1
    <3>2. last + z \in (last + i)..q
      BY <1>4, <2>5, <3>1
    <3> QED  BY <1>6, <2>4, <3>1, <3>2 DEF Calm
  <2> QED  BY <2>6, <2>7 DEF Settled
<1> QED  BY <1>2, <1>11, <1>12, <1>13 DEF CallsInv


LEMMA TurnKeepsCalls ==
    ASSUME TypeOK, Begun, ExchangeInv, CallsInv, Turn
    PROVE  CallsInv'
<1>0. \A o \in Origins : User(o) \in Message /\ User(o).calls = {} /\ User(o).call = NoCall
                         /\ User(o).origin = o
  BY NewMessages DEF User
<1>1. CASE HookResult \/ HookContext \/ EmptyAnswer \/ Inject
  <2>1. PICK o \in Origins : AppendMessage(User(o)) /\ o # "user"
    BY <1>1 DEF HookResult, HookContext, EmptyAnswer, Inject, AppendUser, Origins
  <2>2. UNCHANGED <<pendingIds, openSteps, step>> /\ (InStep' => InStep)
    BY <1>1 DEF HookResult, HookContext, EmptyAnswer, Inject, AppendUser, InStep
  <2>3. User(o) \in Message /\ User(o).calls = {} /\ User(o).call = NoCall /\ User(o).origin # "user"
    BY <1>0, <2>1
  <2> QED  BY <2>1, <2>2, <2>3, AppendKeepsCalls
<1>2. CASE Prompt \/ Steer
  <2>1. AppendMessage(User("user")) /\ UNCHANGED <<pendingIds, openSteps, step>> /\ ~ InStep'
    BY <1>2 DEF Prompt, Steer, AppendUser, InStep, loop
  <2>2. pendingIds = {}
    BY <1>2 DEF Prompt, Steer, Between, ExchangeInv, QuietBetweenSteps
  <2>3. User("user") \in Message /\ User("user").calls = {} /\ User("user").call = NoCall
    BY <1>0 DEF Origins
  <2> QED  BY <2>1, <2>2, <2>3, AppendKeepsCalls
<1>3. CASE Blocked
  <2>1. PICK m \in Message :
          /\ m = [Assistant(0) EXCEPT !.origin = "hook", !.content = TRUE, !.partial = FALSE]
          /\ m.calls = {} /\ m.call = NoCall /\ m.origin # "user"
    BY NewMessages
  <2>2. AppendMessage(m) /\ UNCHANGED <<pendingIds, openSteps, step>> /\ ~ InStep'
    BY <1>3, <2>1 DEF Blocked, InStep
  <2> QED  BY <2>1, <2>2, AppendKeepsCalls
<1>4. CASE \/ RetryTurn \/ StepFails \/ ToTools \/ NoTools \/ BatchDone \/ ResultsDone \/ Continue
           \/ GiveUp \/ Interrupt \/ Closed
  <2>1. UNCHANGED <<history, deferred, pendingIds, rejected, openSteps, step>> /\ (InStep' => InStep)
    BY <1>4 DEF RetryTurn, StepFails, ToTools, NoTools, BatchDone, ResultsDone, Continue, GiveUp,
                Interrupt, Closed, Move, memory, InStep
  <2> QED  BY <2>1, CallsUntouched
<1>5. CASE RecordResult
  <2>1. RecordToolResult(<<step, recorded + 1>>) /\ UNCHANGED <<arrivals, openSteps, step>>
        /\ (InStep' => InStep)
    BY <1>5 DEF RecordResult, InStep
  <2> QED  BY <2>1, ResultKeepsCalls
<1>6. ASSUME NEW c \in CallIds, CloseResult(c) PROVE CallsInv'
  <2>1. RecordToolResult(c) /\ UNCHANGED <<arrivals, openSteps, step>> /\ (InStep' => InStep)
    BY <1>6 DEF CloseResult, loop, InStep
  <2> QED  BY <2>1, ResultKeepsCalls
<1>7. CASE EndStep
  <2>1. PICK usage \in BOOLEAN : StepEnd(step, usage)
    BY <1>7 DEF EndStep
  <2>2. pendingIds' = pendingIds /\ ~ InStep'
    BY <1>7 DEF EndStep, InStep
  <2> QED  BY <2>1, <2>2, StepEndKeepsCalls
<1>8. ASSUME NEW s \in Steps, CloseStep(s) PROVE CallsInv'
  <2>1. StepEnd(s, FALSE) /\ pendingIds' = pendingIds /\ ~ InStep'
    BY <1>8 DEF CloseStep, InStep, loop
  <2> QED  BY <2>1, StepEndKeepsCalls
<1>9. ASSUME NEW hasText \in BOOLEAN, Answer(hasText) PROVE CallsInv'
  BY <1>9, AnswerKeepsCalls
<1>10. CASE BeginStep
  BY <1>10, BeginKeepsCalls
<1>11. CASE Dispatch
  BY <1>11, DispatchKeepsCalls
<1>12. CASE Unexecuted
  BY <1>12, UnexecutedKeepsCalls
<1> QED
  BY <1>1, <1>2, <1>3, <1>4, <1>5, <1>6, <1>7, <1>8, <1>9, <1>10, <1>11, <1>12 DEF Turn

LEMMA OthersKeepCalls ==
    ASSUME TypeOK, Begun, ExchangeInv, CallsInv, Others
    PROVE  CallsInv'
<1>1. CASE Deliver
  <2>1. AppendMessage(User("injection")) /\ UNCHANGED <<pendingIds, openSteps, step>> /\ (InStep' => InStep)
    BY <1>1 DEF Deliver, AppendUser, InStep, loop
  <2>2. "injection" \in Origins
    BY DEF Origins
  <2>3. User("injection") \in Message
    BY <2>2, NewMessages
  <2>4. User("injection").calls = {} /\ User("injection").call = NoCall /\ User("injection").origin # "user"
    BY DEF User
  <2> QED  BY <2>1, <2>3, <2>4, AppendKeepsCalls
<1>2. CASE Clear
  <2>1. /\ history' = <<>> /\ openSteps' = <<>> /\ deferred' = <<>>
        /\ Len(<<>>) = 0 /\ DOMAIN <<>> = {}
    BY <1>2, EmptySeq DEF Clear, DropExchange
  <2>2. Shapes' /\ Exchanged(history', pendingIds')
    BY <2>1 DEF Shapes, Exchanged
  <2>3. StepPlace'
    BY <2>1 DEF StepPlace
  <2> QED  BY <2>2, <2>3 DEF CallsInv
<1>3. CASE PopReminder
  BY <1>3, PopKeepsCalls
<1>4. ASSUME NEW cut, NEW count, Undo(cut, count) PROVE CallsInv'
  BY <1>4, UndoKeepsCalls
<1>5. ASSUME NEW last \in 1..Len(history), NEW kept \in 0..last, ApplyCompaction(last, kept)
      PROVE  CallsInv'
  BY <1>5, CompactionKeepsCalls
<1>6. CASE (\E last \in 1..Len(history) : BeginCompaction(last)) \/ RefuseCompaction \/ LoseCompaction
  <2>1. UNCHANGED <<history, deferred, pendingIds, rejected, openSteps, step>> /\ (InStep' => InStep)
    BY <1>6 DEF BeginCompaction, RefuseCompaction, RoundOver, LoseCompaction, memory, InStep
  <2> QED  BY <2>1, CallsUntouched
<1> QED  BY <1>1, <1>2, <1>3, <1>4, <1>5, <1>6 DEF Others

LEMMA CallsInductive ==
    /\ Init => CallsInv
    /\ MemoryInv /\ CallsInv /\ [Next]_vars => CallsInv'
<1>1. ASSUME Init PROVE CallsInv
  <2>1. history = <<>> /\ deferred = <<>> /\ ~ InStep /\ Len(<<>>) = 0
    BY <1>1, EmptySeq DEF Init, InStep
  <2> QED  BY <2>1 DEF CallsInv, Shapes, StepPlace, Exchanged
<1>2. ASSUME MemoryInv, CallsInv, Next PROVE CallsInv'
  BY <1>2, TurnKeepsCalls, OthersKeepCalls DEF MemoryInv, Next
<1>3. ASSUME MemoryInv, CallsInv, UNCHANGED vars PROVE CallsInv'
  <2>1. UNCHANGED <<history, deferred, pendingIds, rejected, openSteps, step>> /\ (InStep' => InStep)
    BY <1>3 DEF vars, loop, memory, InStep
  <2> QED  BY <1>3, <2>1, CallsUntouched DEF MemoryInv
<1> QED  BY <1>1, <1>2, <1>3

(* As long as no ceiling refused a message, every call of the history has  *)
(* its result there or is still awaited, so that the batch or the closure  *)
(* of the turn answers it: no cut of undo and no compaction separates a    *)
(* call from its result, for any number of steps and calls.                *)
THEOREM CallsStayAnswered == Spec => []UnresolvedIsAwaited
<1>1. CallsInv => UnresolvedIsAwaited
  BY DEF CallsInv, Exchanged, Settled, Awaited, UnresolvedIsAwaited, Resolved
<1> QED  BY <1>1, CallsInductive, MemoryInductive, PTL DEF Spec


-----------------------------------------------------------------------------
(* The requests.  What a prefix of the history contributes to a request.   *)
Wholes == {m \in Message : Whole(m)}
Head1(h, q) == SubSeq(h, 1, q)
SentOf(h, q) == Pick(Head1(h, q), Wholes)

LEMMA HeadIs ==
    ASSUME NEW h \in Seq(Message), NEW q \in 0..Len(h)
    PROVE  /\ Head1(h, q) \in Seq(Message) /\ Len(Head1(h, q)) = q
           /\ \A i \in 1..q : i \in 1..Len(h) /\ Head1(h, q)[i] = h[i]
<1>1. PICK a \in Nat, b \in Nat : a = 0 /\ b = q /\ a <= b /\ b <= Len(h)
  BY LenProperties
<1>2. /\ SubSeq(h, a + 1, b) \in Seq(Message) /\ Len(SubSeq(h, a + 1, b)) = b - a
      /\ \A i \in 1..(b - a) : a + i \in 1..Len(h) /\ SubSeq(h, a + 1, b)[i] = h[a + i]
  BY <1>1, SliceIs
<1>3. a + 1 = 1 /\ b - a = q /\ \A i \in 1..q : a + i = i
  BY <1>1
<1> QED  BY <1>1, <1>2, <1>3 DEF Head1

(* Only the prefix counts. *)
LEMMA HeadSame ==
    ASSUME NEW h \in Seq(Message), NEW g \in Seq(Message), NEW q \in 0..Len(h), q <= Len(g),
           \A i \in 1..q : g[i] = h[i]
    PROVE  SentOf(g, q) = SentOf(h, q)
<1>1. q \in 0..Len(g)
  BY LenProperties
<1>2. Head1(h, q) \in Seq(Message) /\ Len(Head1(h, q)) = q /\ \A i \in 1..q : Head1(h, q)[i] = h[i]
  BY HeadIs
<1>3. Head1(g, q) \in Seq(Message) /\ Len(Head1(g, q)) = q /\ \A i \in 1..q : Head1(g, q)[i] = g[i]
  BY <1>1, HeadIs
<1>4. \A i \in 1..q : Head1(g, q)[i] = Head1(h, q)[i]
  BY <1>2, <1>3
<1>5. Head1(g, q) = Head1(h, q)
  BY <1>2, <1>3, <1>4, SeqEqual
<1> QED  BY <1>5 DEF SentOf

LEMMA NothingSent ==
    ASSUME NEW h \in Seq(Message)
    PROVE  SentOf(h, 0) = <<>>
<1>1. 0 \in 0..Len(h)
  BY LenProperties
<1>2. Head1(h, 0) \in Seq(Message) /\ Len(Head1(h, 0)) = 0
  BY <1>1, HeadIs
<1>3. PICK s \in Seq(Message) : s = Head1(h, 0) /\ Len(s) = 0
  BY <1>2
<1>4. Pick(s, Wholes) \in Seq(Message \cap Wholes) /\ Len(Pick(s, Wholes)) \in 0..Len(s)
  BY PickType
<1>5. Len(Pick(s, Wholes)) = 0
  BY <1>3, <1>4
<1>6. Pick(s, Wholes) = <<>>
  BY <1>4, <1>5, EmptySeq
<1> QED  BY <1>3, <1>6 DEF SentOf

(* One list of messages behind another. *)
LEMMA MessagesJoined ==
    ASSUME NEW a \in Seq(Message), NEW b \in Seq(Message)
    PROVE  \E r \in Seq(Message) :
             /\ r = a \o b /\ Len(r) = Len(a) + Len(b)
             /\ \A k \in 1..Len(a) : r[k] = a[k]
             /\ \A k \in 1..Len(b) : r[Len(a) + k] = b[k]
             /\ \A j \in 1..Len(r) : j \in 1..Len(a) \/ \E k \in 1..Len(b) : j = Len(a) + k
<1>1. PICK r : r = a \o b
  BY Zenon
<1>2. /\ r \in Seq(Message) /\ Len(r) = Len(a) + Len(b)
      /\ \A k \in 1..Len(a) : k \in 1..Len(r) /\ r[k] = a[k]
      /\ \A k \in 1..Len(b) : Len(a) + k \in 1..Len(r) /\ r[Len(a) + k] = b[k]
      /\ \A j \in 1..Len(r) : j \in 1..Len(a) \/ \E k \in 1..Len(b) : j = Len(a) + k
  BY <1>1, JoinedIs, SMTT(40)
<1> QED  BY <1>1, <1>2

(* The whole history is its prefix and the rest. *)
LEMMA SentSplits ==
    ASSUME NEW h \in Seq(Message), NEW q \in 0..Len(h)
    PROVE  \E s, t \in Seq(Message) : SentOf(h, Len(h)) = s \o t /\ s = SentOf(h, q)
<1>1. PICK n \in Nat : n = Len(h) /\ q \in Nat /\ q <= n /\ n \in 0..n
  BY LenProperties
<1>2. PICK a \in Seq(Message) : a = Head1(h, q) /\ Len(a) = q /\ \A i \in 1..q : a[i] = h[i]
  BY HeadIs
<1>3. PICK b \in Seq(Message) : Len(b) = n - q /\ \A i \in 1..(n - q) : b[i] = h[q + i]
  <2>1. /\ SubSeq(h, q + 1, n) \in Seq(Message) /\ Len(SubSeq(h, q + 1, n)) = n - q
        /\ \A i \in 1..(n - q) : q + i \in 1..Len(h) /\ SubSeq(h, q + 1, n)[i] = h[q + i]
    BY <1>1, SliceIs, SMTT(40)
  <2> QED  BY <2>1
<1>4. Head1(h, n) \in Seq(Message) /\ Len(Head1(h, n)) = n /\ \A i \in 1..n : Head1(h, n)[i] = h[i]
  BY <1>1, HeadIs
<1>5. PICK r \in Seq(Message) : /\ r = a \o b /\ Len(r) = Len(a) + Len(b)
                                /\ \A i \in 1..Len(a) : r[i] = a[i]
                                /\ \A i \in 1..Len(b) : r[Len(a) + i] = b[i]
                                /\ \A j \in 1..Len(r) : j \in 1..Len(a) \/ \E i \in 1..Len(b) : j = Len(a) + i
  BY MessagesJoined
<1>6. Len(r) = n
  BY <1>1, <1>2, <1>3, <1>5
<1>7. \A j \in 1..n : r[j] = h[j]
  <2> SUFFICES ASSUME NEW j \in 1..n PROVE r[j] = h[j]
    OBVIOUS
  <2>1. CASE j \in 1..q
    BY <1>2, <1>5, <2>1
  <2>2. ASSUME NEW i \in 1..(n - q), j = q + i PROVE r[j] = h[j]
    BY <1>2, <1>3, <1>5, <2>2
  <2> QED  BY <1>2, <1>3, <1>5, <1>6, <2>1, <2>2
<1>8. Head1(h, n) = r
  BY <1>4, <1>6, <1>7, SeqEqual
<1>9. Pick(a \o b, Wholes) = Pick(a, Wholes) \o Pick(b, Wholes)
  BY PickConcat
<1>10. \A s \in Seq(Message) : Pick(s, Wholes) \in Seq(Message)
  <2>1. Message \cap Wholes = Wholes /\ Wholes \subseteq Message
    BY DEF Wholes
  <2>2. \A s \in Seq(Message) : Pick(s, Wholes) \in Seq(Wholes)
    BY <2>1, PickType
  <2>3. Seq(Wholes) \subseteq Seq(Message)
    BY <2>1, SeqMonotonic
  <2> QED  BY <2>2, <2>3
<1>11. SentOf(h, n) = Pick(a, Wholes) \o Pick(b, Wholes) /\ Pick(a, Wholes) = SentOf(h, q)
  BY <1>2, <1>5, <1>8, <1>9 DEF SentOf
<1> QED  BY <1>1, <1>10, <1>11

(* A message that is not sent is taken out. *)
LEMMA SentRemoved ==
    ASSUME NEW h \in Seq(Message), NEW q \in 0..Len(h), NEW i \in 1..q, ~ Whole(h[i])
    PROVE  q - 1 \in 0..Len(RemoveAt(h, i)) /\ SentOf(RemoveAt(h, i), q - 1) = SentOf(h, q)
<1>0. PICK n \in Nat : n = Len(h) /\ q \in Nat /\ q <= n /\ i \in 1..n
  BY LenProperties
<1>1. PICK g \in Seq(Message) : /\ g = RemoveAt(h, i) /\ Len(g) = n - 1
                                /\ \A k \in 1..(i - 1) : g[k] = h[k]
                                /\ \A k \in i..(n - 1) : g[k] = h[k + 1]
  <2>1. i \in 1..Len(h)
    BY <1>0
  <2>2. /\ RemoveAt(h, i) \in Seq(Message) /\ Len(RemoveAt(h, i)) = Len(h) - 1
        /\ \A k \in 1..(i - 1) : k \in 1..Len(RemoveAt(h, i)) /\ RemoveAt(h, i)[k] = h[k]
        /\ \A k \in i..(Len(h) - 1) : k + 1 \in 1..Len(h) /\ RemoveAt(h, i)[k] = h[k + 1]
    BY <2>1, RemovedIs, Zenon
  <2> QED  BY <1>0, <2>2
<1>2. PICK p \in Nat : p = q - 1 /\ p \in 0..Len(g)
  BY <1>0, <1>1
<1>3. PICK a \in Seq(Message) : Len(a) = i - 1 /\ \A k \in 1..(i - 1) : a[k] = h[k]
  <2>1. i - 1 \in 0..Len(h)
    BY <1>0
  <2> QED  BY <2>1, HeadIs
<1>4. PICK b \in Seq(Message) : Len(b) = q - i /\ \A k \in 1..(q - i) : b[k] = h[i + k]
  <2>1. i \in Nat /\ i <= q /\ q <= Len(h)
    BY <1>0
  <2>2. /\ SubSeq(h, i + 1, q) \in Seq(Message) /\ Len(SubSeq(h, i + 1, q)) = q - i
        /\ \A k \in 1..(q - i) : i + k \in 1..Len(h) /\ SubSeq(h, i + 1, q)[k] = h[i + k]
    BY <1>0, <2>1, SliceIs
  <2> QED  BY <2>2
<1>5. PICK m \in Message : m = h[i] /\ m \notin Wholes
  BY <1>0, ElementOfSeq DEF Wholes
<1>6. PICK one \in Seq(Message) : one = <<m>> /\ Len(one) = 1 /\ one[1] = m
  BY OneMessage
<1>7. PICK c \in Seq(Message) : /\ c = one \o b /\ Len(c) = 1 + Len(b) /\ c[1] = m
                                /\ \A k \in 1..Len(b) : c[1 + k] = b[k]
  <2>1. /\ one \o b \in Seq(Message) /\ Len(one \o b) = Len(one) + Len(b)
        /\ \A k \in 1..Len(one) : (one \o b)[k] = one[k]
        /\ \A k \in 1..Len(b) : (one \o b)[Len(one) + k] = b[k]
    BY JoinIs
  <2>2. 1 \in 1..Len(one)
    BY <1>6
  <2> QED  BY <1>6, <2>1, <2>2
<1>8. Head1(g, p) = a \o b
  <2>1. Head1(g, p) \in Seq(Message) /\ Len(Head1(g, p)) = p /\ \A k \in 1..p : Head1(g, p)[k] = g[k]
    BY <1>2, HeadIs
  <2>2. PICK r \in Seq(Message) : /\ r = a \o b /\ Len(r) = Len(a) + Len(b)
                                  /\ \A k \in 1..Len(a) : r[k] = a[k]
                                  /\ \A k \in 1..Len(b) : r[Len(a) + k] = b[k]
                                  /\ \A j \in 1..Len(r) : j \in 1..Len(a) \/ \E k \in 1..Len(b) : j = Len(a) + k
    BY MessagesJoined
  <2>3. Len(r) = p
    BY <1>0, <1>2, <1>3, <1>4, <2>2
  <2>4. ASSUME NEW k \in 1..p PROVE r[k] = g[k]
    <3>1. CASE k \in 1..(i - 1)
      BY <1>1, <1>3, <2>2, <3>1
    <3>2. CASE k \notin 1..(i - 1)
      <4>1. PICK x \in 1..(q - i) : k = (i - 1) + x
        <5>1. k - (i - 1) \in 1..(q - i) /\ k = (i - 1) + (k - (i - 1))
          BY <1>0, <1>2, <3>2
        <5> QED  BY <5>1
      <4>2. r[k] = h[i + x]
        BY <1>3, <1>4, <2>2, <4>1
      <4>3. k \in i..(n - 1) /\ k + 1 = i + x
        BY <1>0, <1>2, <3>2, <4>1
      <4> QED  BY <1>1, <4>2, <4>3
    <3> QED  BY <3>1, <3>2
  <2>5. \A k \in 1..p : Head1(g, p)[k] = r[k]
    BY <2>1, <2>4
  <2>6. Head1(g, p) = r
    BY <2>1, <2>3, <2>5, SeqEqual
  <2> QED  BY <2>2, <2>6
<1>9. Head1(h, q) = a \o c
  <2>1. Head1(h, q) \in Seq(Message) /\ Len(Head1(h, q)) = q /\ \A k \in 1..q : Head1(h, q)[k] = h[k]
    BY HeadIs
  <2>2. PICK r \in Seq(Message) : /\ r = a \o c /\ Len(r) = Len(a) + Len(c)
                                  /\ \A k \in 1..Len(a) : r[k] = a[k]
                                  /\ \A k \in 1..Len(c) : r[Len(a) + k] = c[k]
                                  /\ \A j \in 1..Len(r) : j \in 1..Len(a) \/ \E k \in 1..Len(c) : j = Len(a) + k
    BY MessagesJoined
  <2>3. Len(r) = q
    BY <1>0, <1>3, <1>4, <1>7, <2>2
  <2>4. ASSUME NEW k \in 1..q PROVE r[k] = h[k]
    <3>1. CASE k \in 1..(i - 1)
      BY <1>3, <2>2, <3>1
    <3>2. CASE k = i
      <4>1. 1 \in 1..Len(c) /\ k = Len(a) + 1
        BY <1>0, <1>3, <1>4, <1>7, <3>2, SMTT(30)
      <4> QED  BY <1>5, <1>7, <2>2, <3>2, <4>1
    <3>3. CASE k \notin 1..(i - 1) /\ k # i
      <4>1. PICK x \in 1..(q - i) : k = i + x
        <5>1. k - i \in 1..(q - i) /\ k = i + (k - i)
          BY <1>0, <3>3
        <5> QED  BY <5>1
      <4>2. 1 + x \in 1..Len(c) /\ k = Len(a) + (1 + x)
        BY <1>0, <1>3, <1>4, <1>7, <4>1
      <4>3. r[k] = c[1 + x]
        BY <2>2, <4>2
      <4>4. c[1 + x] = b[x] /\ b[x] = h[i + x]
        BY <1>4, <1>7
      <4> QED  BY <4>1, <4>3, <4>4
    <3> QED  BY <3>1, <3>2, <3>3
  <2>5. \A k \in 1..q : Head1(h, q)[k] = r[k]
    BY <2>1, <2>4
  <2>6. Head1(h, q) = r
    BY <2>1, <2>3, <2>5, SeqEqual
  <2> QED  BY <2>2, <2>6
<1>10. Pick(c, Wholes) = Pick(b, Wholes)
  <2>1. Pick(one \o b, Wholes) = Pick(one, Wholes) \o Pick(b, Wholes)
    BY PickConcat
  <2>2. Range(one) = {m}
    BY <1>6 DEF Range
  <2>3. Len(Pick(one, Wholes)) = 0 /\ Pick(one, Wholes) \in Seq(Message \cap Wholes)
    <3>1. Range(one) \cap Wholes = {}
      BY <1>5, <2>2
    <3> QED  BY <3>1, PickType
  <2>4. Pick(one, Wholes) = <<>>
    BY <2>3, EmptySeq
  <2>5. Pick(b, Wholes) \in Seq(Message \cap Wholes)
    BY PickType
  <2>6. <<>> \o Pick(b, Wholes) = Pick(b, Wholes)
    BY <2>5, ConcatEmptySeq
  <2> QED  BY <1>7, <2>1, <2>4, <2>6
<1>11. Pick(a \o b, Wholes) = Pick(a, Wholes) \o Pick(b, Wholes)
       /\ Pick(a \o c, Wholes) = Pick(a, Wholes) \o Pick(c, Wholes)
  BY PickConcat, ZenonT(40)
<1> QED  BY <1>1, <1>2, <1>8, <1>9, <1>10, <1>11 DEF SentOf

(* A message the model has begun to fill is stale if it is still partial:  *)
(* sealing it would change a request.  That happens only to the message of *)
(* the current step, behind what was sent, or to one in front of all open  *)
(* steps, which none of them will seal.                                    *)
Heard == pc \in {"content", "tools", "results", "inject", "end"}
Stale(m) == m.partial /\ ~ Vacuous(m)
Excused(i, q) ==
    \/ pc = "closing" /\ i > q
    \/ Heard /\ step \in DOMAIN openSteps /\ i = openSteps[step]
    \/ \A s \in DOMAIN openSteps : openSteps[s] > i

(* The last request was the first q messages of the history, of which the  *)
(* current step will change none.                                          *)
SentUpTo(q) ==
    /\ q \in 0..Len(history) /\ lastSent = SentOf(history, q)
    /\ InStep /\ step \in DOMAIN openSteps => openSteps[step] > q
    /\ \A i \in 1..Len(history) : Stale(history[i]) => Excused(i, q)

(* A message without content and calls is partial; a deferred one has      *)
(* content and is whole.                                                   *)
Filled(m) == Vacuous(m) => m.partial
Complete(m) == m.content /\ ~ m.partial
AllFilled ==
    /\ \A i \in 1..Len(history) : Filled(history[i])
    /\ \A i \in 1..Len(deferred) : Complete(deferred[i])
RequestInv == AllFilled /\ \E q : SentUpTo(q)

LEMMA CompleteIsFilled ==
    ASSUME NEW m, Complete(m)
    PROVE  Filled(m) /\ ~ Stale(m)
BY DEF Complete, Filled, Stale, Vacuous

LEMMA ExcusesKept ==
    ASSUME NEW q, step' = step, openSteps' = openSteps, Heard => Heard', pc = "closing" => pc' = "closing"
    PROVE  \A i : Excused(i, q) => Excused(i, q)'
BY DEF Excused

(* What the step may have changed: its own message. *)
Its(i) == InStep /\ step \in DOMAIN openSteps /\ i = openSteps[step] /\ Heard'

(* The history was appended to, and at most the message of the step got    *)
(* text or a call.                                                         *)
LEMMA RequestKept ==
    ASSUME TypeOK, AllFilled, NEW q, SentUpTo(q), history' \in Seq(Message),
           Len(history) <= Len(history'), UNCHANGED <<lastSent, step, openSteps>>, InStep' => InStep,
           \A i \in 1..Len(history) : history'[i] = history[i] \/ (Its(i) /\ Filled(history'[i])),
           \A i \in 1..Len(history') : i > Len(history) => Filled(history'[i]) /\ ~ Stale(history'[i]),
           \A i \in 1..Len(history) : Excused(i, q) => Excused(i, q)'
    PROVE  SentUpTo(q)' /\ \A i \in 1..Len(history') : Filled(history'[i])
<1>1. PICK L \in Nat, M \in Nat : L = Len(history) /\ M = Len(history') /\ L <= M
  BY LenProperties DEF TypeOK
<1>2. /\ q \in 0..L /\ lastSent = SentOf(history, q)
      /\ InStep /\ step \in DOMAIN openSteps => openSteps[step] > q
      /\ \A i \in 1..L : Stale(history[i]) => Excused(i, q)
  BY <1>1 DEF SentUpTo
<1>3. ASSUME NEW i \in 1..M PROVE i \in 1..L \/ i > L
  BY <1>1
<1>4. ASSUME NEW i \in 1..M PROVE Filled(history'[i])
  <2>1. CASE i \in 1..L
    BY <1>1, <2>1 DEF AllFilled
  <2>2. CASE i > L
    BY <1>1, <2>2
  <2> QED  BY <1>3, <2>1, <2>2
<1>5. \A i \in 1..q : history'[i] = history[i]
  <2> SUFFICES ASSUME NEW i \in 1..q PROVE history'[i] = history[i]
    OBVIOUS
  <2>1. i \in 1..L /\ ~ (i > q)
    BY <1>2
  <2>2. ~ Its(i)
    BY <1>2, <2>1 DEF Its
  <2> QED  BY <1>1, <2>1, <2>2
<1>6. SentOf(history', q) = SentOf(history, q)
  <2>1. history \in Seq(Message) /\ q \in 0..Len(history) /\ q <= Len(history')
    BY <1>1, <1>2 DEF TypeOK
  <2> QED  BY <1>5, <2>1, HeadSame
<1>7. ASSUME NEW i \in 1..M, Stale(history'[i]) PROVE Excused(i, q)'
  <2>1. i \in 1..L
    BY <1>1, <1>3, <1>7
  <2>2. CASE history'[i] = history[i]
    BY <1>1, <1>2, <1>7, <2>1, <2>2
  <2>3. CASE Its(i)
    BY <2>3 DEF Its, Excused
  <2> QED  BY <1>1, <2>1, <2>2, <2>3
<1>8. q \in 0..M
  BY <1>1, <1>2
<1>9. (InStep /\ step \in DOMAIN openSteps => openSteps[step] > q)'
  BY <1>2
<1>10. lastSent' = SentOf(history', q)
  BY <1>2, <1>6
<1>11. \A i \in 1..Len(history') : Stale(history'[i]) => Excused(i, q)'
  BY <1>1, <1>7
<1>12. SentUpTo(q)'
  BY <1>1, <1>8, <1>9, <1>10, <1>11 DEF SentUpTo
<1> QED  BY <1>1, <1>4, <1>12

(* The same for a push. *)
LEMMA RequestGrown ==
    ASSUME TypeOK, AllFilled, NEW q, SentUpTo(q),
           NEW base \in Seq(Message), NEW msgs \in Seq(Message), NEW k \in 0..Len(msgs),
           Len(base) = Len(history), Grown(base, msgs, k),
           \A i \in 1..Len(history) : base[i] = history[i] \/ (Its(i) /\ Filled(base[i])),
           \A i \in 1..k : Complete(msgs[i]),
           UNCHANGED <<lastSent, step, openSteps>>, InStep' => InStep,
           \A i \in 1..Len(history) : Excused(i, q) => Excused(i, q)'
    PROVE  SentUpTo(q)' /\ \A i \in 1..Len(history') : Filled(history'[i])
<1>0. Len(history) \in Nat /\ k \in Nat
  <2>1. Len(msgs) \in Nat
    BY LenProperties
  <2> QED  BY <2>1, LenProperties DEF TypeOK
<1>1. /\ Len(history') = Len(history) + k /\ history' \in Seq(Message)
      /\ \A i \in 1..Len(history) : history'[i] = base[i]
      /\ \A i \in 1..k : Alike(history'[Len(history) + i], msgs[i])
      /\ \A j \in 1..Len(history') : j \in 1..Len(history) \/ \E i \in 1..k : j = Len(history) + i
  BY DEF Grown
<1>2. Len(history) <= Len(history')
  BY <1>0, <1>1
<1>3. \A i \in 1..Len(history) : history'[i] = history[i] \/ (Its(i) /\ Filled(history'[i]))
  BY <1>1
<1>4. ASSUME NEW j \in 1..Len(history'), j > Len(history)
      PROVE  Filled(history'[j]) /\ ~ Stale(history'[j])
  <2>1. j \notin 1..Len(history)
    BY <1>0, <1>4
  <2>2. PICK i \in 1..k : j = Len(history) + i
    BY <1>1, <2>1
  <2>3. Complete(history'[j])
    BY <1>1, <2>2 DEF Alike, Complete
  <2> QED  BY <2>3, CompleteIsFilled
<1>5. \A j \in 1..Len(history') : j > Len(history) => Filled(history'[j]) /\ ~ Stale(history'[j])
  BY <1>4
<1> QED  BY <1>1, <1>2, <1>3, <1>5, RequestKept

(* Nothing of the history was touched. *)
LEMMA RequestUntouched ==
    ASSUME TypeOK, AllFilled, NEW q, SentUpTo(q),
           UNCHANGED <<history, deferred, lastSent, step, openSteps>>, InStep' => InStep,
           \A i \in 1..Len(history) : Excused(i, q) => Excused(i, q)'
    PROVE  RequestInv'
<1>1. AllFilled'
  BY DEF AllFilled
<1>2. (InStep /\ step \in DOMAIN openSteps => openSteps[step] > q)'
  BY DEF SentUpTo
<1>3. SentUpTo(q)'
  BY <1>2 DEF SentUpTo
<1> QED  BY <1>1, <1>3 DEF RequestInv


(* append_message, of a complete message. *)
LEMMA AppendKeepsRequest ==
    ASSUME TypeOK, ExchangeInv, AllFilled, NEW q, SentUpTo(q), NEW m \in Message, AppendMessage(m),
           Complete(m), UNCHANGED <<lastSent, openSteps, step>>, InStep' => InStep,
           \A i \in 1..Len(history) : Excused(i, q) => Excused(i, q)'
    PROVE  RequestInv'
<1>1. /\ history \in Seq(Message) /\ deferred \in Seq(Message) /\ nextSeq \in Nat
      /\ Len(deferred) \in Nat
  BY LenProperties DEF TypeOK
<1>2. DeferredOnlyWhileOpen
  BY DEF ExchangeInv
<1>3. CASE pendingIds # {}
  <2>1. history' = history /\ deferred' \in {deferred, Append(deferred, m)}
    BY <1>2, <1>3, AppendEdit
  <2>2. \A i \in 1..Len(deferred') : Complete(deferred'[i])
    <3>1. CASE deferred' = deferred
      BY <3>1 DEF AllFilled
    <3>2. CASE deferred' = Append(deferred, m)
      <4>1. /\ Len(deferred') = Len(deferred) + 1 /\ deferred'[Len(deferred) + 1] = m
            /\ \A i \in 1..Len(deferred) : deferred'[i] = deferred[i]
        BY <1>1, <3>2, AppendProperties
      <4> QED  BY <1>1, <4>1 DEF AllFilled
    <3> QED  BY <2>1, <3>1, <3>2
  <2>3. AllFilled'
    BY <2>1, <2>2 DEF AllFilled
  <2>4. (InStep /\ step \in DOMAIN openSteps => openSteps[step] > q)'
    BY DEF SentUpTo
  <2>5. SentUpTo(q)'
    BY <2>1, <2>4 DEF SentUpTo
  <2> QED  BY <2>3, <2>5 DEF RequestInv
<1>4. CASE pendingIds = {}
  <2>1. deferred' = deferred /\ \E k : Edit(history, <<m>>, k)
    BY <1>2, <1>4, AppendEdit
  <2>2. PICK one \in Seq(Message) : one = <<m>> /\ Len(one) = 1 /\ one[1] = m
    BY OneMessage
  <2>3. PICK k : Edit(history, one, k)
    BY <2>1, <2>2
  <2>4. k \in 0..Len(one) /\ history' = history \o Numbered(one, k)
    BY <2>3 DEF Edit, Grew
  <2>5. Grown(history, one, k)
    BY <1>1, <2>4, GrownIs
  <2>6. \A i \in 1..k : Complete(one[i])
    BY <2>2, <2>4
  <2>7. \A i \in 1..Len(history) : history[i] = history[i] \/ (Its(i) /\ Filled(history[i]))
    OBVIOUS
  <2>8. SentUpTo(q)' /\ \A i \in 1..Len(history') : Filled(history'[i])
    BY <1>1, <2>2, <2>4, <2>5, <2>6, <2>7, RequestGrown
  <2>9. AllFilled'
    BY <2>1, <2>8 DEF AllFilled
  <2> QED  BY <2>8, <2>9 DEF RequestInv
<1> QED  BY <1>3, <1>4

(* A result is recorded; with the last one the deferred messages follow. *)
LEMMA ResultKeepsRequest ==
    ASSUME TypeOK, AllFilled, NEW q, SentUpTo(q), NEW c, RecordToolResult(c),
           UNCHANGED <<arrivals, lastSent, openSteps, step>>, InStep' => InStep,
           \A i \in 1..Len(history) : Excused(i, q) => Excused(i, q)'
    PROVE  RequestInv'
<1>1. /\ history \in Seq(Message) /\ deferred \in Seq(Message) /\ nextSeq \in Nat
      /\ Len(deferred) \in Nat
  BY LenProperties DEF TypeOK
<1>2. CASE c \notin pendingIds
  <2>1. UNCHANGED <<history, deferred>>
    BY <1>2 DEF RecordToolResult
  <2> QED  BY <2>1, RequestUntouched
<1>3. CASE c \in pendingIds
  <2>1. PICK msgs, k : /\ Edit(history, msgs, k)
                       /\ \/ Flush(msgs) /\ msgs = <<Result(c)>> \o deferred
                          \/ Plain(msgs) /\ deferred' = deferred /\ msgs = <<Result(c)>>
    BY <1>3, ResultEdit
  <2>2. msgs \in Seq(Message) /\ k \in 0..Len(msgs) /\ history' = history \o Numbered(msgs, k)
    BY <2>1 DEF Edit, Grew
  <2>3. Grown(history, msgs, k)
    BY <1>1, <2>2, GrownIs
  <2>4. c \in CallIds /\ Result(c) \in Message /\ Complete(Result(c))
    <3>1. c \in CallIds
      BY <1>3 DEF TypeOK
    <3>2. Complete(Result(c))
      BY DEF Complete, Result
    <3> QED  BY <3>1, <3>2, NewMessages
  <2>5. PICK one \in Seq(Message) : one = <<Result(c)>> /\ Len(one) = 1 /\ one[1] = Result(c)
    BY <2>4, OneMessage
  <2>6. \A i \in 1..Len(msgs) : Complete(msgs[i])
    <3>1. CASE msgs = one
      BY <2>4, <2>5, <3>1
    <3>2. CASE msgs = one \o deferred
      <4>1. PICK r \in Seq(Message) :
               /\ r = one \o deferred /\ Len(r) = Len(one) + Len(deferred)
               /\ \A j \in 1..Len(one) : r[j] = one[j]
               /\ \A j \in 1..Len(deferred) : r[Len(one) + j] = deferred[j]
               /\ \A i \in 1..Len(r) : i \in 1..Len(one) \/ \E j \in 1..Len(deferred) : i = Len(one) + j
        BY <1>1, MessagesJoined
      <4>2. \A j \in 1..Len(one) : Complete(one[j])
        BY <2>4, <2>5
      <4>3. ASSUME NEW i \in 1..Len(r) PROVE Complete(r[i])
        BY <4>1, <4>2 DEF AllFilled
      <4> QED  BY <3>2, <4>1, <4>3
    <3> QED  BY <2>1, <2>5, <3>1, <3>2
  <2>7. \A i \in 1..k : Complete(msgs[i])
    <3>1. Len(msgs) \in Nat
      BY <2>2, LenProperties
    <3> QED  BY <2>2, <2>6, <3>1
  <2>8. \A i \in 1..Len(history) : history[i] = history[i] \/ (Its(i) /\ Filled(history[i]))
    OBVIOUS
  <2>9. SentUpTo(q)' /\ \A i \in 1..Len(history') : Filled(history'[i])
    BY <1>1, <2>2, <2>3, <2>7, <2>8, RequestGrown
  <2>10. deferred' = deferred \/ deferred' = <<>>
    BY <1>3 DEF RecordToolResult
  <2>11. \A i \in 1..Len(deferred') : Complete(deferred'[i])
    <3>1. Len(<<>>) = 0
      BY EmptySeq
    <3> QED  BY <2>10, <3>1 DEF AllFilled
  <2>12. AllFilled'
    BY <2>9, <2>11 DEF AllFilled
  <2> QED  BY <2>9, <2>12 DEF RequestInv
<1> QED  BY <1>2, <1>3

(* Text is recorded. *)
LEMMA AnswerKeepsRequest ==
    ASSUME TypeOK, AllFilled, NEW q, SentUpTo(q), NEW hasText, Answer(hasText)
    PROVE  RequestInv'
<1>1. history' \in Seq(Message) /\ Len(history') = Len(history) /\ Len(history) \in Nat
  BY AnswerIs, LenProperties DEF TypeOK
<1>2. UNCHANGED <<lastSent, step, openSteps, deferred>> /\ InStep /\ Heard' /\ ~ Heard /\ pc # "closing"
  BY DEF Answer, ghosts, InStep, Heard
<1>3. \A i \in 1..Len(history) : Excused(i, q) => Excused(i, q)'
  BY <1>2, ExcusesKept
<1>4. \A i \in 1..Len(history) : history'[i] = history[i] \/ (Its(i) /\ Filled(history'[i]))
  <2>1. CASE hasText /\ StepIsStored
    <3>1. PICK p \in 1..Len(history) : p = openSteps[step] /\ step \in DOMAIN openSteps
      BY <1>1, <2>1 DEF TypeOK, StepIsStored
    <3>2. history[p] \in Message
      BY <3>1, ElementOfSeq DEF TypeOK
    <3>3. PICK e \in Message : e = [history[p] EXCEPT !.content = TRUE] /\ e.content
      BY <3>2, MessageFilled
    <3>4. history' = [history EXCEPT ![p] = e]
      BY <2>1, <3>1, <3>3 DEF Answer
    <3>5. \A j \in 1..Len(history) : history'[j] = IF j = p THEN e ELSE history[j]
      BY <3>1, <3>3, <3>4, ExceptSeq DEF TypeOK
    <3>6. Filled(e) /\ Its(p)
      BY <1>2, <3>1, <3>3 DEF Filled, Vacuous, Its
    <3> QED  BY <3>5, <3>6
  <2>2. CASE ~ (hasText /\ StepIsStored)
    BY <2>2 DEF Answer
  <2> QED  BY <2>1, <2>2
<1>5. \A i \in 1..Len(history') : i > Len(history) => Filled(history'[i]) /\ ~ Stale(history'[i])
  BY <1>1
<1>6. SentUpTo(q)' /\ \A i \in 1..Len(history') : Filled(history'[i])
  <2>1. Len(history) <= Len(history')
    BY <1>1
  <2> QED  BY <1>1, <1>2, <1>3, <1>4, <1>5, <2>1, RequestKept
<1>7. AllFilled'
  BY <1>2, <1>6 DEF AllFilled
<1> QED  BY <1>6, <1>7 DEF RequestInv

(* A call is recorded in the message of the step. *)
LEMMA CallAt ==
    ASSUME TypeOK, NEW c \in CallIds
    PROVE  /\ WithCall(c) \in Seq(Message) /\ Len(WithCall(c)) = Len(history)
           /\ \A i \in 1..Len(history) :
                \/ WithCall(c)[i] = history[i]
                \/ /\ step \in DOMAIN openSteps /\ i = openSteps[step]
                   /\ Filled(WithCall(c)[i])
<1>1. WithCall(c) \in Seq(Message) /\ Len(WithCall(c)) = Len(history) /\ Len(history) \in Nat
  BY WithCallIs, LenProperties DEF TypeOK
<1>2. PICK g : g = WithCall(c)
  BY Zenon
<1>3. CASE StepIsStored
  <2>1. PICK p \in 1..Len(history) : p = openSteps[step] /\ step \in DOMAIN openSteps
    BY <1>1, <1>3 DEF TypeOK, StepIsStored
  <2>2. history[p] \in Message
    BY <2>1, ElementOfSeq DEF TypeOK
  <2>3. PICK e \in Message : e = [history[p] EXCEPT !.calls = @ \cup {c}] /\ e.calls = history[p].calls \cup {c}
    BY <2>2, MessageCalling
  <2>4. g = [history EXCEPT ![p] = e]
    BY <1>2, <1>3, <2>1, <2>3 DEF WithCall
  <2>5. \A j \in 1..Len(history) : g[j] = IF j = p THEN e ELSE history[j]
    BY <2>1, <2>3, <2>4, ExceptSeq DEF TypeOK
  <2>6. Filled(e)
    BY <2>3 DEF Filled, Vacuous
  <2> QED  BY <1>1, <1>2, <2>1, <2>5, <2>6
<1>4. CASE ~ StepIsStored
  BY <1>1, <1>4 DEF WithCall
<1> QED  BY <1>3, <1>4

LEMMA DispatchKeepsRequest ==
    ASSUME TypeOK, Begun, AllFilled, NEW q, SentUpTo(q), Dispatch
    PROVE  RequestInv'
<1>1. NextCall \in CallIds
  BY NextCallIsCall DEF Dispatch, InStep
<1>2. PICK g \in Seq(Message) : /\ g = WithCall(NextCall) /\ Len(g) = Len(history)
                                /\ \A i \in 1..Len(history) :
                                     \/ g[i] = history[i]
                                     \/ /\ step \in DOMAIN openSteps /\ i = openSteps[step]
                                        /\ Filled(g[i])
  BY <1>1, CallAt
<1>3. /\ UNCHANGED <<lastSent, step, openSteps, deferred>> /\ history' = g
      /\ InStep /\ Heard' /\ Heard /\ pc # "closing"
  BY <1>2 DEF Dispatch, ghosts, InStep, Heard
<1>4. \A i \in 1..Len(history) : Excused(i, q) => Excused(i, q)'
  BY <1>3, ExcusesKept
<1>5. Len(history) \in Nat
  BY LenProperties DEF TypeOK
<1>6. history' \in Seq(Message) /\ Len(history) <= Len(history')
  BY <1>2, <1>3, <1>5
<1>7. \A i \in 1..Len(history) : history'[i] = history[i] \/ (Its(i) /\ Filled(history'[i]))
  BY <1>2, <1>3 DEF Its
<1>8. \A i \in 1..Len(history') : i > Len(history) => Filled(history'[i]) /\ ~ Stale(history'[i])
  BY <1>2, <1>3, <1>5
<1>9. SentUpTo(q)' /\ \A i \in 1..Len(history') : Filled(history'[i])
  BY <1>3, <1>4, <1>6, <1>7, <1>8, RequestKept
<1>10. AllFilled'
  BY <1>3, <1>9 DEF AllFilled
<1> QED  BY <1>9, <1>10 DEF RequestInv

LEMMA UnexecutedKeepsRequest ==
    ASSUME TypeOK, Begun, AllFilled, NEW q, SentUpTo(q), Unexecuted
    PROVE  RequestInv'
<1>1. NextCall \in CallIds
  BY NextCallIsCall DEF Unexecuted, InStep
<1>2. PICK g \in Seq(Message) : /\ g = WithCall(NextCall) /\ Len(g) = Len(history)
                                /\ \A i \in 1..Len(history) :
                                     \/ g[i] = history[i]
                                     \/ /\ step \in DOMAIN openSteps /\ i = openSteps[step]
                                        /\ Filled(g[i])
  BY <1>1, CallAt
<1>3. /\ UNCHANGED <<lastSent, step, openSteps, deferred>>
      /\ InStep /\ Heard' /\ Heard /\ pc # "closing"
  BY DEF Unexecuted, ghosts, InStep, Heard
<1>4. \A i \in 1..Len(history) : Excused(i, q) => Excused(i, q)'
  BY <1>3, ExcusesKept
<1>5. Result(NextCall) \in Message /\ Complete(Result(NextCall))
  <2>1. Complete(Result(NextCall))
    BY DEF Complete, Result
  <2> QED  BY <1>1, <2>1, NewMessages
<1>6. PICK one \in Seq(Message) : one = <<Result(NextCall)>> /\ Len(one) = 1 /\ one[1] = Result(NextCall)
  BY <1>5, OneMessage
<1>7. Push(g, one) /\ nextSeq \in Nat /\ rejected \in BOOLEAN
  BY <1>2, <1>6 DEF Unexecuted, TypeOK
<1>8. PICK k \in 0..Len(one) : Grew(g, one, k)
  BY <1>7, PushGrows
<1>9. Grown(g, one, k)
  BY <1>7, <1>8, GrownIs DEF Grew
<1>10. \A i \in 1..k : Complete(one[i])
  BY <1>5, <1>6, <1>8
<1>11. \A i \in 1..Len(history) : g[i] = history[i] \/ (Its(i) /\ Filled(g[i]))
  BY <1>2, <1>3 DEF Its
<1>12. SentUpTo(q)' /\ \A i \in 1..Len(history') : Filled(history'[i])
  BY <1>2, <1>3, <1>4, <1>8, <1>9, <1>10, <1>11, RequestGrown
<1>13. AllFilled'
  BY <1>3, <1>12 DEF AllFilled
<1> QED  BY <1>12, <1>13 DEF RequestInv


(* The request holds what is whole of the history. *)
LEMMA SentIs ==
    ASSUME TypeOK
    PROVE  Sent = SentOf(history, Len(history))
<1>1. history \in Seq(Message) /\ Len(history) \in Nat /\ Len(history) \in 0..Len(history)
  BY LenProperties DEF TypeOK
<1>2. /\ Head1(history, Len(history)) \in Seq(Message) /\ Len(Head1(history, Len(history))) = Len(history)
      /\ \A i \in 1..Len(history) : Head1(history, Len(history))[i] = history[i]
  BY <1>1, HeadIs
<1>3. Head1(history, Len(history)) = history
  BY <1>1, <1>2, SeqEqual
<1>4. PICK P : P = {m \in Range(history) : Whole(m)}
  BY Zenon
<1>5. \A i \in DOMAIN history : history[i] \in Message /\ history[i] \in Range(history)
  BY <1>1, ElementOfSeq DEF Range
<1>6. PickedAt(history, P) = PickedAt(history, Wholes)
  BY <1>4, <1>5 DEF PickedAt, Wholes
<1>7. Pick(history, P) = Pick(history, Wholes)
  BY <1>6 DEF Pick
<1> QED  BY <1>3, <1>4, <1>7 DEF SentOf, Sent

(* StepBegin: all of the history was sent, and the new message is behind. *)
LEMMA BeginKeepsRequest ==
    ASSUME TypeOK, Begun, AllFilled, NEW q, SentUpTo(q), BeginStep
    PROVE  RequestInv'
<1>1. /\ history \in Seq(Message) /\ nextSeq \in Nat /\ Len(history) \in Nat
      /\ rejected \in BOOLEAN /\ step \in Nat
  BY LenProperties DEF TypeOK
<1>2. PICK m \in Message : m = Assistant(step + 1) /\ m.calls = {} /\ ~ m.content /\ m.partial
  <2>1. PICK w \in Nat : w = step + 1
    BY <1>1
  <2>2. Assistant(w) \in Message
    BY NewMessages
  <2>3. Assistant(w).calls = {} /\ ~ Assistant(w).content /\ Assistant(w).partial
    BY DEF Assistant
  <2> QED  BY <2>1, <2>2, <2>3
<1>3. PICK one \in Seq(Message) : one = <<m>> /\ Len(one) = 1 /\ one[1] = m
  BY OneMessage
<1>4. Push(history, one) /\ deferred' = deferred /\ step' = step + 1 /\ pc = "before" /\ pc' = "llm"
  BY <1>2, <1>3 DEF BeginStep
<1>5. PICK k \in 0..Len(one) : Grew(history, one, k)
  BY <1>1, <1>4, PushGrows
<1>6. Grown(history, one, k)
  BY <1>1, <1>5, GrownIs DEF Grew
<1>7. PICK L \in Nat : L = Len(history)
  BY <1>1
<1>8. /\ history' \in Seq(Message) /\ Len(history') = L + k /\ k \in Nat
      /\ \A i \in 1..L : history'[i] = history[i]
      /\ \A j \in 1..Len(history') : j \in 1..L \/ \E i \in 1..k : j = L + i
  BY <1>3, <1>5, <1>6, <1>7 DEF Grown
<1>9. \A i \in 1..k : history'[L + i].partial /\ Vacuous(history'[L + i])
  <2>1. \A i \in 1..k : one[i] = m /\ Alike(history'[L + i], one[i])
    BY <1>3, <1>5, <1>6, <1>7 DEF Grown
  <2> QED  BY <1>2, <2>1 DEF Alike, Vacuous
<1>10. AllFilled'
  <2>1. ASSUME NEW j \in 1..Len(history') PROVE Filled(history'[j])
    <3>1. CASE j \in 1..L
      BY <1>7, <1>8, <3>1 DEF AllFilled
    <3>2. ASSUME NEW i \in 1..k, j = L + i PROVE Filled(history'[j])
      BY <1>9, <3>2 DEF Filled
    <3> QED  BY <1>8, <3>1, <3>2
  <2> QED  BY <1>4, <2>1 DEF AllFilled
<1>11. L \in 0..Len(history') /\ L <= Len(history')
  BY <1>8
<1>12. lastSent' = SentOf(history', L)
  <2>1. lastSent' = SentOf(history, L)
    BY <1>7, SentIs DEF BeginStep
  <2>2. L \in 0..Len(history)
    BY <1>7
  <2>3. SentOf(history', L) = SentOf(history, L)
    BY <1>1, <1>8, <1>11, <2>2, HeadSame
  <2> QED  BY <2>1, <2>3
<1>13. /\ DOMAIN openSteps \subseteq DOMAIN openSteps'
       /\ \A t \in DOMAIN openSteps' : \/ t \in DOMAIN openSteps /\ openSteps'[t] = openSteps[t] /\ t # step + 1
                                       \/ openSteps'[t] = L + 1
  <2>1. step + 1 \notin DOMAIN openSteps
    BY <1>1 DEF Begun
  <2>2. CASE L < MaxHistory
    BY <1>7, <2>1, <2>2 DEF BeginStep
  <2>3. CASE ~ (L < MaxHistory)
    <3>1. openSteps' = openSteps
      BY <1>7, <2>3 DEF BeginStep
    <3> QED  BY <2>1, <3>1
  <2> QED  BY <2>2, <2>3
<1>14. ASSUME step' \in DOMAIN openSteps' PROVE openSteps'[step'] > L
  <2>1. openSteps'[step'] = L + 1
    BY <1>4, <1>13, <1>14
  <2> QED  BY <1>7, <2>1
<1>15. ASSUME NEW j \in 1..Len(history'), Stale(history'[j]) PROVE Excused(j, L)'
  <2>1. \A i \in 1..k : ~ Stale(history'[L + i])
    BY <1>9 DEF Stale
  <2>2. j \in 1..L
    BY <1>8, <1>15, <2>1
  <2>3. Stale(history[j])
    BY <1>8, <1>15, <2>2
  <2>4. Excused(j, q)
    BY <1>7, <2>2, <2>3 DEF SentUpTo
  <2>5. \A t \in DOMAIN openSteps : openSteps[t] > j
    BY <1>4, <2>4 DEF Excused, Heard
  <2>6. L + 1 > j
    BY <1>7, <2>2
  <2>7. \A t \in DOMAIN openSteps' : openSteps'[t] > j
    BY <1>13, <2>5, <2>6
  <2> QED  BY <2>7 DEF Excused
<1>16. SentUpTo(L)'
  BY <1>11, <1>12, <1>14, <1>15 DEF SentUpTo
<1> QED  BY <1>10, <1>16 DEF RequestInv

(* StepEnd, at the end of the step or in the closure of a turn. *)
Ending(s) == (pc = "end" /\ pc' = "after" /\ s = step) \/ (pc = "closing" /\ pc' = "closing")

LEMMA ExcusedStill ==
    ASSUME NEW s, Ending(s), NEW q, NEW j, Excused(j, q), s \in DOMAIN openSteps => j # openSteps[s]
    PROVE  (pc = "closing" /\ pc' = "closing" /\ j > q) \/ \A t \in DOMAIN openSteps : openSteps[t] > j
<1>1. CASE pc = "end" /\ s = step
  BY <1>1 DEF Excused, Heard
<1>2. CASE pc = "closing" /\ pc' = "closing"
  BY <1>2 DEF Excused, Heard
<1> QED  BY <1>1, <1>2 DEF Ending

LEMMA StepEndKeepsRequest ==
    ASSUME TypeOK, ExchangeInv, AllFilled, NEW q, SentUpTo(q), NEW s, NEW usage, StepEnd(s, usage),
           Ending(s), UNCHANGED <<lastSent, step>>
    PROVE  RequestInv'
<1>1. history \in Seq(Message) /\ Len(history) \in Nat
  BY LenProperties DEF TypeOK
<1>2. /\ history' = StepBase(s) /\ deferred' = deferred
      /\ openSteps' = [t \in DOMAIN openSteps \ {s} |-> openSteps[t]]
  BY StepEndIs DEF ExchangeInv
<1>3. ~ InStep'
  BY DEF Ending, InStep
<1>4. PICK L \in Nat : L = Len(history)
  BY <1>1
<1>5. q \in 0..L /\ q \in Nat /\ lastSent = SentOf(history, q)
      /\ \A i \in 1..L : Stale(history[i]) => Excused(i, q)
  BY <1>4 DEF SentUpTo
<1>6. \A i \in 1..L : Filled(history[i])
  BY <1>4 DEF AllFilled
<1>7. ASSUME NEW j, \A t \in DOMAIN openSteps : openSteps[t] > j PROVE \A r : Excused(j, r)'
  BY <1>2, <1>7 DEF Excused
<1>8. \A i \in 1..Len(deferred') : Complete(deferred'[i])
  BY <1>2 DEF AllFilled
<1>9. CASE ~ (s \in DOMAIN openSteps /\ openSteps[s] <= L)
  <2>1. history' = history
    BY <1>2, <1>4, <1>9 DEF StepBase
  <2>2. ASSUME NEW j \in 1..L, Stale(history[j]) PROVE Excused(j, q)'
    <3>1. Excused(j, q)
      BY <1>5, <2>2
    <3>2. s \in DOMAIN openSteps => j # openSteps[s]
      BY <1>4, <1>9
    <3>3. (pc' = "closing" /\ j > q) \/ \A t \in DOMAIN openSteps : openSteps[t] > j
      BY <3>1, <3>2, ExcusedStill
    <3>4. CASE pc' = "closing" /\ j > q
      BY <3>4 DEF Excused
    <3> QED  BY <1>7, <3>3, <3>4
  <2>3. SentUpTo(q)'
    BY <1>3, <1>4, <1>5, <2>1, <2>2 DEF SentUpTo
  <2>4. AllFilled'
    BY <1>4, <1>6, <1>8, <2>1 DEF AllFilled
  <2> QED  BY <2>3, <2>4 DEF RequestInv
<1>10. CASE s \in DOMAIN openSteps /\ openSteps[s] <= L
  <2>1. PICK p \in 1..L : p = openSteps[s]
    BY <1>4, <1>10 DEF TypeOK
  <2>2. history' = Settle(p)
    BY <1>2, <1>4, <1>10, <2>1 DEF StepBase
  <2>3. history[p] \in Message
    BY <1>1, <1>4, ElementOfSeq
  <2>4. CASE Vacuous(history[p])
    <3>1. ~ Whole(history[p])
      BY <1>6, <2>4 DEF Filled, Whole
    <3>2. PICK g \in Seq(Message) : /\ g = history' /\ Len(g) = L - 1
                                    /\ \A k \in 1..(p - 1) : g[k] = history[k]
                                    /\ \A k \in p..(L - 1) : k + 1 \in 1..L /\ g[k] = history[k + 1]
      <4>1. history' = RemoveAt(history, p)
        BY <2>2, <2>4 DEF Settle
      <4>2. /\ RemoveAt(history, p) \in Seq(Message) /\ Len(RemoveAt(history, p)) = Len(history) - 1
            /\ \A k \in 1..(p - 1) : k \in 1..Len(RemoveAt(history, p)) /\ RemoveAt(history, p)[k] = history[k]
            /\ \A k \in p..(Len(history) - 1) : k + 1 \in 1..Len(history) /\ RemoveAt(history, p)[k] = history[k + 1]
        BY <1>1, <1>4, RemovedIs
      <4> QED  BY <1>4, <4>1, <4>2
    <3>3. PICK r \in Nat : /\ r = (IF p <= q THEN q - 1 ELSE q)
                           /\ r \in 0..Len(g) /\ SentOf(g, r) = SentOf(history, q)
      <4>1. CASE p <= q
        <5>1. q \in 0..Len(history) /\ p \in 1..q
          BY <1>4, <1>5, <4>1
        <5>2. q - 1 \in 0..Len(RemoveAt(history, p)) /\ SentOf(RemoveAt(history, p), q - 1) = SentOf(history, q)
          BY <1>1, <3>1, <5>1, SentRemoved
        <5>3. g = RemoveAt(history, p)
          BY <2>2, <2>4, <3>2 DEF Settle
        <5>4. q - 1 \in Nat
          BY <5>1
        <5> QED  BY <4>1, <5>2, <5>3, <5>4
      <4>2. CASE ~ (p <= q)
        <5>1. q \in 0..Len(history) /\ q <= Len(g) /\ q \in 0..Len(g)
          BY <1>4, <1>5, <3>2, <4>2
        <5>2. \A i \in 1..q : g[i] = history[i]
          BY <1>5, <3>2, <4>2
        <5>3. SentOf(g, q) = SentOf(history, q)
          BY <1>1, <5>1, <5>2, HeadSame
        <5> QED  BY <1>5, <4>2, <5>1, <5>3
      <4> QED  BY <4>1, <4>2
    <3>4. ASSUME NEW j \in 1..(L - 1)
          PROVE  \E x \in 1..L : /\ g[j] = history[x] /\ x # p
                                 /\ x < p => j = x
                                 /\ x > p => x = j + 1
      <4>1. CASE j \in 1..(p - 1)
        <5>1. j \in 1..L /\ j < p /\ j # p
          BY <4>1
        <5> QED  BY <3>2, <4>1, <5>1
      <4>2. CASE j \notin 1..(p - 1)
        <5>1. j \in p..(L - 1) /\ j + 1 \in 1..L /\ j + 1 > p /\ j + 1 # p
          BY <4>2
        <5> QED  BY <3>2, <5>1
      <4> QED  BY <4>1, <4>2
    <3>5. ASSUME NEW j \in 1..(L - 1), Stale(g[j]) PROVE Excused(j, r)'
      <4>1. PICK x \in 1..L : /\ g[j] = history[x] /\ x # p
                              /\ x < p => j = x
                              /\ x > p => x = j + 1
        BY <3>4
      <4>2. Excused(x, q)
        BY <1>5, <3>5, <4>1
      <4>3. \/ pc' = "closing" /\ x > q
            \/ \A t \in DOMAIN openSteps : openSteps[t] > x
        BY <2>1, <4>1, <4>2, ExcusedStill
      <4>4. CASE pc' = "closing" /\ x > q
        <5>1. j > r
          BY <1>5, <3>3, <4>1, <4>4
        <5> QED  BY <4>4, <5>1 DEF Excused
      <4>5. CASE \A t \in DOMAIN openSteps : openSteps[t] > x
        <5>1. p > x
          BY <1>10, <2>1, <4>5
        <5>2. j = x
          BY <4>1, <5>1
        <5> QED  BY <1>7, <4>5, <5>2
      <4> QED  BY <4>3, <4>4, <4>5
    <3>6. \A j \in 1..(L - 1) : Filled(g[j])
      BY <1>6, <3>4
    <3>7. SentUpTo(r)'
      BY <1>3, <1>5, <3>2, <3>3, <3>5 DEF SentUpTo
    <3>8. AllFilled'
      BY <1>8, <3>2, <3>6 DEF AllFilled
    <3> QED  BY <3>7, <3>8 DEF RequestInv
  <2>5. CASE ~ Vacuous(history[p])
    <3>1. PICK e \in Message : /\ e = [history[p] EXCEPT !.partial = FALSE]
                               /\ e.calls = history[p].calls /\ e.content = history[p].content /\ ~ e.partial
      <4>1. [history[p] EXCEPT !.partial = FALSE] \in Message
        BY <2>3, MessageSealed
      <4>2. /\ [history[p] EXCEPT !.partial = FALSE].calls = history[p].calls
            /\ [history[p] EXCEPT !.partial = FALSE].content = history[p].content
            /\ ~ [history[p] EXCEPT !.partial = FALSE].partial
        BY <2>3 DEF Message
      <4> QED  BY <4>1, <4>2
    <3>2. history' = [history EXCEPT ![p] = e]
      BY <2>2, <2>5, <3>1 DEF Settle, Sealed
    <3>3. /\ history' \in Seq(Message) /\ Len(history') = L
          /\ \A j \in 1..L : history'[j] = IF j = p THEN e ELSE history[j]
      BY <1>1, <1>4, <3>1, <3>2, ExceptSeq
    <3>4. ASSUME NEW j \in 1..L, Stale(history'[j]) PROVE Excused(j, q)'
      <4>1. j # p
        BY <3>1, <3>3, <3>4 DEF Stale
      <4>2. Excused(j, q)
        BY <1>5, <3>3, <3>4, <4>1
      <4>3. (pc' = "closing" /\ j > q) \/ \A t \in DOMAIN openSteps : openSteps[t] > j
        BY <2>1, <4>1, <4>2, ExcusedStill
      <4>4. CASE pc' = "closing" /\ j > q
        BY <4>4 DEF Excused
      <4> QED  BY <1>7, <4>3, <4>4
    <3>5. ASSUME p <= q PROVE e = history[p]
      <4>1. ~ Excused(p, q)
        <5>1. ~ (p > q)
          BY <1>5, <3>5
        <5>2. ~ (\A t \in DOMAIN openSteps : openSteps[t] > p)
          BY <1>10, <2>1
        <5>3. ~ (Heard /\ step \in DOMAIN openSteps /\ p = openSteps[step])
          <6>1. InStep /\ step \in DOMAIN openSteps => openSteps[step] > q
            BY DEF SentUpTo
          <6> QED  BY <5>1, <6>1 DEF InStep, Heard
        <5> QED  BY <5>1, <5>2, <5>3 DEF Excused
      <4>2. ~ history[p].partial
        BY <1>5, <2>5, <4>1 DEF Stale
      <4>3. history[p].partial = FALSE
        BY <2>3, <4>2, MessageFields
      <4> QED  BY <2>3, <3>1, <4>3 DEF Message
    <3>6. \A i \in 1..q : history'[i] = history[i]
      <4> SUFFICES ASSUME NEW i \in 1..q PROVE history'[i] = history[i]
        OBVIOUS
      <4>1. i \in 1..L /\ (i = p => p <= q)
        BY <1>5
      <4> QED  BY <3>3, <3>5, <4>1
    <3>7. SentOf(history', q) = SentOf(history, q)
      <4>1. q \in 0..Len(history) /\ q <= Len(history')
        BY <1>4, <1>5, <3>3
      <4> QED  BY <1>1, <3>3, <3>6, <4>1, HeadSame
    <3>8. \A j \in 1..L : Filled(history'[j])
      <4>1. Filled(e)
        BY <2>5, <3>1 DEF Filled, Vacuous
      <4> QED  BY <1>6, <3>3, <4>1
    <3>9. SentUpTo(q)'
      BY <1>3, <1>5, <3>3, <3>4, <3>7 DEF SentUpTo
    <3>10. AllFilled'
      BY <1>8, <3>3, <3>8 DEF AllFilled
    <3> QED  BY <3>9, <3>10 DEF RequestInv
  <2> QED  BY <2>4, <2>5
<1> QED  BY <1>4, <1>9, <1>10


(* The rewrites: no request is compared with an earlier one. *)
LEMMA ResetKeepsRequest ==
    ASSUME history' \in Seq(Message), lastSent' = <<>>,
           \A t \in DOMAIN openSteps' : openSteps'[t] \in Nat \ {0},
           \A i \in 1..Len(history') : Filled(history'[i]),
           \A i \in 1..Len(deferred') : Complete(deferred'[i]),
           \A i \in 1..Len(history') : Stale(history'[i]) => Excused(i, 0)'
    PROVE  RequestInv'
<1>1. 0 \in 0..Len(history')
  BY LenProperties
<1>2. lastSent' = SentOf(history', 0)
  BY NothingSent
<1>3. (InStep /\ step \in DOMAIN openSteps => openSteps[step] > 0)'
  <2>1. \A t \in DOMAIN openSteps' : openSteps'[t] > 0
    OBVIOUS
  <2> QED  BY <2>1
<1>4. SentUpTo(0)'
  BY <1>1, <1>2, <1>3 DEF SentUpTo
<1>5. AllFilled'
  BY DEF AllFilled
<1> QED  BY <1>4, <1>5 DEF RequestInv

LEMMA UndoKeepsRequest ==
    ASSUME TypeOK, CallsInv, AllFilled, NEW q, SentUpTo(q), NEW cut, NEW count, Undo(cut, count)
    PROVE  RequestInv'
<1>1. history \in Seq(Message) /\ Len(history) \in Nat
  BY LenProperties DEF TypeOK
<1>2. cut \in 1..Len(history) /\ history[cut].origin = "user"
  BY UndoIs
<1>3. PICK a \in Nat, b \in Nat : b = cut - 1 /\ Slice(a, b)
  <2>1. PICK a \in Nat : Slice(a, cut - 1)
    BY UndoIs
  <2>2. cut - 1 \in Nat
    BY <1>1, <1>2
  <2> QED  BY <2>1, <2>2
<1>4. /\ deferred' = <<>> /\ lastSent' = <<>> /\ pc # "closing"
      /\ openSteps' = [t \in {s \in DOMAIN openSteps : openSteps[s] < cut} |-> openSteps[t]]
  BY DEF Undo, DropExchange, Locked
<1>5. /\ history' \in Seq(Message) /\ Len(history') = b - a /\ a <= b
      /\ \A i \in 1..(b - a) : a + i \in 1..Len(history) /\ history'[i] = history[a + i]
  BY <1>3 DEF Slice
<1>6. \A t \in DOMAIN openSteps' : t \in DOMAIN openSteps /\ openSteps'[t] = openSteps[t]
  BY <1>4
<1>7. \A t \in DOMAIN openSteps' : openSteps'[t] \in Nat \ {0}
  BY <1>6 DEF TypeOK
<1>8. \A i \in 1..Len(history') : Filled(history'[i])
  BY <1>5 DEF AllFilled
<1>9. \A i \in 1..Len(deferred') : Complete(deferred'[i])
  <2>1. Len(<<>>) = 0
    BY EmptySeq
  <2> QED  BY <1>4, <2>1
<1>10. ASSUME NEW i \in 1..Len(history'), Stale(history'[i]) PROVE Excused(i, 0)'
  <2>1. PICK x \in 1..Len(history) : x = a + i /\ history'[i] = history[x] /\ x < cut /\ i <= x
    <3>1. a + i \in 1..Len(history) /\ history'[i] = history[a + i]
      BY <1>5
    <3>2. a + i < cut /\ i <= a + i
      BY <1>2, <1>3, <1>5
    <3> QED  BY <3>1, <3>2
  <2>2. Excused(x, q)
    BY <1>10, <2>1 DEF SentUpTo
  <2>3. ASSUME Heard, step \in DOMAIN openSteps, x = openSteps[step] PROVE FALSE
    <3>1. Calm(history, x, Len(history))
      BY <2>3 DEF CallsInv, StepPlace, InStep, Heard
    <3>2. cut \in x..Len(history)
      BY <1>1, <1>2, <2>1
    <3> QED  BY <1>2, <3>1, <3>2 DEF Calm
  <2>4. \A t \in DOMAIN openSteps : openSteps[t] > x
    BY <1>4, <2>2, <2>3 DEF Excused
  <2>5. \A t \in DOMAIN openSteps : openSteps[t] > i
    <3>1. \A t \in DOMAIN openSteps : openSteps[t] \in Nat
      BY DEF TypeOK
    <3>2. i \in Nat
      OBVIOUS
    <3> QED  BY <2>1, <2>4, <3>1, <3>2
  <2>6. \A t \in DOMAIN openSteps' : openSteps'[t] > i
    BY <1>6, <2>5
  <2> QED  BY <2>6 DEF Excused
<1>11. \A i \in 1..Len(history') : Stale(history'[i]) => Excused(i, 0)'
  BY <1>10
<1> QED  BY <1>4, <1>5, <1>7, <1>8, <1>9, <1>11, ResetKeepsRequest

LEMMA PopKeepsRequest ==
    ASSUME TypeOK, AllFilled, NEW q, SentUpTo(q), PopReminder
    PROVE  RequestInv'
<1>1. PICK n \in Nat : n = Len(history) /\ n # 0
  BY PopIs, LenProperties DEF TypeOK
<1>2. Slice(0, n - 1)
  BY <1>1, PopIs
<1>3. /\ history' \in Seq(Message) /\ Len(history') = n - 1
      /\ \A i \in 1..(n - 1) : i \in 1..n /\ history'[i] = history[i]
  BY <1>1, <1>2 DEF Slice
<1>4. UNCHANGED <<pc, step, openSteps, deferred>> /\ lastSent' = <<>> /\ pc # "closing"
  BY DEF PopReminder, loop, Locked
<1>5. \A t \in DOMAIN openSteps' : openSteps'[t] \in Nat \ {0}
  BY <1>4 DEF TypeOK
<1>6. \A i \in 1..Len(history') : Filled(history'[i])
  BY <1>1, <1>3 DEF AllFilled
<1>7. \A i \in 1..Len(deferred') : Complete(deferred'[i])
  BY <1>4 DEF AllFilled
<1>8. ASSUME NEW i \in 1..Len(history'), Stale(history'[i]) PROVE Excused(i, 0)'
  <2>1. i \in 1..n /\ Stale(history[i])
    BY <1>3, <1>8
  <2>2. Excused(i, q)
    BY <1>1, <2>1 DEF SentUpTo
  <2> QED  BY <1>4, <2>2 DEF Excused, Heard
<1>9. \A i \in 1..Len(history') : Stale(history'[i]) => Excused(i, 0)'
  BY <1>8
<1> QED  BY <1>3, <1>4, <1>5, <1>6, <1>7, <1>9, ResetKeepsRequest

LEMMA ClearKeepsRequest ==
    ASSUME Clear
    PROVE  RequestInv'
<1>1. <<>> \in Seq(Message) /\ Len(<<>>) = 0 /\ DOMAIN <<>> = {}
  BY EmptySeq
<1>2. history' = <<>> /\ openSteps' = <<>> /\ deferred' = <<>> /\ lastSent' = <<>>
  BY DEF Clear, DropExchange
<1>3. \A t \in DOMAIN openSteps' : openSteps'[t] \in Nat \ {0}
  BY <1>1, <1>2
<1>4. \A i \in 1..Len(history') : Filled(history'[i])
  BY <1>1, <1>2
<1>5. \A i \in 1..Len(deferred') : Complete(deferred'[i])
  BY <1>1, <1>2
<1>6. \A i \in 1..Len(history') : Stale(history'[i]) => Excused(i, 0)'
  BY <1>1, <1>2
<1>7. history' \in Seq(Message)
  BY <1>1, <1>2
<1> QED  BY <1>2, <1>3, <1>4, <1>5, <1>6, <1>7, ResetKeepsRequest

LEMMA CompactionKeepsRequest ==
    ASSUME TypeOK, AllFilled, NEW last \in 1..Len(history), NEW kept \in 0..last,
           ApplyCompaction(last, kept)
    PROVE  RequestInv'
<1>1. PICK f, n : Compacted(f, kept, n, last)
  BY CompactedIs
<1>2. openSteps' = <<>> /\ deferred' = <<>> /\ lastSent' = <<>>
  BY DEF ApplyCompaction, DropExchange
<1>3. Len(<<>>) = 0 /\ DOMAIN <<>> = {}
  BY EmptySeq
<1>4. PICK L \in Nat : L = Len(history)
  BY LenProperties DEF TypeOK
<1>5. \A i \in 1..L : Filled(history[i])
  BY <1>4 DEF AllFilled
<1>6. \A i \in 1..kept : Filled(history'[i])
  <2>1. \A i \in 1..kept : f[i] \in 1..last /\ history'[i] = history[f[i]]
    BY <1>1 DEF Compacted
  <2>2. \A x \in 1..last : x \in 1..L
    BY <1>4
  <2> QED  BY <1>5, <2>1, <2>2
<1>7. \A i \in 1..n : Filled(history'[kept + i])
  <2>1. \A i \in 1..n : Note(history'[kept + i], nextSeq + (i - 1))
    BY <1>1 DEF Compacted
  <2> QED  BY <2>1 DEF Note, Filled, Vacuous
<1>8. \A i \in 1..(L - last) : Filled(history'[(kept + n) + i])
  <2>1. \A i \in 1..(L - last) : last + i \in 1..L /\ history'[(kept + n) + i] = history[last + i]
    BY <1>1, <1>4 DEF Compacted
  <2> QED  BY <1>5, <2>1
<1>9. \A j \in 1..Len(history') : Filled(history'[j])
  <2>1. \A j \in 1..Len(history') :
           \/ j \in 1..kept \/ \E i \in 1..n : j = kept + i
           \/ \E i \in 1..(L - last) : j = (kept + n) + i
    BY <1>1, <1>4 DEF Compacted
  <2> QED  BY <1>6, <1>7, <1>8, <2>1
<1>10. \A t \in DOMAIN openSteps' : openSteps'[t] \in Nat \ {0}
  BY <1>2, <1>3
<1>11. \A i \in 1..Len(deferred') : Complete(deferred'[i])
  BY <1>2, <1>3
<1>12. \A i \in 1..Len(history') : Stale(history'[i]) => Excused(i, 0)'
  BY <1>2, <1>3 DEF Excused
<1>13. history' \in Seq(Message)
  BY <1>1 DEF Compacted
<1> QED  BY <1>2, <1>9, <1>10, <1>11, <1>12, <1>13, ResetKeepsRequest

LEMMA TurnKeepsRequest ==
    ASSUME TypeOK, Begun, ExchangeInv, AllFilled, NEW q, SentUpTo(q), Turn
    PROVE  RequestInv'
<1>0. \A o \in Origins : User(o) \in Message /\ Complete(User(o))
  BY NewMessages DEF User, Complete
<1>1. CASE HookResult \/ HookContext \/ EmptyAnswer \/ Inject \/ Prompt \/ Steer
  <2>1. PICK o \in Origins : AppendMessage(User(o))
    BY <1>1 DEF HookResult, HookContext, EmptyAnswer, Inject, Prompt, Steer, AppendUser, Origins
  <2>2. /\ UNCHANGED <<lastSent, openSteps, step>> /\ (InStep' => InStep)
        /\ (Heard => Heard') /\ (pc = "closing" => pc' = "closing")
    BY <1>1 DEF HookResult, HookContext, EmptyAnswer, Inject, Prompt, Steer, AppendUser, ghosts,
                InStep, Heard, Between, loop
  <2>3. \A i \in 1..Len(history) : Excused(i, q) => Excused(i, q)'
    BY <2>2, ExcusesKept
  <2>4. User(o) \in Message /\ Complete(User(o))
    BY <1>0, <2>1
  <2> QED  BY <2>1, <2>2, <2>3, <2>4, AppendKeepsRequest
<1>2. CASE Blocked
  <2>1. PICK m \in Message :
          m = [Assistant(0) EXCEPT !.origin = "hook", !.content = TRUE, !.partial = FALSE]
    BY NewMessages
  <2>2. Complete(m)
    BY <2>1 DEF Complete, Assistant
  <2>3. /\ AppendMessage(m) /\ UNCHANGED <<lastSent, openSteps, step>> /\ (InStep' => InStep)
        /\ ~ Heard /\ pc # "closing"
    BY <1>2, <2>1 DEF Blocked, ghosts, InStep, Heard
  <2>4. \A i \in 1..Len(history) : Excused(i, q) => Excused(i, q)'
    BY <2>3, ExcusesKept
  <2> QED  BY <2>2, <2>3, <2>4, AppendKeepsRequest
<1>3. CASE RetryTurn \/ StepFails \/ ToTools \/ NoTools \/ BatchDone \/ ResultsDone \/ Continue \/ GiveUp
  <2>1. /\ UNCHANGED <<history, deferred, lastSent, openSteps, step>> /\ (InStep' => InStep)
        /\ (Heard => Heard') /\ pc # "closing"
    BY <1>3 DEF RetryTurn, StepFails, ToTools, NoTools, BatchDone, ResultsDone, Continue, GiveUp,
                Move, memory, ghosts, InStep, Heard
  <2>2. \A i \in 1..Len(history) : Excused(i, q) => Excused(i, q)'
    BY <2>1, ExcusesKept
  <2> QED  BY <2>1, <2>2, RequestUntouched
<1>4. CASE Interrupt
  <2>1. UNCHANGED <<history, deferred, lastSent, openSteps, step>> /\ ~ InStep' /\ pc' = "closing"
    BY <1>4 DEF Interrupt, memory, ghosts, InStep
  <2>2. InStep /\ step \in DOMAIN openSteps => openSteps[step] > q
    BY DEF SentUpTo
  <2>3. Heard => InStep
    BY DEF Heard, InStep
  <2>4. \A i \in 1..Len(history) : Excused(i, q) => Excused(i, q)'
    BY <2>1, <2>2, <2>3 DEF Excused
  <2> QED  BY <2>1, <2>4, RequestUntouched
<1>5. CASE Closed
  <2>1. /\ UNCHANGED <<history, deferred, lastSent, openSteps, step>> /\ ~ InStep'
        /\ DOMAIN openSteps = {}
    BY <1>5 DEF Closed, Move, memory, ghosts, InStep
  <2>2. \A i \in 1..Len(history) : Excused(i, q) => Excused(i, q)'
    BY <2>1 DEF Excused
  <2> QED  BY <2>1, <2>2, RequestUntouched
<1>6. CASE RecordResult
  <2>1. /\ RecordToolResult(<<step, recorded + 1>>) /\ UNCHANGED <<arrivals, lastSent, openSteps, step>>
        /\ (InStep' => InStep) /\ (Heard => Heard') /\ pc # "closing"
    BY <1>6 DEF RecordResult, ghosts, InStep, Heard
  <2>2. \A i \in 1..Len(history) : Excused(i, q) => Excused(i, q)'
    BY <2>1, ExcusesKept
  <2> QED  BY <2>1, <2>2, ResultKeepsRequest
<1>7. ASSUME NEW c \in CallIds, CloseResult(c) PROVE RequestInv'
  <2>1. /\ RecordToolResult(c) /\ UNCHANGED <<arrivals, lastSent, openSteps, step>>
        /\ (InStep' => InStep) /\ pc' = pc
    BY <1>7 DEF CloseResult, ghosts, loop, InStep
  <2>2. Heard => Heard'
    BY <2>1 DEF Heard
  <2>3. \A i \in 1..Len(history) : Excused(i, q) => Excused(i, q)'
    BY <2>1, <2>2, ExcusesKept
  <2> QED  BY <2>1, <2>3, ResultKeepsRequest
<1>8. CASE EndStep
  <2>1. PICK usage \in BOOLEAN : StepEnd(step, usage)
    BY <1>8 DEF EndStep
  <2>2. UNCHANGED <<lastSent, step>> /\ Ending(step)
    BY <1>8 DEF EndStep, Ending
  <2> QED  BY <2>1, <2>2, StepEndKeepsRequest
<1>9. ASSUME NEW s \in Steps, CloseStep(s) PROVE RequestInv'
  <2>1. StepEnd(s, FALSE) /\ UNCHANGED <<lastSent, step>> /\ Ending(s)
    BY <1>9 DEF CloseStep, Ending, loop
  <2> QED  BY <2>1, StepEndKeepsRequest
<1>10. ASSUME NEW hasText \in BOOLEAN, Answer(hasText) PROVE RequestInv'
  BY <1>10, AnswerKeepsRequest
<1>11. CASE BeginStep
  BY <1>11, BeginKeepsRequest
<1>12. CASE Dispatch
  BY <1>12, DispatchKeepsRequest
<1>13. CASE Unexecuted
  BY <1>13, UnexecutedKeepsRequest
<1> QED
  BY <1>1, <1>2, <1>3, <1>4, <1>5, <1>6, <1>7, <1>8, <1>9, <1>10, <1>11, <1>12, <1>13 DEF Turn

LEMMA OthersKeepRequest ==
    ASSUME TypeOK, ExchangeInv, CallsInv, AllFilled, NEW q, SentUpTo(q), Others
    PROVE  RequestInv'
<1>1. CASE Deliver
  <2>1. /\ AppendMessage(User("injection")) /\ UNCHANGED <<lastSent, openSteps, step, pc>>
    BY <1>1 DEF Deliver, AppendUser, ghosts, loop
  <2>2. (InStep' => InStep) /\ (Heard => Heard')
    BY <2>1 DEF InStep, Heard
  <2>3. \A i \in 1..Len(history) : Excused(i, q) => Excused(i, q)'
    BY <2>1, <2>2, ExcusesKept
  <2>4. User("injection") \in Message
    BY NewMessages DEF Origins
  <2>5. Complete(User("injection"))
    BY DEF User, Complete
  <2> QED  BY <2>1, <2>2, <2>3, <2>4, <2>5, AppendKeepsRequest
<1>2. CASE Clear
  BY <1>2, ClearKeepsRequest
<1>3. CASE PopReminder
  BY <1>3, PopKeepsRequest
<1>4. ASSUME NEW cut, NEW count, Undo(cut, count) PROVE RequestInv'
  BY <1>4, UndoKeepsRequest
<1>5. ASSUME NEW last \in 1..Len(history), NEW kept \in 0..last, ApplyCompaction(last, kept)
      PROVE  RequestInv'
  BY <1>5, CompactionKeepsRequest
<1>6. CASE (\E last \in 1..Len(history) : BeginCompaction(last)) \/ RefuseCompaction \/ LoseCompaction
  <2>1. /\ UNCHANGED <<history, deferred, lastSent, openSteps, step>> /\ (InStep' => InStep)
        /\ ~ Heard /\ pc # "closing"
    BY <1>6 DEF BeginCompaction, RefuseCompaction, RoundOver, LoseCompaction, memory, ghosts, InStep,
                Heard, Between
  <2>2. \A i \in 1..Len(history) : Excused(i, q) => Excused(i, q)'
    BY <2>1, ExcusesKept
  <2> QED  BY <2>1, <2>2, RequestUntouched
<1> QED  BY <1>1, <1>2, <1>3, <1>4, <1>5, <1>6 DEF Others

LEMMA RequestInductive ==
    /\ Init => RequestInv
    /\ MemoryInv /\ CallsInv /\ RequestInv /\ [Next]_vars => RequestInv'
<1>1. ASSUME Init PROVE RequestInv
  <2>1. /\ history = <<>> /\ deferred = <<>> /\ lastSent = <<>> /\ ~ InStep
        /\ <<>> \in Seq(Message) /\ Len(<<>>) = 0
    BY <1>1, EmptySeq DEF Init, InStep
  <2>2. SentOf(<<>>, 0) = <<>>
    BY <2>1, NothingSent
  <2>3. SentUpTo(0)
    BY <2>1, <2>2 DEF SentUpTo
  <2>4. AllFilled
    BY <2>1 DEF AllFilled
  <2> QED  BY <2>3, <2>4 DEF RequestInv
<1>2. ASSUME MemoryInv, CallsInv, RequestInv, Next PROVE RequestInv'
  <2>1. PICK q : SentUpTo(q)
    BY <1>2 DEF RequestInv
  <2>2. TypeOK /\ Begun /\ ExchangeInv /\ AllFilled
    BY <1>2 DEF MemoryInv, RequestInv
  <2> QED  BY <1>2, <2>1, <2>2, TurnKeepsRequest, OthersKeepRequest DEF Next
<1>3. ASSUME MemoryInv, RequestInv, UNCHANGED vars PROVE RequestInv'
  <2>1. PICK q : SentUpTo(q)
    BY <1>3 DEF RequestInv
  <2>2. UNCHANGED <<history, deferred, lastSent, openSteps, step, pc>>
    BY <1>3 DEF vars, loop, memory, ghosts
  <2>3. (InStep' => InStep) /\ (Heard => Heard')
    BY <2>2 DEF InStep, Heard
  <2>4. \A i \in 1..Len(history) : Excused(i, q) => Excused(i, q)'
    BY <2>2, <2>3, ExcusesKept
  <2>5. TypeOK /\ AllFilled
    BY <1>3 DEF MemoryInv, RequestInv
  <2> QED  BY <2>1, <2>2, <2>3, <2>4, <2>5, RequestUntouched
<1> QED  BY <1>1, <1>2, <1>3

(* "the next request is a pure extension of what the model already saw"    *)
(* (close_interrupted): unless undo, clear, a compaction or a retracted    *)
(* reminder rewrote the history in between, a request begins with the      *)
(* whole previous one, whatever steps failed, were interrupted, removed or *)
(* sealed meanwhile, for any number of them.                               *)
THEOREM RequestsOnlyExtend == Spec => RequestsExtend
<1>1. ASSUME MemoryInv, RequestInv, Next, pc = "before", pc' = "llm" PROVE IsPrefix(lastSent, lastSent')
  <2>1. lastSent' = Sent
    BY <1>1 DEF Next, Turn, Others, HookResult, HookContext, Prompt, Blocked, RetryTurn, Steer,
                BeginStep, StepFails, EmptyAnswer, Answer, ToTools, NoTools, Dispatch, Unexecuted,
                BatchDone, RecordResult, Inject, ResultsDone, EndStep, Continue, GiveUp, Interrupt,
                Closed, CloseResult, CloseStep, Deliver, Clear, PopReminder, Undo, BeginCompaction,
                ApplyCompaction, RefuseCompaction, LoseCompaction, RoundOver, Move, Between, loop
  <2>2. PICK q : SentUpTo(q)
    BY <1>1 DEF RequestInv
  <2>3. history \in Seq(Message) /\ q \in 0..Len(history) /\ lastSent = SentOf(history, q)
    BY <1>1, <2>2 DEF MemoryInv, TypeOK, SentUpTo
  <2>4. PICK s \in Seq(Message), t \in Seq(Message) :
          SentOf(history, Len(history)) = s \o t /\ s = SentOf(history, q)
    BY <2>3, SentSplits
  <2>5. lastSent = s /\ lastSent' = s \o t
    BY <1>1, <2>1, <2>3, <2>4, SentIs DEF MemoryInv
  <2>6. IsPrefix(s, s \o t)
    <3>1. PICK r \in Seq(Message) :
            /\ r = s \o t /\ Len(r) = Len(s) + Len(t)
            /\ \A k \in 1..Len(s) : r[k] = s[k]
            /\ \A k \in 1..Len(t) : r[Len(s) + k] = t[k]
            /\ \A j \in 1..Len(r) : j \in 1..Len(s) \/ \E k \in 1..Len(t) : j = Len(s) + k
      BY MessagesJoined
    <3>2. Len(s) \in Nat /\ Len(t) \in Nat
      BY LenProperties
    <3>3. Len(s) <= Len(r) /\ Len(s) \in 0..Len(s) /\ Len(s) \in 0..Len(r)
      BY <3>1, <3>2
    <3>4. /\ Head1(s, Len(s)) \in Seq(Message) /\ Len(Head1(s, Len(s))) = Len(s)
          /\ \A i \in 1..Len(s) : Head1(s, Len(s))[i] = s[i]
      BY <3>3, HeadIs
    <3>5. /\ Head1(r, Len(s)) \in Seq(Message) /\ Len(Head1(r, Len(s))) = Len(s)
          /\ \A i \in 1..Len(s) : Head1(r, Len(s))[i] = r[i]
      BY <3>3, HeadIs
    <3>6. \A i \in 1..Len(s) : Head1(s, Len(s))[i] = Head1(r, Len(s))[i]
      BY <3>1, <3>4, <3>5
    <3>7. Head1(s, Len(s)) = Head1(r, Len(s))
      BY <3>4, <3>5, <3>6, SeqEqual
    <3> QED  BY <3>1, <3>3, <3>7 DEF IsPrefix, Head1
  <2> QED  BY <2>5, <2>6
<1>2. MemoryInv /\ RequestInv /\ [Next]_vars
        => [pc = "before" /\ pc' = "llm" => IsPrefix(lastSent, lastSent')]_vars
  BY <1>1
<1> QED  BY <1>2, MemoryInductive, CallsInductive, RequestInductive, PTL DEF Spec, RequestsExtend
=============================================================================
