--------------------------- MODULE ApprovalPark -----------------------------
(***************************************************************************)
(* An approval ask: hooks.rs of the turn flow registers it with the        *)
(* session's approval gate (session/gates.rs), sends it to the client as a *)
(* reverse request, and waits for whichever answers.  The asker is the     *)
(* main agent, whose turn is always polled, or a member of a swarm batch,  *)
(* which the scheduler parks while it waits: a parked turn is not polled,  *)
(* and only a notice in the member's suspension feed or its cancel token   *)
(* brings it back.  Around them are the client that answers the reverse    *)
(* request, a handler of approval.decide or interaction.respond, and the   *)
(* close of the session, which drains the gate.                            *)
(*                                                                         *)
(* Every ask carries a directory that an answer may grant.  The slots for  *)
(* which members compete are the business of SwarmBatch.                   *)
(***************************************************************************)
EXTENDS Integers, Sequences, FiniteSets

CONSTANTS
    Main,       \* the main agent
    Members,    \* the members of the batch
    KeepAlive,  \* keep_alive_on_exit: the tasks outlive the session
    Answers,    \* what the user may answer
    MaxAsks     \* bound: asks of all the agents together

\* An approval for once, an approval that grants the directory for the
\* session or for good, a rejection.
ASSUME ApprovalAssumption ==
    /\ Main \notin Members /\ KeepAlive \in BOOLEAN /\ MaxAsks \in Nat
    /\ Answers \subseteq {"once", "always", "denied"}

Agents == {Main} \cup Members
Asks == Agents \X (1..MaxAsks)

\* ApprovalDecision: an ask that carries a directory is resolved plain
\* Approved, whatever its scope.
Decision(v) == IF v \in {"once", "always"} THEN "approved" ELSE v

VARIABLES
    pc,         \* the turn: works, waits on both channels, or on the gate
    asked,      \* asks the turn has made; the last one is the current one
    gate,       \* ApprovalGate.pending and how an entry left it
    box,        \* the oneshot between the gate and the asker
    rpc,        \* the reverse request of an ask and its answer
    outcome,    \* what the asker did with its ask
    grants,     \* asks whose directory was granted
    fired,      \* agents whose cancel token has fired
    feed,       \* a member's suspension feed, unread
    place,      \* where the batch scheduler keeps a member
    batch,      \* the batch's cancel token, and whether the loop saw it
    decider,    \* the handler of approval.decide between reading and resolving
    session,    \* close_session
    unattended  \* the session is a workspace cron run nobody watches

vars == <<pc, asked, gate, box, rpc, outcome, grants, fired, feed, place,
          batch, decider, session, unattended>>

Idle == [ask |-> <<>>]

Init ==
    /\ pc = [a \in Agents |-> "working"]
    /\ asked = [a \in Agents |-> 0]
    /\ gate = [q \in Asks |-> "none"]
    /\ box = [q \in Asks |-> "none"]
    /\ rpc = [q \in Asks |-> "none"]
    /\ outcome = [q \in Asks |-> "none"]
    /\ grants = {}
    /\ fired = {}
    /\ feed = [m \in Members |-> <<>>]
    /\ place = [m \in Members |-> "active"]
    /\ batch = "running"
    /\ decider = Idle
    /\ session = "open"
    /\ unattended \in BOOLEAN

Current(a) == <<a, asked[a]>>
Waits(a) == pc[a] \in {"waiting", "gateonly"}

\* The main agent's turn is a task of its own; a member's is polled by its
\* attempt, while it is in the active set.
Polled(a) == a = Main \/ (a \in Members /\ place[a] = "active")

\* The suspension_notify and resume_notify callbacks: a member's notices go
\* into its feed.  The main agent has none, and the ask of an unattended run
\* is not announced.
Notified(a, notices) ==
    IF a \in Members /\ ~unattended THEN [feed EXCEPT ![a] = @ \o notices] ELSE feed

(***************************************************************************)
(* The gate.                                                               *)
(***************************************************************************)

\* resolve: the first resolution of a pending entry removes it, delivers the
\* decision to the box its caller writes, and wakes the scheduler; `notices`
\* is what the caller sends on top.
ResolveMutantSilent(q, notices) ==
    /\ gate' = IF gate[q] = "pending" THEN [gate EXCEPT ![q] = "resolved"] ELSE gate
    /\ feed' = Notified(q[1], notices)

Resolve(q, notices) ==
    /\ gate' = IF gate[q] = "pending" THEN [gate EXCEPT ![q] = "resolved"] ELSE gate
    /\ feed' = Notified(q[1],
                        IF gate[q] = "pending" THEN <<"resumed">> \o notices ELSE notices)

\* withdraw: the entry leaves without a decision.
Withdraw(q) ==
    gate' = IF gate[q] = "pending" THEN [gate EXCEPT ![q] = "withdrawn"] ELSE gate

(***************************************************************************)
(* The asker's turn (hooks.rs).                                            *)
(***************************************************************************)

\* The ask is registered with the gate.
Register(a) ==
    /\ Polled(a) /\ pc[a] = "working"
    /\ Cardinality({q \in Asks : gate[q] # "none"}) < MaxAsks
    /\ asked' = [asked EXCEPT ![a] = @ + 1]
    /\ gate' = [gate EXCEPT ![<<a, asked[a] + 1>>] = "pending"]
    /\ feed' = Notified(a, <<"suspended">>)
    /\ UNCHANGED <<box, outcome, grants, fired, place, batch, decider, session, unattended>>

\* The suspension is announced and the reverse request sent, if there is a
\* connection to send it on.
Ask(a) ==
    /\ ~unattended /\ Register(a)
    /\ \E r \in {"sent", "failed"} : rpc' = [rpc EXCEPT ![<<a, asked[a] + 1>>] = r]
    /\ pc' = [pc EXCEPT ![a] = "waiting"]

\* A workspace cron run waits on the gate alone.
AskUnattended(a) ==
    /\ unattended /\ Register(a)
    /\ pc' = [pc EXCEPT ![a] = "gateonly"]
    /\ rpc' = rpc

\* The ask ends: the guard is marked settled, the receivers of both channels
\* are dropped, and the turn goes on.
Ends(a, result) ==
    /\ outcome' = [outcome EXCEPT ![Current(a)] = result]
    /\ rpc' = [rpc EXCEPT ![Current(a)] = "none"]
    /\ box' = [box EXCEPT ![Current(a)] = "none"]
    /\ pc' = [pc EXCEPT ![a] = "working"]
    /\ asked' = asked

\* select: the reverse request was answered.  The grant is applied and the
\* gate resolved, whose verdict on the call is not looked at.
TurnTakesReply(a) ==
    /\ Polled(a) /\ pc[a] = "waiting" /\ rpc[Current(a)] \in Answers
    /\ LET v == rpc[Current(a)] IN
        /\ grants' = IF v = "always" THEN grants \cup {Current(a)} ELSE grants
        /\ Resolve(Current(a), <<"resumed">>)
        /\ Ends(a, Decision(v))
    /\ UNCHANGED <<fired, place, batch, decider, session, unattended>>

\* select: the reverse request failed; the ask stays pending on the gate.
TurnTakesFailure(a) ==
    /\ Polled(a) /\ pc[a] = "waiting" /\ rpc[Current(a)] = "failed"
    /\ pc' = [pc EXCEPT ![a] = "gateonly"]
    /\ UNCHANGED <<asked, gate, box, rpc, outcome, grants, fired, feed, place, batch,
                   decider, session, unattended>>

\* select: the gate's receiver has a decision.
TurnTakesGate(a) ==
    /\ Polled(a) /\ Waits(a) /\ box[Current(a)] # "none"
    /\ Ends(a, box[Current(a)])
    /\ feed' = Notified(a, <<"resumed">>)
    /\ UNCHANGED <<gate, grants, fired, place, batch, decider, session, unattended>>

\* select: the turn's cancel token fired.
TurnCancelled(a) ==
    /\ Polled(a) /\ Waits(a) /\ a \in fired
    /\ Withdraw(Current(a))
    /\ Ends(a, "cancelled")
    /\ feed' = Notified(a, <<"resumed">>)
    /\ UNCHANGED <<grants, fired, place, batch, decider, session, unattended>>

\* The turn ends; a member's attempt is done and settled.
TurnEnds(a) ==
    /\ Polled(a) /\ pc[a] = "working"
    /\ pc' = [pc EXCEPT ![a] = "done"]
    /\ place' = IF a \in Members THEN [place EXCEPT ![a] = "settled"] ELSE place
    /\ UNCHANGED <<asked, gate, box, rpc, outcome, grants, fired, feed, batch, decider,
                   session, unattended>>

(***************************************************************************)
(* The batch scheduler (swarm_batch.rs).                                   *)
(***************************************************************************)

\* The attempt reads its feed: a suspension parks the member, a resumption
\* is noise.
NoticeMutantSkips(m) ==
    /\ place[m] = "active"
    /\ \E i \in DOMAIN feed[m] :
        /\ feed[m][i] = "suspended"
        /\ place' = [place EXCEPT ![m] = "parked"]
        /\ feed' = [feed EXCEPT ![m] = SubSeq(@, 1, i - 1) \o SubSeq(@, i + 1, Len(@))]
    /\ UNCHANGED <<pc, asked, gate, box, rpc, outcome, grants, fired, batch, decider,
                   session, unattended>>

Notice(m) ==
    /\ place[m] = "active" /\ feed[m] # <<>>
    /\ place' = [place EXCEPT ![m] = IF Head(feed[m]) = "suspended" THEN "parked" ELSE @]
    /\ feed' = [feed EXCEPT ![m] = Tail(@)]
    /\ UNCHANGED <<pc, asked, gate, box, rpc, outcome, grants, fired, batch, decider,
                   session, unattended>>

\* park_member: any notice resumes the member, which then waits for a slot.
ParkedResumes(m) ==
    /\ place[m] = "parked" /\ feed[m] # <<>>
    /\ place' = [place EXCEPT ![m] = "ready"]
    /\ feed' = [feed EXCEPT ![m] = Tail(@)]
    /\ UNCHANGED <<pc, asked, gate, box, rpc, outcome, grants, fired, batch, decider,
                   session, unattended>>

\* settle_parked_aborted drops the attempt with its turn; the guard of an ask
\* that still waits withdraws it.
AbortMutantUnguarded(m) ==
    /\ place' = [place EXCEPT ![m] = "settled"]
    /\ pc' = [pc EXCEPT ![m] = "done"]
    /\ fired' = fired \cup {m}
    /\ outcome' = IF Waits(m) THEN [outcome EXCEPT ![Current(m)] = "dropped"] ELSE outcome
    /\ rpc' = IF Waits(m) THEN [rpc EXCEPT ![Current(m)] = "none"] ELSE rpc
    /\ box' = IF Waits(m) THEN [box EXCEPT ![Current(m)] = "none"] ELSE box
    /\ gate' = gate
    /\ UNCHANGED <<asked, grants, feed, batch, decider, session, unattended>>

Abort(m) ==
    /\ place' = [place EXCEPT ![m] = "settled"]
    /\ pc' = [pc EXCEPT ![m] = "done"]
    /\ fired' = fired \cup {m}
    /\ outcome' = IF Waits(m) THEN [outcome EXCEPT ![Current(m)] = "dropped"] ELSE outcome
    /\ rpc' = IF Waits(m) THEN [rpc EXCEPT ![Current(m)] = "none"] ELSE rpc
    /\ box' = IF Waits(m) THEN [box EXCEPT ![Current(m)] = "none"] ELSE box
    /\ IF Waits(m) THEN Withdraw(Current(m)) ELSE gate' = gate
    /\ UNCHANGED <<asked, grants, feed, batch, decider, session, unattended>>

\* park_member: the member's token fired while it was parked.
ParkedCancelled(m) == place[m] = "parked" /\ m \in fired /\ Abort(m)

\* The launch loop gives a resumed member its slot back, until the loop has
\* seen the batch's cancellation.
Relaunch(m) ==
    /\ place[m] = "ready" /\ batch # "observed"
    /\ place' = [place EXCEPT ![m] = "active"]
    /\ UNCHANGED <<pc, asked, gate, box, rpc, outcome, grants, fired, feed, batch, decider,
                   session, unattended>>

\* The final drain of the ready queue, when nothing else is under way.
ReadyAborted(m) ==
    /\ place[m] = "ready" /\ batch = "observed"
    /\ \A n \in Members : place[n] \notin {"active", "parked"}
    /\ Abort(m)

(***************************************************************************)
(* Cancellation: turn.cancel, the stop of one member (or its deadline), of *)
(* the batch, whose token is the parent of the members'.                   *)
(***************************************************************************)
StopAgent(a) ==
    /\ a \notin fired /\ pc[a] # "done"
    /\ fired' = fired \cup {a}
    /\ UNCHANGED <<pc, asked, gate, box, rpc, outcome, grants, feed, place, batch, decider,
                   session, unattended>>

\* run_swarm_batch has not returned.
BatchRuns == \E m \in Members : place[m] # "settled"

CancelBatch ==
    /\ BatchRuns /\ batch = "running"
    /\ batch' = "cancelled" /\ fired' = fired \cup Members
    /\ UNCHANGED <<pc, asked, gate, box, rpc, outcome, grants, feed, place, decider,
                   session, unattended>>

LoopSeesCancel ==
    /\ BatchRuns /\ batch = "cancelled" /\ batch' = "observed"
    /\ UNCHANGED <<pc, asked, gate, box, rpc, outcome, grants, fired, feed, place, decider,
                   session, unattended>>

(***************************************************************************)
(* The two answer channels.                                                *)
(***************************************************************************)

\* handle_response: the client answers the reverse request.  An answer to an
\* ask that has ended meets a closed channel.
Reply(q, v) ==
    /\ rpc[q] = "sent"
    /\ rpc' = [rpc EXCEPT ![q] = v]
    /\ UNCHANGED <<pc, asked, gate, box, outcome, grants, fired, feed, place, batch, decider,
                   session, unattended>>

\* The connection is torn down with all its pending requests.
ConnectionLost ==
    /\ \E q \in Asks : rpc[q] = "sent"
    /\ rpc' = [q \in Asks |-> IF rpc[q] = "sent" THEN "failed" ELSE rpc[q]]
    /\ UNCHANGED <<pc, asked, gate, box, outcome, grants, fired, feed, place, batch, decider,
                   session, unattended>>

\* approval.decide, interaction.respond: the session is resolved, the pending
\* ask read and its directory granted ...
DecideReads(q, v) ==
    /\ session \in {"open", "stopped"} /\ decider = Idle /\ gate[q] = "pending"
    /\ decider' = [ask |-> q, answer |-> v]
    /\ grants' = IF v = "always" THEN grants \cup {q} ELSE grants
    /\ UNCHANGED <<pc, asked, gate, box, rpc, outcome, fired, feed, place, batch, session, unattended>>

\* ... then the gate resolved: a not-found error when the entry is gone.
DecideResolves ==
    /\ decider # Idle
    /\ Resolve(decider.ask, <<>>)
    /\ box' = IF gate[decider.ask] = "pending"
              THEN [box EXCEPT ![decider.ask] = Decision(decider.answer)] ELSE box
    /\ decider' = Idle
    /\ UNCHANGED <<pc, asked, rpc, outcome, grants, fired, place, batch, session, unattended>>

(***************************************************************************)
(* close_session.                                                          *)
(***************************************************************************)

\* The tasks are stopped, and with them the members, unless they are to
\* outlive the session.  The main agent's turn is not cancelled.
CloseStops ==
    /\ session = "open" /\ session' = "stopped"
    /\ fired' = IF KeepAlive THEN fired ELSE fired \cup Members
    /\ UNCHANGED <<pc, asked, gate, box, rpc, outcome, grants, feed, place, batch, decider, unattended>>

\* The artifacts leave the manager, so that no handler finds the gate any
\* more, and the gate is drained: every pending entry gets a Timeout.  The
\* wake callbacks go with the entries; what registers later is not refused.
Drain ==
    /\ session = "stopped" /\ session' = "drained"
    /\ LET pending == {q \in Asks : gate[q] = "pending"} IN
        /\ gate' = [q \in Asks |-> IF q \in pending THEN "drained" ELSE gate[q]]
        /\ box' = [q \in Asks |-> IF q \in pending THEN "timeout" ELSE box[q]]
    /\ UNCHANGED <<pc, asked, rpc, outcome, grants, fired, feed, place, batch, decider, unattended>>

\* Every turn has ended and the batch has returned.
Finished ==
    /\ \A a \in Agents : pc[a] = "done"
    /\ UNCHANGED vars

Next ==
    \/ \E a \in Agents :
        \/ Ask(a) \/ AskUnattended(a) \/ TurnTakesReply(a) \/ TurnTakesFailure(a) \/ TurnTakesGate(a)
        \/ TurnCancelled(a) \/ TurnEnds(a) \/ StopAgent(a)
    \/ \E m \in Members :
        \/ Notice(m) \/ ParkedResumes(m) \/ ParkedCancelled(m) \/ Relaunch(m)
        \/ ReadyAborted(m)
    \/ \E q \in Asks, v \in Answers : Reply(q, v) \/ DecideReads(q, v)
    \/ CancelBatch \/ LoopSeesCancel \/ ConnectionLost \/ DecideResolves
    \/ CloseStops \/ Drain \/ Finished

Spec == Init /\ [][Next]_vars

(***************************************************************************)
(* Woken futures are polled: a turn takes a ready arm of its select, the   *)
(* scheduler reads its feeds, waits and tokens, a resumed member gets a    *)
(* slot (QueuedMemberMoves of SwarmBatch is about that), a handler and a   *)
(* close that began go on.  Nobody has to ask, answer, cancel or close.    *)
(***************************************************************************)
Fairness ==
    /\ \A a \in Agents :
        WF_vars(TurnTakesReply(a) \/ TurnTakesFailure(a) \/ TurnTakesGate(a) \/ TurnCancelled(a))
    /\ \A m \in Members :
        /\ WF_vars(Notice(m))
        /\ WF_vars(ParkedResumes(m) \/ ParkedCancelled(m))
        /\ WF_vars(Relaunch(m) \/ ReadyAborted(m))
    /\ WF_vars(LoopSeesCancel)
    /\ WF_vars(DecideResolves)
    /\ WF_vars(Drain)

FairSpec == Spec /\ Fairness

-----------------------------------------------------------------------------

TypeOK ==
    /\ pc \in [Agents -> {"working", "waiting", "gateonly", "done"}]
    /\ asked \in [Agents -> 0..MaxAsks]
    /\ gate \in [Asks -> {"none", "pending", "resolved", "withdrawn", "drained"}]
    /\ box \in [Asks -> {"none", "approved", "denied", "timeout"}]
    /\ rpc \in [Asks -> Answers \cup {"none", "sent", "failed"}]
    /\ outcome \in [Asks -> {"none", "approved", "denied", "timeout", "cancelled", "dropped"}]
    /\ grants \subseteq Asks /\ fired \subseteq Agents
    /\ feed \in [Members -> Seq({"suspended", "resumed"})]
    /\ place \in [Members -> {"active", "parked", "ready", "settled"}]
    /\ batch \in {"running", "cancelled", "observed"}
    /\ decider = Idle \/ decider \in [ask : Asks, answer : Answers]
    /\ session \in {"open", "stopped", "drained"}
    /\ unattended \in BOOLEAN

(***************************************************************************)
(* The gate lists no zombie: a pending entry is the current ask of a turn  *)
(* that still waits for it, however the turn ended, was cancelled or was   *)
(* dropped unpolled (the F1 backstop of PendingAskGuard).                  *)
(***************************************************************************)
PendingHasAsker ==
    \A q \in Asks : gate[q] = "pending" => Waits(q[1]) /\ Current(q[1]) = q

\* The ask whose suspension notice parked the member: the feed may already
\* hold the notices of later ones.
ParkedFor(m) ==
    asked[m] - Cardinality({i \in DOMAIN feed[m] : feed[m][i] = "suspended"})

(***************************************************************************)
(* A parked member is brought back only once the ask it was parked for is  *)
(* over.  A feed may lag behind its turn by a whole ask, and the turn, the *)
(* gate or both announce the end of one: no notice left over from an       *)
(* earlier ask sends a waiting member into the competition for a slot.     *)
(***************************************************************************)
ResumedIsDecided ==
    [][\A m \in Members :
        place[m] = "parked" /\ place'[m] = "ready" =>
            gate[<<m, ParkedFor(m)>>] # "pending"]_vars

(***************************************************************************)
(* A decision reaches its asker, parked or not: one the gate accepted, the *)
(* timeout of a close that stops the members, and for the main agent an    *)
(* answer to the reverse request.                                          *)
(***************************************************************************)
DecisionReachesAsker ==
    \A q \in Asks :
        \/ gate[q] = "resolved"
        \/ gate[q] = "drained" /\ ~KeepAlive
        \/ q[1] = Main /\ rpc[q] \in Answers
        ~> outcome[q] # "none"

(***************************************************************************)
(* What comments say and the code does not do.                             *)
(***************************************************************************)

\* hooks.rs: both response channels converge, the first one wins.  The reply
\* to a parked member's reverse request is read by nobody.
ReplyReachesAsker == \A q \in Asks : rpc[q] \in Answers ~> outcome[q] # "none"

\* gates.rs: both channels converge on the oneshot, first one wins.  When both
\* are ready the select may take the reply, though the gate has accepted and
\* published another decision.
AcceptedAnswerStands ==
    [][\A q \in Asks :
        box[q] # "none" /\ outcome'[q] \in {"approved", "denied"} =>
            outcome'[q] = box[q]]_vars

\* interaction.rs: a later response finds the id gone and errors.  Its grant
\* was applied before that.
GrantFollowsDecision == \A q \in grants : outcome[q] # "denied"

\* shutdown.rs: the futures waiting on the gates are not left hanging.
CloseLeavesNobodyWaiting == \A q \in Asks : gate[q] = "drained" ~> outcome[q] # "none"

\* gates.rs: new requests after drain fail fast.
NothingPendingAfterClose == session = "drained" => \A q \in Asks : gate[q] # "pending"
=============================================================================
