---------------------------- MODULE GapRecovery ----------------------------
(***************************************************************************)
(* Recovery of the results a device produced while nobody was listening:   *)
(* results/ResultRecovery.ts (one pass), connection/GapRecovery.ts (when   *)
(* passes run and repeat) and the part of connection/DeviceConnection.ts   *)
(* that starts them, on top of the delivery queue.                         *)
(*                                                                         *)
(* The controller is modelled by what the client can observe of it: it     *)
(* numbers its results, stores the newest of them, pushes each one it      *)
(* produces while subscribed, and answers one MID 0064 at a time, with the *)
(* stored result, "not found" or another refusal, or not at all.  Answers  *)
(* here belong to the request that is waiting; module ResultFlow sends     *)
(* them over a wire, where they can be late.                               *)
(***************************************************************************)
EXTENDS ResultDelivery

CONSTANTS
    MaxProduced,        \* bound: results the controller produces
    History,            \* how many results it may store before the first contact
    MaxEvicted,         \* bound: results that leave its storage
    RecoveryLimit,      \* recoveryLimit: results fetched in one pass
    RecoveryAttempts,   \* recoveryAttempts: passes before keepUp takes over
    SilenceLimit,       \* silenceLimit: unanswered requests that end a pass
    Polling,            \* whether recoveryInterval is set
    FaultKinds,         \* what may go wrong: see Faults
    MaxFaults           \* bound: how often

Faults == {"silence", "refusal", "latest refused", "session", "handler", "resend"}

ASSUME ProducedAreResults == MaxProduced \in Nat /\ 1 .. MaxProduced \subseteq ResultIds
ASSUME BoundsAssumption ==
    History \subseteq 0 .. MaxProduced /\ MaxEvicted \in Nat /\ MaxFaults \in Nat
ASSUME RecoveryAssumption ==
    /\ RecoveryLimit \in Nat \ {0} /\ RecoveryAttempts \in Nat \ {0}
    /\ SilenceLimit \in Nat \ {0}
    /\ Polling \in BOOLEAN /\ FaultKinds \subseteq Faults

VARIABLES
    produced,   \* newest identifier of the controller, 0 before the first
    evicted,    \* results the controller no longer stores: 1 .. evicted
    outbox,     \* produced while subscribed and not pushed yet
    session,    \* where the session is, as far as results are concerned
    reconciled, \* this session ran the pass that follows its subscription
    pass,       \* the pass in progress: the recovering flag, and its fiber
    owed,       \* the last pass left something behind
    listened,   \* history: results produced while a session was subscribed
    faults      \* faults so far

recoveryVars ==
    <<produced, evicted, outbox, session, reconciled, pass, owed, listened, faults>>
vars == <<deliveryVars, recoveryVars>>

Store == (evicted + 1) .. produced

\* What the application still has to be given: stored, and produced since
\* recovery knows where to start.
Due(id) ==
    /\ id \in Store
    /\ IF window.baseline # NoId THEN id > window.baseline
                                 ELSE window.emptyHistory

-----------------------------------------------------------------------------
(* A pass.  todo holds the identifiers it still has to ask for, lowest     *)
(* first; the request for the lowest is the one that waits for an answer.  *)

NoPass ==
    [at |-> "idle", plan |-> "range", todo |-> {}, progress |-> FALSE,
     pending |-> FALSE, floor |-> NoId, more |-> FALSE, silent |-> 0, attempts |-> 0]

PassTypes ==
    [at       : {"idle", "latest", "asking", "sleeping"},
     plan     : {"range", "floor"},     \* fetchRange or findFloor
     todo     : SUBSET ResultIds,
     progress : BOOLEAN,                \* something was recovered or missing
     pending  : BOOLEAN,                \* something has to be asked for again
     floor    : ResultIds \cup {NoId},  \* highest identifier not found
     more     : BOOLEAN,                \* the limit left identifiers out
     silent   : 0 .. SilenceLimit,      \* requests without answer, in a row
     attempts : 0 .. RecoveryAttempts]

FirstPass == [NoPass EXCEPT !.at = "latest", !.attempts = RecoveryAttempts]

\* The next pass of one recoverGap, with the attempts it has left.
PassAgain(at, attempts) == [NoPass EXCEPT !.at = at, !.attempts = attempts]

Lowest(S) == CHOOSE i \in S : \A j \in S : i <= j

Unknown(from, to) == {i \in ResultIds : from <= i /\ i <= to /\ ~Known(window, i)}

LowestOf(S, n) == {i \in S : Cardinality({j \in S : j < i}) < n}
HighestOf(S, n) == {i \in S : Cardinality({j \in S : j > i}) < n}

\* fetchRange: the first RecoveryLimit identifiers above the watermark that
\* are neither delivered nor on their way.
FetchRange(newest) ==
    LET unseen == Unknown(window.watermark + 1, newest)
        wanted == LowestOf(unseen, RecoveryLimit)
    IN  [pass EXCEPT !.at = "asking", !.plan = "range", !.todo = wanted,
                     !.more = unseen # wanted]

\* findFloor: a block of the highest unknown ones; a short block reached the
\* bottom.
FindFloor(newest) ==
    LET block == HighestOf(Unknown(1, newest), RecoveryLimit)
    IN  [pass EXCEPT !.at = "asking", !.plan = "floor", !.todo = block,
                     !.more = Cardinality(block) = RecoveryLimit]

\* The pass has nothing to ask for; with pending, because nothing answered.
NothingToAsk(pending) ==
    [pass EXCEPT !.at = "asking", !.plan = "range", !.pending = pending]

WaitsForLatest == session # "down" /\ pass.at = "latest"

\* The request for identifier 0, the latest result, is not answered.
LatestSilent ==
    /\ WaitsForLatest
    /\ pass' = NothingToAsk(TRUE)
    /\ UNCHANGED deliveryVars

\* It is refused: the controller is taken to hold nothing.
LatestRefused ==
    /\ WaitsForLatest
    /\ IF window.watermark = NoId THEN NoteEmptyHistory ELSE UNCHANGED deliveryVars
    /\ pass' = NothingToAsk(FALSE)

\* Mutant of LatestIs: forgets that the controller was empty when first asked.
LatestIsForgetful(newest) ==
    /\ WaitsForLatest
    /\ IF window.watermark # NoId
       THEN /\ pass' = IF newest <= window.watermark THEN NothingToAsk(FALSE)
                                                     ELSE FetchRange(newest)
            /\ UNCHANGED deliveryVars
       ELSE pass' = NothingToAsk(FALSE) /\ SetBaseline(newest)

\* It is answered with the result newest.
LatestIs(newest) ==
    /\ WaitsForLatest
    /\ IF window.watermark # NoId
       THEN /\ pass' = IF newest <= window.watermark THEN NothingToAsk(FALSE)
                                                     ELSE FetchRange(newest)
            /\ UNCHANGED deliveryVars
       ELSE IF window.emptyHistory
            THEN pass' = FindFloor(newest) /\ UNCHANGED deliveryVars
            ELSE pass' = NothingToAsk(FALSE) /\ SetBaseline(newest)

Asking ==
    /\ session # "down"
    /\ pass.at = "asking"
    /\ pass.todo # {}
    /\ pass.silent < SilenceLimit
    /\ ~Blocked("recovery")

Asked == Lowest(pass.todo)

\* attempt, by the answer.  A reply for another identifier is delivered, and
\* the one asked for stays pending.
AttemptGets(id) ==
    /\ Asking
    /\ Submit(id, "recovery")
    /\ pass' = [pass EXCEPT !.todo = @ \ {Asked}, !.silent = 0,
                            !.progress = @ \/ id = Asked,
                            !.pending = @ \/ id # Asked]

AttemptNotFound ==
    /\ Asking
    /\ WriteOff(Asked)
    /\ pass' = [pass EXCEPT !.todo = @ \ {Asked}, !.silent = 0,
                            !.progress = TRUE, !.floor = Asked]

\* Mutant of AttemptRefused: any refusal means the result is gone.
AttemptRefusedIsGone ==
    /\ Asking
    /\ WriteOff(Asked)
    /\ pass' = [pass EXCEPT !.todo = @ \ {Asked}, !.silent = 0,
                            !.progress = TRUE, !.floor = Asked]

AttemptRefused ==
    /\ Asking
    /\ pass' = [pass EXCEPT !.todo = @ \ {Asked}, !.silent = 0, !.pending = TRUE]
    /\ UNCHANGED deliveryVars

AttemptSilent ==
    /\ Asking
    /\ pass' = [pass EXCEPT !.todo = @ \ {Asked}, !.silent = @ + 1, !.pending = TRUE]
    /\ UNCHANGED deliveryVars

\* The end of a pass.  findFloor declares the baseline if it found it; then
\* recoverGap decides whether another pass follows at once, after a delay,
\* or not at all.
FinishPass ==
    LET bottom  == pass.plan = "floor" /\ pass.floor = NoId /\ ~pass.more
        skipped == pass.more /\ ~(pass.plan = "floor" /\ pass.floor # NoId)
    IN
    /\ session # "down"
    /\ pass.at = "asking"
    /\ pass.todo = {} \/ pass.silent = SilenceLimit
    /\ ~Blocked("recovery")
    /\ IF pass.plan = "floor" /\ pass.floor # NoId
       THEN SetBaseline(pass.floor)
       ELSE IF bottom THEN SetBaseline(0) ELSE UNCHANGED deliveryVars
    /\ \/ /\ skipped /\ pass.progress
          /\ pass' = PassAgain("latest", pass.attempts)
          /\ UNCHANGED <<owed, session>>
       \/ /\ ~(skipped /\ pass.progress)
          /\ pass.pending /\ pass.attempts > 1
          /\ pass' = PassAgain("sleeping", pass.attempts - 1)
          /\ UNCHANGED <<owed, session>>
       \/ /\ ~(skipped /\ pass.progress)
          /\ ~(pass.pending /\ pass.attempts > 1)
          /\ pass' = NoPass
          /\ owed' = (pass.pending \/ skipped)
          /\ session' = IF session = "recovering" THEN "subscribing" ELSE session
    /\ UNCHANGED <<produced, evicted, outbox, reconciled, listened, faults>>

\* recoveryRetryDelay has passed.
PassWakes ==
    /\ session # "down"
    /\ pass.at = "sleeping"
    /\ pass' = [pass EXCEPT !.at = "latest"]
    /\ UNCHANGED <<deliveryVars, produced, evicted, outbox, session, reconciled,
                   owed, listened, faults>>

-----------------------------------------------------------------------------
(* The session: when passes start, and what ends them.                     *)

\* recoverGap while a pass runs returns at once.
RecoverGap == pass' = IF pass.at = "idle" THEN FirstPass ELSE pass

\* The handshake was accepted: recovery runs before the subscription.
SessionStarts ==
    /\ session = "down"
    /\ session' = "recovering"
    /\ RecoverGap
    /\ UNCHANGED <<deliveryVars, produced, evicted, outbox, reconciled, owed,
                   listened, faults>>

\* restore: the controller accepted the results subscription.
Subscribes ==
    /\ session = "subscribing"
    /\ session' = "ready"
    /\ UNCHANGED <<deliveryVars, produced, evicted, outbox, reconciled, pass, owed,
                   listened, faults>>

\* Mutant of Reconciles: no pass follows the subscription.
ReconcilesNothing ==
    /\ session = "ready"
    /\ ~reconciled
    /\ reconciled' = TRUE
    /\ UNCHANGED <<deliveryVars, produced, evicted, outbox, session, pass, owed,
                   listened, faults>>

\* reconcile: a pass after the subscription, for what was produced before it
\* and is never pushed.
Reconciles ==
    /\ session = "ready"
    /\ ~reconciled
    /\ reconciled' = TRUE
    /\ RecoverGap
    /\ UNCHANGED <<deliveryVars, produced, evicted, outbox, session, owed,
                   listened, faults>>

\* keepUp, while something is owed.
KeepsUp ==
    /\ session = "ready" /\ reconciled
    /\ owed
    /\ pass.at = "idle"
    /\ RecoverGap
    /\ UNCHANGED <<deliveryVars, produced, evicted, outbox, session, reconciled,
                   owed, listened, faults>>

\* recoveryInterval has passed.
Polls ==
    /\ Polling
    /\ session = "ready" /\ reconciled
    /\ pass.at = "idle"
    /\ RecoverGap
    /\ UNCHANGED <<deliveryVars, produced, evicted, outbox, session, reconciled,
                   owed, listened, faults>>

\* submitPushed: a result above the gap, or without a baseline, asks for a
\* pass, and then goes to the delivery queue.
SubmitPushed(id) ==
    /\ session = "ready"
    /\ Submit(id, "pushed")
    /\ IF window.watermark = NoId \/ id > window.watermark + 1
       THEN RecoverGap
       ELSE UNCHANGED pass

PushArrives ==
    /\ outbox # <<>>
    /\ SubmitPushed(Head(outbox))
    /\ outbox' = Tail(outbox)
    /\ UNCHANGED <<produced, evicted, session, reconciled, owed, listened, faults>>

\* The session ends: its fibers are interrupted, the pass among them, and
\* the controller pushes nothing more.
SessionLost ==
    /\ session # "down"
    /\ SessionEnds
    /\ session' = "down"
    /\ pass' = NoPass
    /\ reconciled' = FALSE
    /\ outbox' = <<>>
    /\ UNCHANGED <<produced, evicted, owed, listened>>

-----------------------------------------------------------------------------
(* The controller.                                                         *)

Produces ==
    /\ produced < MaxProduced
    /\ produced' = produced + 1
    /\ IF session = "ready"
       THEN /\ outbox' = Append(outbox, produced')
            /\ listened' = listened \cup {produced'}
       ELSE UNCHANGED <<outbox, listened>>
    /\ UNCHANGED <<deliveryVars, evicted, session, reconciled, pass, owed, faults>>

\* Its storage is bounded, and the oldest result goes first.
Evicts ==
    /\ evicted < MaxEvicted
    /\ evicted < produced
    /\ evicted' = evicted + 1
    /\ UNCHANGED <<deliveryVars, produced, outbox, session, reconciled, pass, owed,
                   listened, faults>>

StoreKept == UNCHANGED <<produced, evicted, outbox, session, reconciled, owed, listened>>

Answers ==
    /\ \/ Store # {} /\ LatestIs(produced)
       \/ Store = {} /\ LatestRefused
       \/ Asking /\ Asked \in Store /\ AttemptGets(Asked)
       \/ Asking /\ Asked \notin Store /\ AttemptNotFound
    /\ StoreKept
    /\ UNCHANGED faults

Fault(kind) ==
    /\ kind \in FaultKinds
    /\ faults < MaxFaults
    /\ faults' = faults + 1

Misbehaves ==
    /\ \/ Fault("silence") /\ (LatestSilent \/ AttemptSilent)
       \/ Fault("refusal") /\ AttemptRefused
       \/ Fault("latest refused") /\ LatestRefused
    /\ StoreKept

HandlerFails ==
    /\ Fault("handler")
    /\ HandlerRetries \/ HandlerGivesUp
    /\ UNCHANGED <<produced, evicted, outbox, session, reconciled, pass, owed, listened>>

SessionFails == Fault("session") /\ SessionLost

Delivers ==
    /\ TakeDuplicate \/ TakeNew \/ HandlerSucceeds
    /\ UNCHANGED recoveryVars

Init ==
    /\ DeliveryInit
    /\ produced \in History
    /\ evicted = 0
    /\ outbox = <<>>
    /\ session = "down"
    /\ reconciled = FALSE
    /\ pass = NoPass
    /\ owed = FALSE
    /\ listened = {}
    /\ faults = 0

Next ==
    \/ Answers \/ FinishPass \/ PassWakes
    \/ SessionStarts \/ Subscribes \/ Reconciles \/ KeepsUp \/ Polls
    \/ PushArrives \/ Delivers
    \/ Produces \/ Evicts
    \/ Misbehaves \/ HandlerFails \/ SessionFails

Spec == Init /\ [][Next]_vars

\* The client's fibers run when they can, its supervisor reconnects, its
\* timers fire, the handler returns, and a controller that does not
\* misbehave answers and pushes.  Nothing has to be produced or to fail.
Fairness ==
    /\ WF_vars(Answers) /\ WF_vars(FinishPass) /\ WF_vars(PassWakes)
    /\ WF_vars(SessionStarts) /\ WF_vars(Subscribes) /\ WF_vars(Reconciles)
    /\ WF_vars(KeepsUp) /\ WF_vars(Polls)
    /\ WF_vars(PushArrives) /\ WF_vars(Delivers)

FairSpec == Spec /\ Fairness

-----------------------------------------------------------------------------
(* The state of recovery is of its types.                                  *)
TypeOK ==
    /\ DeliveryTypeOK
    /\ produced \in 0 .. MaxProduced
    /\ evicted \in 0 .. MaxEvicted
    /\ outbox \in Seq(ResultIds)
    /\ session \in {"down", "recovering", "subscribing", "ready"}
    /\ reconciled \in BOOLEAN
    /\ pass \in PassTypes
    /\ owed \in BOOLEAN
    /\ listened \subseteq ResultIds
    /\ faults \in 0 .. MaxFaults

(* Only what the controller no longer stores is written off: a timeout or  *)
(* another refusal leaves the result to be asked for again.                *)
WrittenOffIsGone == writtenOff \cap Store = {}

(* On a controller that was empty when first asked nothing is history: the *)
(* baseline findFloor declares lies below every result it still stores,    *)
(* although others of the block were refused or never answered.            *)
EmptyControllerHasNoHistory ==
    window.emptyHistory /\ window.baseline # NoId =>
        \A id \in Store : id > window.baseline

(* What recovery takes for known is known: delivered, gone, or on its way  *)
(* to the handler.  Nothing else would ever fetch it (Dedup.ts, known:     *)
(* "delivered or on its way").                                             *)
KnownIsOnItsWay ==
    \A id \in ResultIds :
        Known(window, id) => id \in handled \/ id \in writtenOff \/ InFlight(id)

(* Every result due to the application is delivered, unless the controller *)
(* drops it first.                                                         *)
DueIsDelivered ==
    \A id \in ResultIds : Due(id) ~> (id \in handled \/ id \notin Store)

=============================================================================
