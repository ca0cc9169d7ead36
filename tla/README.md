# A TLA+ model of effect-open-protocol

`src/packages/open-protocol` is a client for tightening controllers that speak
the Open Protocol over TCP. Its promise is about *results*: every tightening the
controller records reaches the application's handler, once, although sockets
drop, requests time out and acknowledgements get lost. Around the client the
repository has a simulated controller with faults, a recorder that traces every
byte into SQLite, and a viewer for what was recorded. This directory models all
of them, checks the models with TLC on small instances, and proves with TLAPS,
for every size, the results the rest leans on.

Paths below are relative to `src/packages/open-protocol/src/` unless they say
otherwise; `simulator/` is `src/packages/open-protocol/simulator/`, `cli/`
is `src/packages/cli/src/`, `store/` is `src/packages/store/src/` and `ui/` is
`src/apps/ui/`.

## 1. The system

| Part | State | Operations | Talks to |
|---|---|---|---|
| Duplicate window `results/Dedup.ts` | one `Ref`: last `dedupCapacity` ids, watermark, `ahead`, baseline, claims | `remember`, `seen`, `known`, `markBaseline`, `markNoHistory`, `claim`, `release` | shared by delivery and recovery |
| Delivery queue `results/ResultDelivery.ts` | bounded queue, one worker fiber | `submitPushed`, `submitRecovered`, the loop, handler retries | window, application handler, acknowledgements |
| Recovery pass `results/ResultRecovery.ts` | none between passes | `reconcile`, `fetchRange`, `findFloor`, `attempt` | MID 0064 requests, window, delivery |
| Gap recovery `connection/GapRecovery.ts` | `recovering` flag, what is owed | `recoverGap`, `keepUp`, polling, `submitPushed` | starts passes |
| Supervisor `connection/DeviceConnection.ts` | connection state, current session, fiber | attempt, retry, `close` | everything |
| State machine `connection/ConnectionState.ts` | pure | `transition` | supervisor |
| Session loops `connection/Session.ts`, `Handshake.ts` | last-sent time | reader, keep-alive, `startCommunication` | requests, subscriptions |
| Requests `connection/RequestReply.ts` | gate, one slot | `request`, `offer`, `interruptAll` | session |
| Subscriptions `connection/Subscriptions.ts` | entries by MID, live session, one queue each | `open`, `offer`, `restore`, `detach`, `close` | session, application streams |
| Device pool `pool/DevicePool.ts` | slots and a map of fibers | `add`, `remove`, the layer's close | connections |
| Protocol `protocol/*` | bytes not framed yet | framing, headers, fields, layouts, the MIDs | session, tracer |
| Tracing `transport/WireTrace.ts`, `WireEscape.ts` | a buffer per direction | `observe` | recorder |
| Simulated controller `simulator/*` | session state, port, held frames | serve, push, resend, faults, outages | the other end of the wire |
| Recorder `cli/Recording.ts`, store `store/*` | queue, one writer; `events`, `runs` | `sink`, the writer, the finalizer; insert, page | viewer |
| Viewer `ui/*` | what the browser holds | first page, live feed, reconnection | store |

**How they interact.** The supervisor fiber opens a session, runs the
handshake, a recovery pass, the subscriptions, and then a second pass
(`reconcile`). The reader fiber routes each message: to the request that waits,
to a subscription's buffer, or, for a stored result nobody waits for, straight
to delivery. Three fibers (reader, consumer of pushes, recovery pass) submit to
one delivery queue whose worker belongs to the connection and outlives
sessions. The window is read and written by all of them. Under the command line
tools every socket operation also goes through a tracer, which frames the
stream for itself and offers events to a queue; one writer stores them; the
viewer's server polls the store and feeds the browser.

**What is hard.** The protocol does not say which request a "not found" answers,
nor which result an acknowledgement settles; requests time out and their
answers arrive later; a session can end between any two effects; passes,
pushes, resends and late replies deliver the same result several times; a
consumer may come and go while a session is being restored; scopes close in an
order nobody wrote down; everything is bounded (queue, window, passes,
attempts, buffers, the controller's storage). `hazards` in `PROJECT.json` lists
each place in the code where this bites, with the property that covers it.

**What makes each part correct.**

- *Window*: bounded, but above the baseline it answers as if it were not; never calls an unseen result a duplicate; its watermark is exact and only rises.
- *Delivery*: a result is handled once; nothing is acknowledged before it was accepted; backpressure ends.
- *Recovery*: writes off only what the controller no longer stores; declares history only what was history; delivers everything due.
- *Connection*: the state follows the supervisor; `Closed` means released; the backoff follows the streak of failures; it comes up again, or closes.
- *Session*: every consumer ends up subscribed or ended, no subscribe goes out twice, no stream is left that nobody ends.
- *Requests and keep-alive*: every request comes back; silence is bounded; the reader is not blocked for ever.
- *Pool*: one fiber per device, no slot left over, every live fiber reachable, a remove that returned has released.
- *Simulator*: an old connection never unhooks its successor; a push ends only its own connection; the port comes back after an outage.
- *Protocol and trace*: what was written is read, wherever the stream is cut; a request is settled by its own reply; trace, store and browser agree.

## 2. Modules

| Module | Models | Built on |
|---|---|---|
| `DedupWindow` | the window as a record; every operation of `Dedup.ts` an operator on it | |
| `Dedup` | those operations in any order, with a history of what was remembered | `DedupWindow` |
| `DuplicateMemory` | the abstract promise: an unbounded set of deliveries above a start | |
| `ResultDelivery` | queue, waiting offers, worker, retries, acknowledgements | `DedupWindow` |
| `GapRecovery` | passes and the policy that starts them, sessions, a controller that answers at once | `ResultDelivery` |
| `ResultFlow` | the same with frames on a wire, the slot, the subscription's buffer, resends | `GapRecovery` |
| `ConnectionState`, `Connection` | the transition function; supervisor, finalizers, backoff, closing fibers | |
| `RequestReply` | gate, slot, timeout, `offer`, interruption, `interruptAll` | |
| `Subscriptions` | the registry: consumers that open, add, stream and leave; restore, detach, close | `RequestReply` |
| `Session` | attempts, handshake, reader, keep-alive, application requests, a controller that subscribes | `Subscriptions` |
| `DeviceSettings` | the defaults and how a configuration overrides them | |
| `KeepAlive` | the clock of a ready session: when the loop wakes, what it computes, requests that share the gate | `RequestReply`, `DeviceSettings` |
| `DevicePool` | slots, fiber map, supervising fibers, concurrent adds and removes, the layer's close | |
| `Listener` | the simulator's port: bindings, outages, lock, retirement | |
| `Fleet` | the pool against the port, and the end of a chaos run | `DevicePool`, `Listener` |
| `Simulator` | the controller's fibers over one session state: overlapping connections, pushes, faults | |
| `Codec` | ASCII numbers, text, fields, layouts, headers, both ways | |
| `Framer` | `takeFrames` and `step` | `Codec` |
| `Messages` | every MID with its layout, decoding, encoding, which reply settles which request | `Codec` |
| `Controller` | `replyTo`: the reply to every request, refusals, rejections, split frames | `Messages` |
| `WireTrace` | `observe`, escapes and their inverse | `Framer` |
| `TraceStore`, `Recording`, `Viewer` | the events table; queue, writer, finalizer; first page, feed, reconnection | |
| `TracedLink` | a session over a traced link, from the bytes to the browser | `Controller`, `WireTrace`, `Recording`, `Viewer` |
| `DedupProofs`, `ResultProofs`, `ConnectionProofs`, `RequestReplyProofs`, `SessionProofs`, `KeepAliveProofs`, `FleetProofs`, `WireProofs` | theorems | the modules they speak of (`ResultProofs`: `ResultDelivery`, `GapRecovery`, `ResultFlow`; `FleetProofs`: `DevicePool`, `Fleet`, `Simulator`; `WireProofs`: `Framer`, `Messages`, `Recording`, `TracedLink`; the others the module they are named for) |

Modules that build on another extend it and reuse its actions: `ResultFlow`'s
`ReadsReply` is `GapRecovery`'s `AttemptGets` and its siblings together with
the frame that is taken off the wire; a step of `Fleet` is a step of the pool,
of the listener, or of both when a socket goes. Each `MC*` module only names
the values a configuration gives to the constants.

**Correspondence.**

- One `Ref.update` is one step, and so is the synchronous code between two
  points where a fiber can be suspended. `claim` and `offer` in `enqueue` are one
  step, but a full queue makes the offer an entry *behind* `ResultBuffer` that
  waits: `Blocked`. When the session ends, these entries are dropped and their claims
  stay.
- `pass` is the state of the running recovery fiber: `at` says where it is,
  `todo` which identifiers it still asks for, the flags what the outcome will
  be. `FinishPass` is the end of `reconcile` and the decision of `recoverGap`.
- `advance` in `Dedup.ts` is recursive; `AdvancedMark` says where the recursion
  stops. `TighteningId.make` throws above its maximum, and an update that
  throws leaves the `Ref` as it was: `AdvanceThrows`.
- The controller in `ResultFlow` is the simulator's: one push at a time, resent
  until acknowledged, requests answered in order. `Simulator` has the fibers
  behind that, `Controller` the replies, `Session` the part that subscribes.
- `Connection`'s `Emit` is get-then-set in the code. Nothing suspends the fiber
  in between, except the end of its slice of the scheduler just there; the
  model leaves that out.
- In `RequestReply` the slot stands for the gate too: a fiber has the one
  permit exactly while its request is in the slot. Every session has a slot of
  its own, and a request that queues for the gate of a session that ended goes
  on to a dead socket (`FailsToSend`).
- In `Subscriptions` a consumer is a fiber that acquires and releases its
  stream. `turn` is the registry's lock, held by a consumer or by the attempt
  that restores.
- `KeepAlive` counts ticks of 2.5 s, which divide the default interval and
  timeout. `idle` is what the loop computes from the wall clock and `lastSent`,
  `silence` what really happened.
- `DevicePool` knows a fiber by the call that started it. effect's `FiberMap`
  is modelled from its use: `run` replaces and interrupts, `remove` interrupts
  and waits.
- `Codec` works on sequences of character codes. What may fail returns a set
  with the one thing it made, or the empty set. `TracedLink` writes real
  frames, cuts them at the places its scenario names, and puts every chunk
  through the tracer's framer and the session's.
- History variables (`remembered`, `handled`, `writtenOff`, `acked`, `settled`,
  `listened`, `silence`, `excused`) record what happened and guard nothing.
- Operators commented "Mutant of X" or "A mutant" are wrong versions of X. They
  appear in no specification and show that a property notices the mistake.

## 3. Runs

| Run | Question | Bounds, and why they are enough |
|---|---|---|
| `dedup` | Does the bounded window answer like an unbounded one, in every order of operations? | identifiers up to 5, results 1..4, capacity 2: evictions, gaps of several, results on both sides of a baseline. The theorems cover every size. |
| `gap` | Passes, policy, faults: silence, refusals, lost sessions, handler failures, with polling. | 2 results, one of them possibly stored before the first contact, one evicted by the controller; one unanswered request ends a pass with results left to ask for; window of 1; two faults of any kinds, so retries run out. |
| `flow` | The wire with late replies, a queue of one and three producers. | 3 results, one timeout, one refusal or one handler failure; window of 1. |
| `flow_sessions` | The wire with lost sessions, refusals and resends, every reply in time. | 2 results, two faults, no polling; a limit of 1, so that passes leave results out. |
| `connection` | Supervisor against two closers. | one closer that may be interrupted and the scope's finalizer; 4 failures, a cap of 5, so a streak passes `Ready` and starts over. |
| `session` | Consumers that come and go through a reconnect, a refusal and a close. | two consumers of one MID (the case the registry is about), one application fiber, two sessions, channels and buffers of one. |
| `keepalive` | Does silence stay bounded, and does every request come back, on a link that may go mute or block its reader? | two application fibers and the loop; the default interval (4 ticks) and timeout (2 ticks). |
| `fleet` | Adds and removes of one device, outages, the operator, and the end of the run. | two calls that add or remove again and again, one outage window waiting, the operator at any time. |
| `simulator` | Connections that overlap on one session state, with every fault. | two connections, one result, two attempts, two unread frames, one frame held back: a push that starts on one connection ends on the next. |
| `wire` | From the bytes to the browser. | 33 streams: every message alone, every request with its reply, refused, late, in another revision, behind a push, or before each kind of junk, cut where a boundary matters; one short recording with a batch of 2, pages of 1, two feeds and a second run in the same file. |
| `gap_backpressure` | Is what the window knows on its way? | (expects a violation) 3 results, a queue of one, one lost session. |
| `recording_goodbye` | Is every byte traced? | (expects a violation) the recording of `wire`, without the second run. |

The queue in `gap` and `flow_sessions` has room for 6, so no offer waits: what
happens when one does is the subject of `flow` and of `gap_backpressure`.

### Where code and documentation disagree

Two runs check what a comment says and find a behaviour of the code that
violates it:

1. `gap_backpressure`: an offer interrupted while it waits for room leaves its
   claim, and recovery never asks for that result.
2. `recording_goodbye`: the recording is provided inside the scope that holds
   the connection, so Ctrl-C ends the run first; the goodbye is traced
   afterwards and never stored.

Others follow from the models, but have no run of their own:

- A "not found" that arrives after its timeout is the answer to the next
  request, which is written off while the controller still stores it
  (`results/ResultRecovery.ts:120` against `REFERENCE.md:509`). `gap` has no
  late replies and checks `WrittenOffIsGone`; `flow` has them and does not.
  There, with one evicted result, a pass of two and one request that goes
  unanswered, TLC finds it.
- Likewise for the latest result: the pass believes the older identifier and
  stops, and the newer answer, now unsolicited, starts no recovery
  (`results/ResultRecovery.ts:217`, `REFERENCE.md:506`).
- A resend is acknowledged twice; the second acknowledgement settles the next
  push before its handler ran (`results/ResultDelivery.ts:136`,
  `REFERENCE.md:106`). So `flow` has no resends, and `flow_sessions`, which
  has them, does not check `SettledWasAccepted`. In `flow` with one resend in
  the place of its faults TLC finds it: the resend queues behind the handler,
  and is acknowledged after the result itself was. `results/ResultDelivery.ts:109-111`
  grants that only to a duplicate whose acknowledgement never arrived.
- If no baseline request was answered in a session that pushed results, the
  next session's baseline declares them history (`results/ResultRecovery.ts:232`).
  `flow_sessions` has no such loss among its faults.
- A close that finds another under way returns at once, although nothing is
  released yet; and a close interrupted while it says goodbye leaves the state
  `Closing`, so that every later close, the scope's included, returns without
  releasing anything (`connection/DeviceConnection.ts:468` against `:89`).
- The keep-alive is due after an interval of silence
  (`connection/DeviceSettings.ts:17`), but the loop measures when it wakes, so
  the link may be silent for almost two (`connection/Session.ts:142`), or for
  an interval and a timeout when the timeout is no shorter than the interval.
  `SilenceIsBounded` is what holds.
- A mute controller does not end the session while the application keeps
  sending: a send counts as activity, and a timeout of its request does not end
  the session (`connection/DeviceSettings.ts:36`).
- `simulator/TcpListener.ts:39` says that the port is bound for the lifetime of
  the scope: the scope's release waits for the lock, which an asker interrupted
  while it binds may hold for ever.
- `simulator/FaultyWire.ts:142` says that established traffic is untouched by a
  refusal of connections; over TCP `refuse(true)` closes every accepted socket.
- `transport/WireTrace.ts:65-66` says that `unescapeWire` gives the bytes back:
  for the events of frames, characters above 127 come back as two bytes.
- A Stop or Unsubscribe read late on an old connection clears the subscription
  of the new one, and a late Subscribe subscribes it
  (`simulator/ControllerSimulator.ts:131`).
- In the viewer the arrow keys toggle the details closed at the end of the list
  (`ui/app/runs/[id]/run-view.tsx`, `moveWithArrows`).

Observed on the way: `ahead` grows with every result remembered at or below the
watermark (`results/Dedup.ts:168`); `remember` throws when the gap it closes
reaches the largest identifier (`results/Dedup.ts:83`); any refusal of the
request for the latest result is taken for an empty controller
(`results/ResultRecovery.ts:134`); the framer drops the frames it already has
when a later one in the same chunk is malformed; the length in a header counts
characters while the bytes are UTF-8; text fields lose trailing blanks; a reply
in another revision is not recognised as a refusal or an acceptance; a result
the simulator abandoned may still be acknowledged; frames a coalesce fault held
back outlive the fiber that held them, and are dropped or written later to
another connection; an add interrupted between its claim and the start of its
fiber leaves the slot taken (between two effects that do not suspend, so the
pool's model leaves it out).

### Fairness

`FairSpec` and `FairFlowSpec` assume what the runtime gives: a fiber that can
run does, timers fire, the handler returns, an open connection carries its
frames, and a controller that does not misbehave answers. Nothing has to be
produced, evicted, lost or to fail. Faults are bounded by `MaxFaults`: what is
promised is promised once they stop. This is weak fairness, which a scheduler
that runs every ready fiber gives. Strong fairness is asked only where fibers
queue for one permit, which effect's semaphore hands out in the order of
asking: the gate in `KeepAlive`, the lock of the port in `Fleet`.

- `Connection`: weak fairness of the supervisor's progress (not of its
  failures), of its finalizers, and of a fiber that has begun to close (not of
  beginning to).
- `KeepAlive`: the clock ticks; a request that is due gives up. The controller
  may go mute and need not answer. `RequestsComeBack` and `ReaderMovesOn` hold
  all the same.
- `Fleet`: calls go on, fibers run, connections that find the port up are made.
  Outages end; the operator need not type. `DevicesComeBack` excuses a port
  that the operator took down, or that could not be bound again, until it is
  bound: `excused` is no longer set once it is.
- `Simulator`: the controller's fibers run and its timeouts end; the client
  need not do anything.
- `TracedLink`: the writer, the server and the browser run for as long as they
  live; the network and the person at the keyboard need not act.
- `Session` is checked for safety only.

`gap` checks `DueIsDelivered` with polling. `flow_sessions` checks it without:
there a refusal makes a pass owe results, and `keepUp` takes it up again.
`CHECK_DEADLOCK FALSE` is set where the system may stop: everything produced
and delivered and no fault left, a closed connection, an exited process.

## 4. Proofs

Eight modules prove, for all values of the constants, what the runs check on one.

**The window.** `TypeOK` and `WindowAgrees` are inductive with what `Record` keeps.
Exactness is not: `ExactAboveBaseline` alone does not say what the watermark
stands for. `Accounted` does: without a baseline, `ahead` holds everything
remembered; with one, the run from it to the watermark was remembered,
`ahead` holds what was remembered above, and the identifier that would extend the run was not.
`AccountedInvariant` proves it, and `SeenIsExact`, `NothingIsFalselySeen`,
`WatermarkIsAlwaysTight` and `ProgressIsAlwaysKept` follow.
`WindowImplementsMemory` is the refinement of `DuplicateMemory`: to `seen`, no
eviction ever happened. These five assume `MaxId \notin ResultIds`, because
at the largest identifier `advance` throws and the theorem would be false.
`AdvancedMark` is a `CHOOSE`, so `AdvancedMarkExists` first shows, from the
well-foundedness of the naturals, that the recursion has a place to stop.

**The connection.** `StateFollowsSupervisor` and `ClosedIsReleased` are not inductive
either: the state does not tell what fibers hold. `Coherent` adds `Holdings` (where
in an attempt session and socket live), `OneCloser` (at most one fiber closes,
`Closing` says so, and only it interrupts) and `Streak` (the backoff while an
attempt runs is that of the failure before it). One lemma per action shows that
it is kept; two lemmas (`OpenKeepsCoherent`, `ClosingKeepsCoherent`) carry the parts that are alike. The theorems hold for any number of closers
and failures and any cap. They assume only what the module's `ASSUME`s say.

**The delivery queue.** `ResultProofs` shows that the queue is a client of
the window that keeps to its interface: `DeliveryImplementsDedup` maps the
window and `handled \cup writtenOff` to `Dedup`'s window and its history, and
every step of the queue to a step of `Dedup` or a stutter. So `Accounted`, proved
once about the window, holds of it inside the queue (`ExactHere`), and with it
`AcceptedAlwaysStaysSeen`. `AlwaysHandledOnce` needs besides only the order in
which the loop asks and tells: what is taken was not seen, so it was not
handled; while it is handled nothing else is handed out, and the baseline, once
set, stays. `AckedWasAlwaysAccepted` uses the other half, that nothing is
falsely seen. That `MaxId` is no result's identifier, which the window's
theorems need, is an assumption of `ResultDelivery`. `DeliveryTypes` needs one
fact of its own: two offers that wait come from different producers
(`WaitersDiffer`).

**Gap recovery.** `ResultProofs` lifts this once more: `RecoveryUsesTheQueue` shows that
`GapRecovery`'s specification implements `DeliverySpec`, whatever passes, session
and controller do. `RecoveredOnce` and `RecoveredStaysSeen` are then one-line
consequences. The invariant it needs, `Planned`, says that a pass asks only for
results that were produced (`todo` stays below `produced`, however the store
moves after the range was computed); with it, `WrittenOffIsAlwaysGone` follows,
because a "not found" for a produced result means it was evicted, and the store only loses.
`EmptyControllerNeverHasHistory` rests on `HistoryInv`: the baseline stands with
the watermark, the floor a pass has taken is not above what was evicted, and a
baseline set after the controller was seen empty is not either.
`RecoveryTypes` is `TypeOK`.

**Results over the wire.** `FlowUsesTheQueue` shows that `ResultFlow`, too, implements
`DeliverySpec`: a late reply may answer another request than the one that
waits, so any result may arrive at any time and the account `FlowPlanned` is
weaker, but it is still only results that reach the queue. `FlowHandlesOnce`
follows, and `FlowTypes`. `SlotAlwaysMatchesPass` adds that a
pass with a request in flight is below its limit of silence (`SlotIsAsked`), so
it cannot end before the request does.

Three more theorems name the faults they exclude, because with them the claim
is false and TLC shows how:

- `PromptAnswersAreTrue` (`WrittenOffIsGone`) and `HeardIsNeverHistory`
  (`HeardIsNotHistory`) exclude silence. After a request that was given up, its
  late "not found" answers the next one, which writes off a result the
  controller has; and when the very first request goes unanswered, the session
  subscribes without a baseline, and hears results that the next pass declares
  history. Without silence the wire carries one exchange: at most one request or one
  reply, never both, for the request in the slot, and what the reply claims is
  true (`Exchange`). `Contact` and `Heard` say what was heard before and after
  the first contact. `Prompt` is their conjunction with `Planned` and `HistoryInv`.
- `SettledWasAlwaysAccepted` excludes lost sessions and resends; either alone breaks
  it, because a result pushed twice may be refused as a duplicate and
  acknowledged while its first copy still waits in the queue. Without them the
  push is a token: it is in exactly one place of the wire, the subscription's
  buffer, the queue, the worker and the acknowledgement on its way back
  (`Token`), and only the worker's acceptance moves it past the worker.

**The slot.** `SlotInv` is `RequestTypeOK`, `OneInFlight` and `SentIsInSlot`
together: that a new request finds no other in flight needs that each one sent
is in the slot, and that the slot is not taken from it needs that the fiber in
the slot no longer queues for the gate. Nothing is assumed but that `NoFiber`
is no fiber. `Session` and `KeepAlive` implement `RequestSpec`
(`SessionUsesTheSlot`, `KeepAliveUsesTheSlot`), so both proofs reuse `SlotInv`.

**The sessions.** The three properties of `session` hold for any number of
consumers, MIDs, sessions, application fibers and room on the wires.
`SessionInv` says who has the registry's turn (`Turns`), what the request of
each fiber is about, although it may outlive the session it was made on
(`Errands`), which streams are registered (`Entered`), which subscribes were
asked (`Asking`), and why a registered consumer will be heard
(`Subscribing`): its subscribe is still to be sent (`ToBeSent`), or it is the
`LastWord` on its MID among what the controller observed and what is on the
way there. Four lemmas say what a command that is sent, observed or arrived
does to the last word. `Moves` and `QuietErrands` sort the steps of `Next` by
what they touch, so that each part of the invariant meets only the steps that
can disturb it.

**The clock.** `SilenceIsBounded` is not inductive: while the loop's mirror
queues behind other requests, nothing in it bounds the silence. `ClockInv` adds
a bound for each stage: while the loop sleeps, silence and timer together stay
within `LongestSilence` (`SleepIsShort`); while a request is in flight, the silence
is no older than it (`SilenceIsYoung`); and the time the loop woke at is no
younger than the silence its mirror began (`MirrorIsYoung`). The settings
are arbitrary, and no order between timeout and interval is assumed: the loop
falls asleep for an interval after it woke within one interval of a send, or
after its own request, which lasts a timeout at most, and `LongestSilence` is an
interval behind the later of the two (`SilenceHasRoom`). `keepalive` runs the
default settings, where that is less than two intervals.

**The pool.** `PoolInv` adds to the types that a call which claimed a device is
alone with it (`ClaimsAreAlone`), that a live fiber is the one the map holds and
its slot is taken (`LivesAreHeld`), that what the map names is live
(`HeldIsLive`), and that, while the pool is open, a fiber told to stop has a
remove that waits for it (`StopsAreRemoves`). The four properties of the pool
that `fleet` checks follow for any number of calls and devices. `FleetUsesThePool`
shows that `Fleet` implements `PoolSpec`, so they hold in a chaos run as `fleet`
runs it (`FleetKeepsThePool`).

**The simulator.** `NewestIsAlwaysCurrent` adds to `Wired` (types) that connections are
opened in their order (`Ordered`); `Unhooks` says how a fiber may take
a connection off: it closed it. `PushClosesItsOwn` is the action property.
Both hold for any number of connections, results and attempts, and for every fault.

**The frames.** `FramesIgnoreCuts`: framing a stream equals framing its first part,
then what that left with the rest behind it, for any stream and any cut. This is
a fact about recursion on data, and the library's induction theorems cannot be
used: they take an operator as a parameter. `WireProofs` argues by
the least counterexample instead, which the well-foundedness of the naturals
gives. What a buffer leaves from one frame to the next is a chain
(`Chain`); a complete one exists for every buffer (`LeftoversComplete`), it is the only one
(`CompleteIsUnique`), and with more bytes behind the buffer it stays a chain
(`FurtherKeepsChain`), because a frame that was whole stays so (`FrameStays`) and so does
one that is malformed (`MalformedStays`). `SessionReadsTheFrames` lifts it to the specification: at any
moment, what a session has read is the frames of the bytes that arrived,
however they were cut. The scenarios are a constant; all that is assumed of them
is that they are well-formed and cut inside their stream (`ScenariosAssumption`).

**Writing and reading.** `WrittenFramesAreRead`: what `EncodeFrame` writes behind a
buffer that frames without remainder is the next frame, and `DecodeHeader` reads
its header back as it was written. It assumes that the length fits its four digits,
and MID and revision theirs, as `Header` does. A number written digit by digit
is read back by the same digits (`NumbersAreRead`), by induction on the places, again through the
least counterexample; the powers of ten are a table of ten entries (`TenTo`), since
the prover knows nothing of `^`. A header is seven such pieces
(`HeaderIsPieces`), each found at its place (`PiecesOfHeader`) and read whole, with nothing
trimmed (`PieceIsRead`).

**Settling.** `RequestsSettleAlone` (`SettledByItsOwn`) needs three facts about `Messages`: a message
that decodes carries the MID of its header (`MessageNamesItsMid`), what settles a
request is what concerns it (`SettlesIsConcern`), and an outcome, once there, is
the same whatever is read behind it (`OutcomeExtended`).

**The recording.** `EndedRunsAreComplete` needs that an event the sink was offered is in one of four
places until the run is over: in the queue, in the batch being written, in the
store or among those a failed statement lost (`RecordingInv`).

**Induction.** The functions that join, escape and frame are folds and recursive
functions on sequences; what they compute for an input of any length is proved from one
lemma, `UpFromZero`: a set of naturals with 0 and every successor holds
every natural. The set is that of the lengths for which the claim holds. `UpFromZero` rests on
the least element the well-foundedness of the naturals gives; no induction
theorem with an operator as its parameter is used. `Joined` is reduced to its
prefixes first (`JoinedByPrefixes`, `JoinedAppends`), and appending one piece is all the
other proofs need of it.

**Escapes.** `EscapesAreUndone`: `UnescapeWire` undoes `EscapeWire` on every sequence of
bytes, printable or not. Where an escape starts depends on what stands in front
of it, so the proof goes along the tokens (`TokenTells` for one, `TokenBehind` for one behind
others): every token is read whole, whatever follows.

**Layouts and messages.** `LayoutsReadBack`: what a layout writes of any values it
reads back, each field from its place. All that is assumed of a layout is `IsLayout`: its
fields stand one behind the other, under different names, and each is as wide as the values it
admits need. `MidsAssumption` says so of the layouts of `Messages`, which are the real
ones, and TLC evaluates it. The one loss is stated and not hidden: a text
comes back without its trailing blanks (`AsRead`), as in the code. `MessagesReadBack` puts the
layout into its frame: a message is written as one frame or refused by one of its fields,
and the frame is read as that message; which definition reads it is decided by
the MID and revision alone.

**What a session reads.** `WrittenMessagesAreRead` (`ReadsWhatWasWritten`). `ScriptsAreRead`
extends the above to scripts: what is written is read up to the first junk, behind
which nothing is read again (`Breaks`). With `ReadsTheFrames`, a session has
read a front of that; and without junk it is not lost, so in the end it read all (`NotLost`,
the part of the invariant the property itself does not say). A script is a sequence of any length;
what its items may be is `IsItem`: a message of its layout, a message of no
definition, a frame some other controller writes, bytes that are no frame.

**What the trace tells.** `TraceIsTheStream` (`TraceTellsTheStream`). `TraceInv` says it chunk
by chunk: the chunks told, unescaped and joined, are the bytes that arrived
(`TellsChunks`); the frames told, with their terminators, are the same bytes but for those
the tracer still holds (`TellsFrames`). The step is `FramesGiveBack`: what a framer lets go of
and what it keeps are the bytes it was given. What is sent meanwhile, the
goodbye, is told as sent (`SentIsNotReceived`).

**What settles a request.** `RepliesSettle` (`RequestsAreAnswered`) holds of every request
`Messages` defines. A reply of the controller, or the refusal the fault sends in its
place, is about the request (`ReplyIsAbout`, `OwedIsAbout`); a result it pushes is about none
(`PushIsAboutNone`), so it settles nothing however many come first; written and read, the reply
is still what it was (`MessagesReadBack`); and the first message about the request decides the
outcome (`SettledByItsOwn`). The exchange is a constant of the scenario.
`ExchangesAssumption` says that its request is written in its own message, or in one the
controller does not know, and that the reply is what the controller's own `ReplyTo`
gives for the request as read; what the controller has stored, its identity, its latest
result and its clock are arbitrary, as long as what it writes fits its layout.

**Only model-checked.** Every invariant that a passing run checks is a theorem.
Liveness stays with TLC, because the prover cannot do it: `BackpressureEnds`, `DueIsDelivered`,
`ComesUp`, `CloseCompletes`, `RequestsComeBack`, `ReaderMovesOn`, `CallsAreAnswered`,
`DevicesComeBack`, `ResultsMoveOn`, `ViewerCatchesUp`. The proofs about the wire hold for every
scenario that meets the assumptions of `TracedLink`; that the scenarios of `wire` meet
them is what TLC evaluates.

## 5. Not modelled

- Durations, but for the clock of `KeepAlive`. A timeout may fire whenever it
  is running; a delay may end whenever it has begun. Jitter is left out, the cap
  of the backoff is kept. Wire latency (`transport/WireLatency.ts`) is a channel
  that is as slow as it likes.
- Logging, metrics, wording, the counters `delivered` and `failed`, the
  application's own subscriptions to other MIDs than one at a time.
- The in-memory transport and network beyond what a pair of ordered channels
  that ends as a whole does.
- The JSONL file of a recording, the status of a run in the list of runs, the
  recorder's stage "off" when the store cannot be opened beyond that nothing is
  stored, SQL itself.
- The viewer's layout, filters and selection.
- The lint rules under `src/tools`: checks of source text, no part of the
  protocol.

## 6. State of the work

Everything in the table of section 2 is modelled, checked and mapped. What could
come next: proofs about the port of `Listener`; a longer recording in `wire`;
runs for the disagreements above that have none.
