# The Crusoe load balancer controller in TLA+

The controller watches Kubernetes Services of type LoadBalancer and keeps one Crusoe external load
balancer, and optionally one VPC firewall rule, per Service. It is a reconcile loop over three stores
that share no transaction: the Service in the API server, the informer cache it reads, and the Crusoe
API, where creation is asynchronous. What can go wrong is what happens *between* two of its calls.
These modules model that loop, check it with TLC, and prove parts of it with TLAPS.

`SC` is `src/internal/controller/service_controller.go`, `U` is `src/internal/controller/util.go`, `UT` is
`src/internal/utils/utils.go` and `AU` is `src/internal/crusoe/auth.go`.

## The system

| component | state it keeps | operations | hard part |
|---|---|---|---|
| `ServiceReconciler` (SC) | none of its own: the Service's finalizer, annotations and status are its memory | `Reconcile`, `handleCreate`, `recordLoadBalancer`, `handleUpdate`, `handleDelete` | restart between any two calls, stale cache, a return that forgets to requeue |
| firewall rules (U) | annotations `firewall-rule-operation-id`, `firewall-rule-id` | `ensureFirewallRule`, `adoptFirewallRuleByName`, `deleteFirewallRule` | operations that are pending, fail, clash or age out; retry delay; hold limit of a deletion |
| ports (U) | none | protocol derivation, listeners, firewall rule arguments, drift | edits after the protocol is fixed |
| Kubernetes (external) | Services, watch, cache, work queue | Update (optimistic), merge patch, events, timers | lag, conflicts, predicate, recreated names |
| Crusoe API (external) | load balancers, rules, operations | create, delete, patch, list by name | asynchronous outcomes |
| node events, backends (SC, U) | none; the Nodes are in the informer cache | `nodeEventPredicate`, `mapNodeToLBServices`, `parseListenPortsAndBackends` | dropped events, Nodes that change while a pass runs, failed listings |
| work queue (external) | keys waiting, keys in hand | add, take, done | a key added while it is processed |
| `WaitForOperation` (UT) | poll backoff | poll until not in progress | blocks the only worker |
| names and hash (U, UT) | none | `GenerateLoadBalancerResourceName` | truncation at the limit |
| retry delay (U) | none | `firewallRuleRetryWait` | a clock that is not the controller's |
| request signing (AU) | none | `RoundTrip`, `canonicalizeQuery` | a query it cannot read |
| health checks, VPC discovery, events, start-up | none | pure functions, I/O | none across steps |

What makes each correct:

* reconciler: at most one load balancer per Service, a recorded id that is right and final, every Service
  eventually served or released, nothing left behind by a deletion;
* firewall rules: the rule follows the ports, failed creates are paced, a deletion finds the rule
  whichever of its three traces is left;
* ports: one protocol per load balancer, never an empty update;
* node events: every change of the backends reaches every load balancer, and no Service waits for ever behind
  another;
* names: accepted by the API, and one Service's only;
* signing: what is sent is what was signed, in one form per set of parameters.

## Modules

| module | models |
|---|---|
| `ServiceSpec` | what the controller reads off a Service's ports: pure operators |
| `KubeService` | one Service name in Kubernetes: stored object, watch, cached copy, queue, users |
| `CrusoeCloud` | load balancers, firewall rules and their create operations |
| `ServiceReconciler` | the controller between the two, the whole system's `Next`, and all properties |
| `OwnedLoadBalancers` | abstract: one Service name and its load balancers, what the controller promises of them |
| `MCServiceReconciler` | port sets for TLC, bounds that depend on each other |
| `ServiceReconciler_proofs` | theorems: types, one load balancer per Service |
| `Records_proofs` | theorems: what is recorded and published, releases, the refinement of `OwnedLoadBalancers` |
| `Settling_proofs` | theorem: nothing is left undone when nothing will trigger another pass |
| `Rules_proofs`, `Deletion_proofs` | theorems: the retry delay of a rule, what a release leaves behind |
| `ClusterNodes` | Nodes in the cache, the event predicate, who is a backend |
| `WorkQueue` | the keys of several Services |
| `BackendSync` | composes the two: several Services, one worker, their load balancers' backends |
| `MCBackendSync`, `BackendSync_proofs` | Node states for TLC; theorems |
| `ResourceNames`, `Pacing`, `Signing` | pure functions |
| `MCHelpers`, `Helpers_proofs`, `Signing_proofs` | the three against what is expected of them, over bounded inputs; theorems |

`ServiceReconciler` EXTENDS `KubeService` and `CrusoeCloud`, which share the constants of
`ServiceSpec`.

### State and steps

A reconcile is sequential, and one manager runs one reconcile at a time (no
`MaxConcurrentReconciles`, leader election). `pc` is where it has got to, `svc` is its own copy of the
Service: the cached object first, replaced by the API server's reply after each write, as
controller-runtime's client does. Every call to the API server or the Crusoe API is one action named
after the function that makes it; local decisions belong to the step before or after the call. So a
user's edit, a watch event, an operation's outcome, a failed call or a restart can fall between any two
calls.

* **Reads** of the Service at the start of a pass come from `cached`, which is up to `MaxLag` versions
  behind. The fresh read of `handleCreate` (SC:548) is the only direct one.
* **Updates** (adding and removing the finalizer) carry the copy's resource version and conflict with
  any later write. **Patches** carry neither version nor UID, apply to whatever the object is, and are
  no-ops without a new version when they change nothing.
* **Returns**: `Finish(retry)` is every `return`; `retry` says whether there is a RequeueAfter or an
  error. Both bring the key back later (`delayed`); how much later does not matter to any property. The
  earliest of several delays (`earliestRequeue`) is a delay.
* **CallFails** ends the pass with an error wherever a call is made. At the step after a call it is the
  lost reply of that call. `ensureLoadBalancerIngress` swallows errors and so it does here. A pass's last
  call has no step after it, so that its lost reply is no failure here: the code answers it with one more
  pass, which finds everything done, as any other event would bring it about.
* **Crash** forgets the pass and the timers; the restarted manager lists the Services.
* **Time** is the events time brings: `FwCooldownEnds` (`firewallRuleCreateRetryDelay`) and
  `HoldExpires` (`firewallRuleInFlightHoldLimit`). When the hold limit passes, operations submitted
  before the deletion request and still pending become `STUCK`: U:71 says an operation pending after
  that "is not going to land". Operations submitted later (`late`) are not covered by that.
* **Two marks** on an operation are there for the properties and are read by no step: `late`, if it was
  submitted after the deletion was requested (the hold limit reads that one, as time does), and `blind`, if the
  copy of the pass that submitted it had not the ids that were recorded (`MissesRecord`).
* **An external IP** is the id of the load balancer whose VIP it is, a resource **name** is the uid it
  is derived from, a rule's id is the number of the operation that made it.

### Several Services and the Nodes

`BackendSync` has a worker for all Services, so that what one pass does to another Service can be seen. Its
passes are those of `ServiceReconciler` reduced to the steps that read Nodes, write backends, change
whether the Service has an id, or hold up the worker (`WaitForOperation` in `handleCreate`, with a create
operation that succeeds or fails); deletion,
users' edits and the firewall rule's own operations are left to `ServiceReconciler`. Every Service has
one port and a managed rule.

* The informer changes its cache, `nodes`, before it notifies: `nodeEvents` counts the notifications that
  passed `nodeEventPredicate`. A Node may jump between any two states, as after an interrupted watch.
* A pass reads the Nodes once for the listeners (`hand`) and, in `GetFirewallRuleArgs`, once more.
* `NoListeners` is what a failed listing leaves; it is not the same as a listener without backends.
* `overlooked` is set where the code, as written, does not follow a change up: a Node whose addresses alone
  change (SC:756), Services that cannot be listed when an event is mapped (SC:790), a create without
  listeners that is answered 4xx (SC:309), and Nodes that cannot be listed when the arguments of a rule that
  does not exist yet are put together (U:952, where the empty list reads as "no backends"; U:903-905 asks
  for an error and a retry in such a case), and the failure of an operation whose load balancer was adopted
  before (`AdoptedThenFailed`). A resync or a restart makes the code look again at all of them.

### Pure functions

In `ResourceNames` a name is a sequence of characters and the hash an argument of eight of them. `Pacing`
counts seconds for the retry delay and milliseconds for polling, where the backoff is in 64ths of a second
so that 1.75^n is exact up to the cap. In `Signing` a text stands for what it unescapes to, with a mark for
how it is written; HMAC and escaping are Go's. What texts unescape to are numbers, as a query has finitely many
and only their order counts. The map of values and the sorted keys of the code come to a place for each
parameter: before those of greater keys, and behind earlier ones of its own.

### What the environment is assumed to do

These are not in the repository; they are what the code relies on or guards against.

* A load balancer appears in the list when its create request is accepted (SC:387 adopts one that "can
  still be provisioning"), gets a VIP with or after its operation's success, and may or may not exist
  after a failed operation. A firewall rule appears when its operation succeeds; a second one of the
  same name fails with "already exists".
* DELETE and PATCH take effect when accepted; the controller never follows their operations.
* Operation records age out only long after the retry delay.
* `Managed` (the `manage-firewall-rule` annotation) does not change over a Service's life; the repository's README
  warns that changing it leaves the rule untracked. Users do not edit the controller's other
  annotations, and there is a ready node.
* Load balancers carry a known protocol (those from before UDP support are not modelled, though
  `portsServedBy` covers their annotations).
* The update API rejects an empty list of listeners (U:421-422): `AcceptsUpdate`, where a Service has no port
  with a node port, and `ApiAcceptsUpdate`, where the Nodes could not be listed. That a load balancer keeps
  its listeners then is the API's doing and no property of the code. The create API may do either.

## Runs

Deadlock checking is off, but for the pure functions: with its Services settled, and users, Nodes and
failures used up, the system rightly stops. All runs use `MCServiceReconciler`, unless their property or
their subject is a Service's backends (`MCBackendSync`) or a pure function (`MCHelpers`).

| run | about | bounds | result |
|---|---|---|---|
| `CreateAndDelete` | creation is idempotent, records are final, no forgotten requeue | all kinds, TCP/UDP/mixed ports and one without node port, 1 edit, lag 2, 2 load balancers, 1 failure, 1 failed operation, operator | passes, 807k states |
| `ManagedRule` | the rule follows the ports, failed creates are paced, a release leaves no rule behind; two Services of the same name, refinement of `OwnedLoadBalancers` | managed rule, lag 1, 4xx answers, no direct reads; node port moves, 1 edit, 2 operations, 1 failure or 1 failed or aged operation; or 2 uids, 2 load balancers, 1 failure | passes, 2.4M states |
| `Progress` | liveness under failures, deletion and firewall rule operations | 2 failures, or 2 failed or aged operations, or 1 rule deleted by hand; 3 load balancers, 3 operations | passes, 146k states |
| `Backends` | Node events to backends, and liveness | 2 Services, 1 Node with 5 states, 2 changes, 1 failure | passes, 212k states |
| `Helpers` | names, waits and signing | see `MCHelpers` | passes, 6.6k inputs |
| `UnrecordedCreate` | `NoLoadBalancerIsLeft` | 1 failure | **violated** |
| `StaleDelete` | `RecordedLoadBalancerIsRemoved` | lag 3, managed rule | **violated** |
| `TypeChange` | `IsEventuallyReleased` | kinds LoadBalancer and Other, 1 edit | **violated** |
| `AdoptedThenFailed` | `IsProvisioned` | 1 failure and 1 failed operation | **violated** |
| `StaleCooldown` | `EveryReconcileWaits` | lag 1, 1 failed operation | **violated** |
| `ClockAhead` | `ServerClockCannotStretch` | see `MCHelpers` | **violated** |
| `AddressChange` | `NodeEventBringsBack` | 1 Service, 1 Node, 2 changes, no failure | **violated** |

Bounds: `MaxUid` Services per name, `MaxEdits` edits, `MaxLag` versions the cache is behind *when a pass
starts* (the watch may grow further during it), `MaxLbs` and `MaxOps` ids the API can hand out (a create
beyond them is refused), `MaxFaults` failed calls and restarts, `MaxOpFaults` failed operations and aged
records. `ManagedRule` puts two questions to one configuration; the constraint `RuleBounds` keeps their bounds from multiplying: with a second
Service of the name, or a second load balancer, there is no edit, no failed operation and one firewall rule. Every hazard the properties are about takes one or two mishaps to show: each passing property
is broken by a single plausible change of the code within the run's own bounds, and the violations need
at most one mishap of each kind. In `Backends` two changes are enough for a Node to come and go, or to be
excluded and let in, while a pass runs; two Services for one to wait behind the other. The lengths in
`MCHelpers` lie on both sides of every threshold of the code, the clocks up to the delay and beyond it.

### What holds

* `AtMostOneLoadBalancer`, `RecordedIdIsFinal`: the fresh read and the lookup by name make creation
  idempotent under every interleaving of lag, failures, restarts and by-hand deletion. Without the fresh
  read's check of the annotation the record would be replaced; without the lookup there would be two.
* `ExternalIPIsRecorded`: no address is published that a deletion would not clean up. It is run with
  an operator and one uid; with a second one the operator could break it, as `RecordsAreOwn` below.
* `RecordsAreOwn`: with the finalizer in place, a patch without UID cannot hit the next Service of that
  name. If there is one it needs `OperatorActs = FALSE`: a finalizer removed by hand lets a running pass write to the
  Service created next. Without that it holds for any lag, a stale deletion included: a pass of
  `handleDelete` may outlive its Service and patch the next one, which by then has neither finalizer nor ids.
* `RecordedLoadBalancerIsRemoved` holds without a managed rule: the finalizer's Update conflicts when the
  copy was stale. With one it does not (`StaleDelete`).
* `CooldownIsKept`: a pass that submits a rule while an operation is recorded has seen that operation end and
  its retry delay run out. Two cases are excepted: a copy that misses the record (`MissesRecord`), which
  `StaleCooldown` is about, and a rule that was recorded and is gone, which is created again at once. So
  stated it holds for any lag.
* `NoEarlierRuleIsLeft` holds, for any lag, on two conditions it states itself. No call has failed and no
  restart happened: one between the submission of an operation and the patch that records it loses the
  operation, and a deletion then finds neither id nor, yet, a name. And no operation is `blind`: one submitted by a
  pass whose copy misses the record, as in `StaleCooldown`, puts its own id in the place of another one that is
  still pending, or is refused a name and fails while the first one's rule comes up. An operation submitted *after*
  the deletion request, by a pass that was already past its checks, is excepted as well (`late`): the
  hold limit runs from the request. A deletion handled from a copy that misses the operation is no exception: either
  its Update conflicts, or the rule is up and was found by its name.
* `SettledWhenQuiet`: whenever nothing is queued, delayed, on its way to the cache or running, the
  Service is served as its ports ask or gone. It covers every early return, except a create answered 4xx
  (`MayBeRefused`, where `ClientErrors` allows it), which the code deliberately does not retry.
* `IsProvisioned`, `IsEventuallyReleased`: with failed calls or failed operations, not both (`Progress`
  runs `RuleRemovedSpec`): both together are `AdoptedThenFailed`. A firewall rule deleted by hand does not keep a
  deletion, which is answered 404, from coming to its end.
* `KeepsOwnership`: `ServiceReconciler` implements `OwnedLoadBalancers`, with the stored object as the abstract
  Service and the Crusoe API's load balancers as they are. Its conditions are those of the properties it
  sums up: no operator, and a cache one version behind, because two are enough for `StaleDelete`. The run has
  a managed rule and no direct reads, the theorem the direct reads and any lag without a managed rule.
* `SyncInv`, `BackendsFollowNodes`: between a change of a Node and the load balancers that follow there is
  always a notification, a key or a pass that has not acted yet. The queue's rule that a key added while
  it is processed comes back carries most of this: a create pass can wait minutes for its operation, with
  listeners it read before, and `RecordLoadBalancer`'s own patch brings the key back for an update.
* `EveryServiceHasItsTurn`, `BackendsConverge`, provided operations settle: `WaitForOperation` has no limit of
  its own, so an operation that never settles keeps every Service waiting. `BackendsConverge` leaves out a load
  balancer that was adopted before its create operation failed (`WasAdoptedAndFailed`), as `AdoptedThenFailed` shows it.
* `RetryIsPaced`: a failed rule is not submitted before the delay has passed unless the API's clock is behind, nor
  later than that unless it is ahead, and no single wait is longer than the delay. With that clock ahead the
  waits do add up to more (`ClockAhead`).
* `AnswerIsPrompt`: the controller goes on within two pauses of the end of an operation, of which one is the
  sleep `WaitForOperation` takes after the poll that has seen the end.
* `NameFits`, `NamesDiffer`: only a namespace of more than 34 characters is left without a name, and the hash
  at the end of each name tells Services apart even where their own names are cut.
* `SentIsSigned`, `SignatureIsCanonical`: what is sent has its whole query under a signature that does not
  depend on how the query was put together.

### What does not hold

Each of these is a disagreement with a sentence of the repository's README or comments, quoted in `PROJECT.json`.

1. `UnrecordedCreate`: deletion trusts the absence of the id, and, unlike creation, does not look the
   load balancer up by name.
2. `StaleDelete`: the id is read off the stale copy, then the patch that clears the rule annotations
   refreshes that copy, and with it the resource version that should have made the Update conflict.
3. `TypeChange`: events of a Service that is no longer a LoadBalancer are filtered out, its deletion
   included.
4. `AdoptedThenFailed`: adoption records an id whose create operation nobody follows.
5. `StaleCooldown`: only creation of the load balancer is protected from a stale cache. A reconcile whose copy misses
   the recorded operation submits another one although the recorded one has failed and its delay is running. With
   an up-to-date cache (`MaxLag = 0`) TLC finds no violation within these bounds.
6. `AddressChange`: a Node event brings a Service back when a Node becomes Ready or is let in, not when its
   address becomes known afterwards.
7. `ClockAhead`: the cap on a single wait does not keep a server clock that runs ahead from stretching the retry,
   because the next pass waits again, from the same completion time.

1 and 4 depend on the assumption that a load balancer is listed while it is being provisioned.

### Fairness

`FairSpec` assumes weak fairness of the worker (a goroutine that runs while it can take a step: its
requests return and `WaitForOperation`'s poll sees the outcome), of the delivery of watch events, of the
queue's timers, of `HoldExpires` (time passes), and of each load balancer's and each rule operation's
progress. A pending operation is disabled for good only when it fails or is stuck. Nothing is assumed
of users, operators, node events or failures; in particular no node event is needed for progress.
`BackendSync` assumes the same of its worker, of the handling of notifications and of operations; it does
not count on the periodic resync, which would mend everything in the end. Fairness of `Worker` as a whole is enough because it has one pass at a time, and every point of a pass
either has a step or waits for an operation.

## Proofs

Proofs hold for every value of the constants that satisfies the modules' assumptions (ports are ports,
bounds are numbers, Services are finitely many).

`ServiceReconciler_proofs`:

* `TypeCorrect == Spec => []TypeOK`. `TypeOK` is not inductive: `CreateLoadBalancer` would write the
  rejected protocol, and `RecordLoadBalancer` read the protocol of load balancer 0. `TypeInv` adds
  `PassIsSound`: a pass at `lookup` or `create` has ports that can be served, and one at `wait`, `record`
  or `publish` has a load balancer in hand. The proof has a lemma per group of actions, over
  the four parts `TypeInvParts` splits `TypeInv` into.
* `NeverTwoLoadBalancers == Spec => []AtMostOneLoadBalancer`. The inductive invariant `CreationInv`
  adds `NoneBeforeCreate` (what the lookup found still holds when the create request is sent) and
  `InProgressIsUp` (a failing operation can only take a load balancer away). Every step but
  `CreateLoadBalancer` brings up none (`OthersBringUpNone`), and `create` is reached only from a lookup
  that found nothing (`ReachesCreate`). The theorem needs neither the fresh read nor the cache bound:
  the lookup alone makes creation idempotent, as long as there is one worker.

`BackendSync_proofs`:

* `OnlyAddressesAreOverlooked`: any event `nodeEventPredicate` drops leaves the backends as they are, but for
  a change of addresses alone. The proof goes by the three kinds of events.
* `NothingIsLost == Spec => []SyncInv`. `SyncInv` is inductive: besides `IsProvidedFor` it needs `OneWorker` (a
  pass is at a point its Service allows) and `NothingIsForgotten` (a dirty key is queued, or being
  processed). A step that changes the Nodes without a notification keeps the backends, by the theorem
  above; a step of a pass either leaves its Service served or its key dirty; an operation that fails takes a load
  balancer only from a Service that is not served yet, or is one of those `overlooked` names.
* `IdleMeansServed == Spec => []BackendsFollowNodes`: in a quiet state every disjunct of `IsProvidedFor` but
  `IsServed` is empty.

`Helpers_proofs`, for all inputs and not only those the run `Helpers` tries:

* `NamesFit` and `NamesAreOwn`, of names of any length over any characters, and from them `EveryNameFits` and
  `NamesAlwaysDiffer`, which are the run's invariants.
* `RetryWaitIsExact`: one call of `firewallRuleRetryWait`. `RetriesArePaced == RetryIsPaced` adds up the waits of as many
  passes as there are: `ResubmissionIsDue` by induction on the time that is left. It needs a delay above 0, as
  the code's is, since with none nothing would be waited for.
* `AnswersArePrompt == AnswerIsPrompt`, from bounds on each pause (`BackoffIsPause`, `SleepIsBounded`) and the
  first poll after the end (`FirstPollAfter`).
* A function defined by recursion is a `CHOOSE`, so that first a function with these equations has to be shown to
  exist (`Recursion`, `WaitsCanBeFollowed`). The provers cannot use induction over a predicate; `Induction` is stated
  of a *set* of numbers instead, and `LeastNumber` proved from the library's well-founded relations.

`Signing_proofs`, for queries of any length: `comesBefore` is a total order (`ComesBeforeIsOrder`), so each parameter has
a place of its own (`PlacesAreOwn`) and none is left free (`PlacesAreTaken`, a surjection between finite sets of one
size). From that `WhatIsSentIsSigned == SentIsSigned`: what stands in a place reads as the parameter it belongs to.
`SignaturesAreCanonical == SignatureIsCanonical`: a query whose parameters are rearranged so that `comesBefore` is kept
(`Rearranges`) has the same canonical form (`RearrangedIsSame`), and the canonical query and the one with two neighbours of
different keys swapped are such rearrangements (`CanonicalRearranges`, `SwappedRearranges`).

`Records_proofs`, where every theorem starts from `History`, an invariant that needs no assumption on the
constants (`HistoryStep`):

* `VersionInv`: the versions in the watch increase and are newer than the cache; the newest is the stored
  Service; a copy, in the cache, the watch or the pass, has at most the stored version, and is the stored
  Service if it has the same. So an Update that does not conflict was made from what is stored. `BlankInv`: a
  Service that is not there has no field set.
* `Changes` (lemma `EveryChange`) lists what a step can do to the stored Service, `PassMoves` how a pass moves,
  and `EachLoadBalancer` and `EachFirewallRule` what a step does to each of those; the step lemmas below go by these
  lists, not by the actions.
* `RecordedIdNeverChanges == Spec => RecordedIdIsFinal`, if direct reads are allowed. The invariant is
  `NotYetRecorded`: past the fresh read (`CreateEntry`) nothing is recorded, since only `RecordLoadBalancer`
  records.
* `RecordedOneGoesFirst == Spec => RecordedLoadBalancerIsRemoved`, if the rule is not managed or the cache is up
  to date. `DeleteSeesId` relates the id in hand to the copy whose Update will conflict if it lacks the id, and
  `DeletedFirst` says the load balancer in hand is gone at `removeFinalizer`. `StaleDelete` is the other case.
* `RecordsStayOwn == Spec => []RecordsAreOwn`, if no operator acts or only one Service ever has the name
  (`NoSuccessor`); no bound on the lag. `OwnInv` says it of
  every copy (`CopiesOwn`) and of what a pass has in hand (`HandOwn`). Why a patch hits no other Service: a
  pass that creates or updates holds the finalizer of the stored Service (`PassIsOnItsService`), which goes
  only when no copy shows a Service in the controller's care (`LiveCopies`, `NoLiveCopy`). A deletion
  preserves that although it may be of an earlier Service, because the lives of the Service reach the cache
  one after another (`LivesInOrder`), and the finalizer of the next one waits for its turn (`SeenByCache`).
* `PublishedAddressIsRecorded == Spec => []ExternalIPIsRecorded`, if no operator acts, or the fresh read is allowed and
  only one Service ever has the name (`NoHandOrRead`). `AddressInv` adds what holds of the VIP at each step towards
  publishing it (`PublishesRecorded`), and why the id to publish is the one recorded (`PassHandAgrees`). With the fresh
  read a recorded id is on no copy of the same Service another one (`IdIsFinal`). Without it (`OnlyOneIsUp`) a recorded
  id may be replaced, but only once its load balancer is gone (`CopiesAgree`): the lookup has found the one that is up
  (`HandIsOnly`), and one that has a VIP goes only when `handleDelete` deletes it, after which no pass publishes
  (`VipIsUp`).
* `ImplementsOwnership == Spec => KeepsOwnership`, from the conjunction of all these invariants. No step
  changes both the Service and the load balancers (`OneAtATime`); a change of the Service is `Appear`, `Record`,
  `Publish` or `Disappear` (`ServiceSimulates`), one of a load balancer `Create` or `Lose` (`CloudSimulates`). The
  theorem allows a managed rule with a cache one version behind, which `RecordedOneGoesFirst` does not: a deletion may
  then miss the id, but finds no rule to clear, and so its Update conflicts (`MissesOnlyId`). The id it misses is the
  latest write (`RecordedAlone` relates each version on its way to the cache to the next one), and rules are asked for
  only after another one or by a pass whose copy has an id, with no pass left that could replace it (`RulesAfterId`,
  `CacheKnowsId`). Two versions behind, the rule may exist. Direct reads need not be allowed, so the theorem covers the
  run `ManagedRule` as it stands.

`Settling_proofs`: `NothingIsLeftUndone == Spec => []SettledWhenQuiet`, if no create request is answered 4xx, and
`NoHandOrRead`; any lag, edits, failures and restarts. The property speaks of states
in which nothing is queued, delayed, on its way to the cache or running. Nothing relates such a state to the pass
that led to it, so the invariant `SettlingInv` says of each point of a pass what is then known *if* the other three
are empty (`Calm`): its copy is the stored Service, so any patch that changes something puts an event into the
watch and ends the calm (`WritesNothing`), and a pass that goes on has found that part of the Service as it
should be (`CreateFacts`, `UpdateFacts`, `RuleFacts`). It ends either with a delay or with all of them
(`PassServes`). A calm state begins only with a pass on an up-to-date copy (`PassBegins`), because the last event
to arrive queues the key (`LastEventQueues`).

`Rules_proofs`: `NoCreateBeforeRetryDelay == Spec => CooldownIsKept`, without an assumption on lag, failures, operators
or the number of Services. `RuleMoves` lists how a pass comes to each step that deals with a rule; `OperationInv` says
what each of them knows of the operation *on the pass's own copy* (`OperationFacts`): before `createFirewallRule` it
is done, failed and cooled, or gone. A result never changes again (`ResultStays`), and the copy that submits has the
recorded id unless it misses the record.

`Deletion_proofs`: `EarlierRulesAreRemoved == Spec => NoEarlierRuleIsLeft`, for any lag, if no operator acts. What holds
whatever has failed comes first (`Sound`): operations belong to Services there are or were (`OwnersInv`), none
submitted in time is in flight past the hold limit (`HoldInv`), only a done operation has a rule (`RuleIsMade`), and a
pass that deletes works on the Service that holds the finalizer (`HeldByPass`). `Found` is what holds while no call has
failed and no operation is blind (`Untroubled`; `UntroubledBefore` shows that such a state comes from one like it).
It follows an operation that has made a rule or still could (`Active`): there is one at a time (`OneActive`), and it
is on record or in the hand of the pass that submitted it (`ActiveIsRecorded`, `ActiveIsHeld`). The cache is dealt with by
what a copy can show: until a deletion has removed the rule, a rule on any copy is there, and so is that of an operation
on any copy if it has succeeded (`CopiesUp`), so that no pass takes it for gone; afterwards nothing is active
and no pass will ask for another (`TidiedUp`). `DeletionFacts` says after each step of a deletion what that step has
ruled out: of a copy nothing has refreshed only if it is the stored Service (`svc.rv = stored.rv`), since otherwise
the finalizer's Update conflicts.

Model-checked only:

* Liveness, fairness and deadlock (`IsProvisioned`, `IsEventuallyReleased`, `EveryServiceHasItsTurn`,
  `BackendsConverge`) are beyond the prover.

## Plan

What is left, most wanted first:

1. Create requests whose connection broke and which the API accepts only after the next lookup.
2. Two managers around a lost leader lease, when the deployment runs more than one replica.

## Not modelled

* Health check options, warning events and log texts change no state a later step reads. VPC and subnet
  discovery are reads whose failure is one of the failed calls. Source ranges and VPC ids are part of a
  rule that changes like its ports do.
* Sizes of delays and backoff do not affect the order of events in `ServiceReconciler` and `BackendSync`, where
  every delay may take any time; `Pacing` has those the code computes itself.
* UIDs whose hashes collide: the code does not tell them apart either.
* A create request the API accepts late, after its connection broke and the retry has looked the name up.
* Start-up, leader election, probes and deployment are configuration of controller-runtime; what they decide
  is one worker at a time (the manifest runs one replica) and the `get` permission (`ReaderForbidden`).
