# Digital citizenship functions: TLA+ models, checks and proofs

The repository is a set of Azure Functions through which public services send
messages to citizens. This directory holds TLA+ models of the parts of it that
are concurrent, retried or written in several steps, the configurations with
which TLC checks them, and proofs that TLAPS checks. `PROJECT.json` lists the
runs, the theorems, and for every definition the source lines it stands for.

Contents: [the system](#the-system), [modules](#modules), [runs](#runs),
[fairness](#fairness), [proofs](#proofs), [findings](#findings),
[not modelled](#what-is-not-modelled), [plan](#plan).

## The system

```
 sender --POST message--> [Messages API] --createdmessages--> [created message handler]
                               |                                 |             |
                            messages db                  emailnotifications  webhooknotifications
                               |                                 |             |
 reader <--GET-- [Messages API]                            [email handler]  [webhook handler]
                                                                 |             |
 citizen <------------------------------------------------------SMTP          HTTP
 citizen --POST profile-> [Profiles API] --profileevents--> [profile events handler]
                               |                                 |
                            profiles db                 welcome messages: POST message
 admin --POST/PUT service-> [Admin API] -> services db -> [visible services, timer] -> blob
```

| Component (source under `lib/`) | State | Operations | Hard behaviour |
|-|-|-|-|
| Failure handling of the queues (`utils/azure_queues.ts`), with the queues and the host around it (external) | visibility, dequeue count and pop receipt of each queued message; the stage of each attempt | update the visibility, call back, throw or return | the message becomes visible again while the attempt that failed still runs; receipts go stale; crashes; the last attempt; delays as numbers |
| Created message handler (`created_message_queue_handler.ts`) | blob content, message document (`isPending`), sender services, notifications, message statuses | find the profile, store the content, make the message visible, choose channels, create the notification, return events | the profile changes under it, and a query may miss its latest version; every step can fail after taking effect; a retry repeats steps; outputs are flushed after the return |
| Email and webhook handlers (`emailnotifications_queue_handler.ts`, `webhook_queue_handler.ts`) | notification statuses, what the recipient got | check the expiry, find the notification, deliver, record the outcome | duplicates, lost answers, stragglers that record late, giving up |
| Messages API (`controllers/messages.ts`) | message documents, the output binding | create, get, list | create and enqueue are two steps; a reply is put together from several reads while the handlers work |
| Profiles API (`controllers/profiles.ts`) | the versions of a profile | get, upsert | concurrent upserts, stale queries, event sent after the write; what a sender is told, and what the handler then does |
| Profile events handler (`profile_events_queue_handler.ts`) | POSTs in flight | send the welcome messages | several POSTs at once, the first failure ends the wait |
| Visible services (`compute_visible_services.ts`), services admin (`controllers/adm/services.ts`), services API (`controllers/services.ts`) | the versions of the services, the list being computed, the blob | scan, create, update, get, list | the collection changes during the scan; the order of the versions; partial failure |
| Front controllers (`public_api_v1.ts`, `admin_api.ts`, `openapi.ts`, `index.ts`), info, debug, OpenAPI | one Express app per function, shared by all requests, and the Azure context of a request that it holds | route a request through its middlewares | concurrent requests overwrite the shared context; the order of the middlewares, which is written out for every route |
| Queue monitor (`queue_monitor.ts`) | none | read the lengths of the queues | none, see [below](#what-is-not-modelled) |

What makes each correct, in short:

* queues: a message is neither lost, nor poisoned twice, nor worked on twice at
  once, and is settled in the end;
* created messages: the recipient's choices are respected, nobody is notified
  of what cannot be read, what is recorded is what was decided;
* notifications: delivered once unless something was lost, with a status that
  tells the truth;
* messages API: success means the message will be processed, an error means it
  never shows, a message that was shown can be read, and what a reply says of the
  message and of its notification belongs together;
* profiles: no update is lost, events tell the history, welcome messages go out
  when the inbox is enabled;
* visible services: the list is as fresh as the scan that wrote it, and right in the
  end;
* front controllers: the event of a request goes out with its own invocation, and
  a request that a check refused has no effect.

`PROJECT.json` lists the hazards behind these, each at its line.

## Modules

| Module | Models | Builds on |
|-|-|-|
| `RetryQueue` | what the queues promise: one try at a time, a bounded number of tries, one end (abstract) | |
| `QueueDelivery` | one queue, the host, `handleQueueProcessingFailure` and `updateMessageVisibilityTimeout` | `RetryQueue` as a refinement |
| `QueueDeliveryProofs` | theorems about `QueueDelivery` | `QueueDelivery`, `TLAPS` |
| `RetryBackoff` | the numbers of the retries | |
| `RetryBackoffProofs` | theorems about `RetryBackoff` | `RetryBackoff`, `TLAPS` |
| `Notification` | what the notification handlers promise: who is reached when, and which status may be recorded when (abstract) | `RetryQueue` |
| `NotificationHandler`, `MCNotificationHandler` | the email and the webhook handler | `QueueDelivery`; `Notification` as a refinement |
| `NotificationHandlerProofs` | theorems about `NotificationHandler` | `QueueDeliveryProofs` |
| `CreatedMessageHandler`, `MCCreatedMessage` | the handler of the created messages | `QueueDelivery` |
| `CreatedMessageHandlerProofs` | theorems about `CreatedMessageHandler` | `QueueDeliveryProofs` |
| `MessagesApi`, `MCMessagesApi` | a sender: GET of the profile and POST of the message, composed with the handler | `CreatedMessageHandler` |
| `MessagePipeline`, `MCMessagePipeline` | a message from its queue to the recipient, with readers that list and get it | `CreatedMessageHandler`, `Notification` |
| `MessageSystem` | the same with the notification handlers themselves | `MessagePipeline`; `NotificationHandlerProofs` as an instance |
| `MessageService` | the same with the requests that create the messages: from the sender to the recipient | `MessageSystem`, `MessagesApi` |
| `MessageServiceProofs` | theorems about `MessageService`, and about `MessagesApi`, `MessagePipeline` and `MessageSystem`, of which it is made | `CreatedMessageHandlerProofs`, `MessageService` |
| `ProfileHistory` | what the profiles API promises: a history of versions that only grows, by one request at a time, and its events (abstract) | |
| `Profiles`, `MCProfiles` | upserts and the handler of their events | `QueueDelivery`; `ProfileHistory` as a refinement |
| `ProfilesProofs` | theorems about `Profiles` | `QueueDeliveryProofs` |
| `VisibleServices`, `MCVisibleServices` | scan, creation and update of services, and what clients are told of them | |
| `VisibleServicesProofs` | theorems about `VisibleServices` | `VisibleServices`, `TLAPS` |
| `FrontController`, `MCFrontController` | the routes of the Express apps, their middlewares and the shared context | |
| `FrontControllerProofs` | theorems about `FrontController` | `FrontController`, `TLAPS` |

### How a handler is modelled

`QueueDelivery` has one record of state per message and one stage (`pc[m][n]`)
per attempt, attempt `n` being the invocation that got `dequeueCount = n`. The
stages follow the code: `handle` is the handler's own work,
`update` is the call of `updateMessage`, `onTransient` and `onPermanent` are the
callbacks, `return` and `throw` are how the function ends. The host then
deletes, releases or poisons the message, which works only with a valid pop
receipt (`owner[m] = n`): after a successful `updateMessage` it no longer is.

A handler module extends it and refines the stage `handle` with steps of its own
(`step[m][n]`), one per `await`: code between two awaits is one atomic step, as
in Node.js. Each of its actions *is* an action of `QueueDelivery` conjoined with
what the handler does to its own state, so that the failure handling is
written once, as in the source. A database or blob write has three outcomes:
done; failed; done, but reported as failed. What an attempt reads is kept with
the attempt, so that it may be stale when it is used.

Ghost variables (`glitch`, `serverFault`, `lost`, `since`, `asOf`)
only record history for the properties. Nothing reads them in a guard.

Documents, texts, addresses and times are left out where no property tells them
apart: a profile is five facts, a message format is one of four, the time to live
is a flag that turns over at any moment. `RetryBackoff` keeps the numbers instead,
with the constants of the source.

### Correspondence, module by module

* **QueueDelivery.** `HasDelay` is `getDelaySecForRetries` being `some`;
  `PostponeRetry`, `SkipPostpone` and `RejectUpdate` are the three ways through
  `updateMessageVisibilityTimeout`; `OnTransientError` is the callback and the
  decision to throw; `OnPermanentError`, `RetryPermanentError` (the callback
  gives a left, so the function calls itself with a `TransientError`) and
  `ThrowPermanentError` (the callback rejects) are the permanent branch.
  `Dequeue`, `DeadLetter`, `Complete`, `Release`, `Poison`, `Crash` are the host.
* **NotificationHandler.** The queue of a message is its `channel`: `EmailIndex` and
  `WebhookIndex` are the two functions. `CheckExpired`, `FindNotification`,
  `FailToRender` and `SendMail` or `CallWebhook` are `handleNotification`, with the
  test `status % 500 < 100` as it is; a delivery succeeds (`Deliver`), fails
  (`FailToDeliver`), or reaches the recipient and seems to have failed
  (`LoseAnswer`). `RecordSent`, `RecordExpired`, `RecordThrottled`, `RecordFailed`
  are the continuations and callbacks of `index`. `ThrowUnexpected` is a promise that
  rejects where the code expects a left or a right: the `catch` of `index` takes the
  error for a permanent one, and `FAILED` is recorded, perhaps of a message that was
  delivered. `EndIsTrue` leaves this case out (`glitch`), together with crashes, lost
  answers and outcomes that could not be recorded: in all of them the code cannot know
  what happened. It does not call a `FAILED` hopeless: a connection that fails without an
  answer counts as permanent in `sendToWebhook`, though a retry might get through.
* **CreatedMessageHandler.** One action per `await` of `handleMessage`
  (`FindProfile`, `AttachStoredContent`, `MakeVisible`, `SaveSenderService`,
  `CreateNotification`, or `SkipNotification`); `RecordProcessed`,
  `RecordThrottled`, `RecordRejected` are `index`; `FlushOutput` is the host
  queueing one output binding after the return. `seen` is the profile an attempt has
  read: any version so far, as the query may miss the latest ones. The sender service is
  on record also when there is nothing to notify. That agrees with `public_api_v1.yaml`,
  where the list is of the services "that have contacted the recipient", while the comment
  in `services.ts` speaks of those that "have sent at least one notification";
  `SettledIsComplete` follows the former.
* **MessagesApi.** `AskProfile` is `GetProfileHandler` for a client that is not a
  trusted application, `IsSenderAllowed` and `TellProfile` are `isSenderAllowed` and
  `toLimitedProfile`. `CheckRequest`, `CreateMessage`, `PrepareEvent` are
  `CreateMessageHandler`; the host then queues the event (`FlushEvent`) and
  responds (`Respond`). When the host reports an error, the event may be queued all
  the same, so that only the errors of the handler itself are final.
* **MessagePipeline.** The steps of the created message handler, where the flush of an
  output is also the start of a delivery (`Notify`); a delivery then goes its way as
  `Notification` allows, which is what `ImplementsNotification` shows of the real
  handlers. Events come from outside, and decode, as the API checks before it queues one
  (`MessageService` proves it). A message can be asked for before its event is queued.
  `ReadMessage`, `ReadContent`, `ReadNotification`, `ReadChannels`,
  `ReadStatus` are the reads of `GetMessageHandler`, any of which may fail;
  `ListMessages` is what `GetMessagesHandler` finds at a moment. The statuses of the
  channels are read in one step, which may leave out any of them: reading them one by
  one would only pair a channel with what the recipient got at a later moment, and what
  the recipient got is never taken back.
* **MessageSystem.** `MessagePipeline` with `NotificationHandler` in place of
  `Notification`, as the instance `H`, whose messages are the deliveries. The variables
  of `Notification` stay as a view of the handlers (`Shown`), so that what a reader is
  told of a channel is what the handlers have recorded. `NotifyHandler` is the flush of
  an output that puts an event on a notification queue; `HandleDelivery` is any step of
  that queue, its host and its handler.
* **MessageService.** `MessageSystem` and `MessagesApi`, which share the handler of the
  created messages. `Request` is any step of a POST; its event enters the system in
  `FlushEvent`, and is the only way in. `GetStored` is a GET, of a message of which the
  request has stored a document.
* **RetryBackoff.** `BackoffMs` is the product in `getDelaySecForRetries` with its power
  of two, `DelaySec` rounds it up, `MaxRetries` is the logarithm. What the constants of
  the source must satisfy is in three assumptions: `RetriesAssumption` (the comment at
  `MAX_RETRIES`), `RoundingAssumption` and `TimeToLiveAssumption`. TLC evaluates them
  with these constants.
* **Profiles.** `FindProfile` is the query of `UpsertProfileHandler` and the
  comparison of versions, `CreateProfile` and `UpdateProfile` are the two
  functions it continues with. `StartWelcome`, `EndPost`, `EndWelcome` are
  `sendWelcomeMessages` under `Promise.all`; a POST can end after the attempt that
  made it. The flush of the event does not fail by itself as in `MessagesApi`: a request
  that crashes before it stands for that too.
* **VisibleServices.** `Reduce` is `reduceServicesToVisibleServices`,
  `ReadDocument` is one step of the iterator, `FinishScan` and `FailScan` are the
  ends of `index`; `CreateService`, `FindService`, `UpdateService` are the admin
  handlers; `GetService` and `GetVisibleServices` are what the clients read.
* **FrontController.** One operator per route, named after its wrapper: the app, the
  middlewares in their order, and whether the handler reads, writes, or writes and sets
  an output binding. `Invoke` is `setAppContext`, the routing and the first
  middleware, which run in one go; every further middleware is a step (`Resume`) that
  any other request may come before, which allows more interleavings than the
  promises of the middlewares do. `Handle` is the check of the source address and the
  handler, `Flush` the host.

## Runs

Each run is `tlc -config <name>.cfg <module>`. Deadlock is not checked where the
system may really stop: all messages settled and all requests answered. In
`VisibleServices` it never stops, so there it is checked.

| Run | Module | Shows |
|-|-|-|
| `MCQueueDelivery` | `QueueDelivery` | work never overlaps, nothing lost, nothing poisoned twice, everything settled; implements `RetryQueue` |
| `MCRetryBackoff` | `RetryBackoff` | the delays and their sum, with the real constants |
| `MCNotifications` | `MCNotificationHandler` | both handlers implement `Notification`; one delivery unless something is lost; every end is on record; what is on record as expired or failed was not delivered, and a server error is no failure |
| `MCCreated` | `MCCreatedMessage` | inbox, status and notifications against a recipient who changes their mind and their channels, and against stale reads |
| `MCMessages` | `MCMessagesApi` | what a sender is told of the profile agrees with what happens to its message; a refused POST leaves no trace; a POST that succeeded is handled in the end, and given up only after its retry |
| `MCPipeline` | `MCMessagePipeline` | whoever is notified can read the message; what a client was shown stays readable; the statuses of a reply belong together |
| `MCProfiles` | `MCProfiles` | upserts implement `ProfileHistory`: each takes effect at one moment or not at all; events tell what happened; welcome messages |
| `MCVisibleServices` | `MCVisibleServices` | the freshness of the list, and that it catches up |
| `MCRequests` | `MCFrontController` | concurrent requests on any routes: own events only, and no effect when refused |
| `MCNotificationGivenUp`, `MCNotificationDelivered`, `MCVisibleServicesAnyOrder` | | [findings](#findings): each must be violated |

### Bounds, and why they are enough

* *One message per queue* (`Msgs = {m1}`; in `Profiles`, one per version). Messages
  of one queue share no state but the sender service and the profile, and the
  theorems hold for any set of messages.
* *Two to four dequeues* (`MaxDequeueCount`, 22 in `host.json`). What matters is an
  attempt that may retry, one that may not, and a straggler while a later attempt
  works. Two dequeues give the first two and one overlap; three and four give a
  straggler of a straggler. `MaxRetries = MaxDequeueCount - 1`, as the source asks and a
  test of it checks, but in `MCPipeline`: it has two dequeues and no
  retry with a delay, so that the second attempt follows a crash or a throw. The
  handler's behaviour under delayed retries is the matter of `MCCreated`; here
  the second attempt counts for what it finds (and for the second notification it
  creates), whatever the first one ended with.
* *Profiles*: in `MCCreatedMessage` three, between which the recipient moves at any
  time: one that blocks the sender, one for the webhook only, one for email only, to
  a default address if there is one. A missing profile and a disabled inbox take the
  same path as a blocked sender. In `MCMessagesApi` two, which block the sender's
  emails, or its messages too: what `isSenderAllowed` must tell apart. Its messages come
  with a default address (`FairAddressSpec`), which only the authorization of the POST depends on
  there, as no profile takes the sender's emails. In
  `MCMessagePipeline` one, with the webhook, and no default addresses
  (`NoAddressSpec`): a second channel behaves like the first.
* *`DeliveryTries = 1`*: a delivery is one try of `Notification`, which reaches the
  recipient or not and records any statuses it may, in any order; the tries after it
  bring nothing that the properties of `MCPipeline` speak of.
* *Readers*: one GET at a time, since a GET changes nothing.
* *Answers* (`MCNotificationHandler`): no answer, a timeout, 200, 404, and the
  boundaries 499, 500, 599. For email every failed delivery is transient.
* *Two requests* for a profile and two versions; two welcome messages (the source has
  a handful, all treated alike). Requests, and welcome messages, are interchangeable.
* *One service, five versions, two updates at a time* for the list: no step relates
  two services, and two overlapping updates and a scan need three versions. The run
  that expects a violation has two services and three versions.
* *Three requests* for the front controllers: one that waits, one that overwrites the
  context of its app, and one on another route or app. The requests are
  interchangeable; no liveness property is checked with symmetry. The theorems hold
  for any number.
* *`MaxSkipped = 3`* in `RetryBackoff`: visibility updates that fail. All else has the
  value of the source or of `host.json`.

## Fairness

Only what the platform does by itself is fair: the host polls and dequeues, timers
run out, a started attempt goes on (or crashes), a POST ends by its timeout,
outputs are flushed. All of it is weak fairness: each such step stays enabled until
it is taken, and `functionTimeout` in `host.json` ends an attempt that hangs. No
crash, expiry, profile change or request has to happen; no read, write or delivery
has to succeed. `EventuallySettled` therefore holds through
failures, by the bound on the dequeues. `CreatedIsHandled` says how a message that was
announced as created may end: it can be read, or `REJECTED` or `FAILED` is on record, or
it is in the poison queue. The only other end, a message that stays pending, is that of
one whose last permitted attempt failed for a transient reason; a message given up before
its retries are used up (the second mutant of the property) violates it.

`EventuallyListed` is different: a list can only catch up if scans succeed. Its
specification assumes that infinitely many scans end (`[]<><<FinishScan>>_vars`): the
timer fires again and again, and not all scans of the future fail. Nothing is
assumed of the administrators, who may leave an update unfinished.

The properties that need fairness are checked with the `Fair...` specifications,
together with the safety properties of the same run. (Fairness removes no finite
behaviour, so safety is not affected.) `Profiles`, `NotificationHandler`,
`MessagePipeline` and `FrontController` have no liveness property of their own: their
messages are settled by the same argument as in `QueueDelivery`, and requests need
not end.

## Proofs

`QueueDeliveryProofs` proves for every set of messages and every `MaxDequeueCount`
and `MaxRetries` with `QueueAssumption` (both natural numbers,
`MaxRetries < MaxDequeueCount`, `MaxDequeueCount` not 0):

| Theorem | States |
|-|-|
| `QueueTypeCorrect` | `QueueSpec => []QueueTypeOK` |
| `WorkHoldsLeaseCorrect` | `QueueSpec => []WorkHoldsLease` |
| `PoisonedOnceCorrect` | `QueueSpec => []PoisonedOnce` |
| `NeverLostCorrect` | `QueueSpec => []NeverLost` |
| `QueueImplementsRetryQueue` | `QueueSpec => ImplementsRetryQueue` |

None of the properties is inductive. `QueueInv` adds four facts:

* `StartedInv`: attempts beyond the dequeue count are idle;
* `LeaseInv`: the valid receipt is the last attempt's, and there is one exactly
  while the message is leased;
* `HoldsInv`: an attempt that works, or fails with no retry left, holds the
  receipt. This is where `MaxRetries < MaxDequeueCount` counts: at the last dequeue
  `HasDelay` is false, so `updateMessage` is not called, so the receipt of the
  host is valid when it deletes or poisons the message;
* `OutcomeInv`: the recorded outcome matches the stage.

`QueueInvStep` goes through the actions one by one. The refinement maps the
visibility to a phase, under the invariant: a step of a straggler changes neither
and is a stutter, which is what `HoldsInv` and `LeaseInv` are for. The assumption
is evaluated by TLC in every run of a module that extends `QueueDelivery`.

The proofs about the handlers stand on these: each step of a handler is a step of
`QueueDelivery`, or changes nothing of it, so `QueueInv` holds of them. From it
follows `OneWorks`: an attempt at work is the last one of its message, the message is
leased, and no other attempt is at work. Everything about "the" attempt of a message
rests on that lemma.

`NotificationHandlerProofs`, with `QueueAssumption` and `AnswerAssumption` (an answer
of a webhook is a timeout or not, with no status or an HTTP status from 100 to 599):

| Theorem | States |
|-|-|
| `TypeCorrect` | `Spec => []TypeOK` |
| `SentOnceCorrect` | `Spec => []SentOnce` |
| `EndIsRecordedCorrect` | `Spec => []EndIsRecorded` |
| `EndIsTrueCorrect` | `Spec => []EndIsTrue` |
| `HandlersImplementNotification` | `Spec => ImplementsNotification` |

`HandlerInv` says of each message: what is expired and what is delivered is known to
the attempt whose step depends on it (`ExpiryInv`, `SentInv`); if nothing was lost, the
attempt that delivered is still at work or the message is gone (`OnceInv`), and the same
is true of the attempt that recorded `EXPIRED` or `FAILED`, before which nobody has
delivered and nobody has recorded an end (`TruthInv`, with the lemma `FirstToEnd`); an
attempt that returns has its outcome on record (`EndInv`). `SentOnce` also bounds the deliveries when something is lost: one per
attempt at most, and so no more than the dequeues allow. `CountInv` is the invariant for
that: there are fewer deliveries than dequeues as long as the attempt at work has not
sent. The refinement maps each action to a step of `Notification` or a stutter;
a straggler that records its status late is a step of its own there.

`CreatedMessageHandlerProofs`, with `QueueAssumption`, `ProfileAssumption` and
`SenderAssumption` (`"none"` is no message), for any set of profiles:

| Theorem | States |
|-|-|
| `TypeCorrect` | `Spec => []TypeOK` |
| `VisibleHasContentCorrect`, `NotifiedCanReadCorrect`, `ChoicesRespectedCorrect`, `RejectedWasRefusedCorrect`, `SettledIsCompleteCorrect`, `NotifiedOnceCorrect` | `Spec => []P` of the property `P` they are named after |

Two arguments. What is stored only grows (`Growth`): contents, visibility,
notifications, versions of the profile. So what an attempt has found or done
(`StoreInv`) stays true while it waits, however the attempts overlap, crash or
fail; the first four properties follow. That a message leaves the queue completely
handled (`EndInv`), and is notified once if nothing fails (`OnceInv`), needs `OneWorks`.

`MessageServiceProofs` composes it with its surroundings, one after the other. Each
step is one of the handler or leaves it alone, so that its invariant holds there too:

| Theorem | States |
|-|-|
| `ApiTypeCorrect` | `ApiSpec => []ApiTypeOK` |
| `ToldIsTrueCorrect` | `ApiSpec => []ToldIsTrue` |
| `RefusedIsInvisibleCorrect` | `ApiSpec => []RefusedIsInvisible` |
| `ReachedCanReadCorrect` | `PipelineSpec => []ReachedCanRead` |
| `PromisedIsReadableCorrect` | `PipelineSpec => []PromisedIsReadable` |
| `ReplyTellsTruthCorrect` | `PipelineSpec => []ReplyTellsTruth` |

A message that was never queued was never touched (`AbsentInv`), and a request that is
answered with an error never queues (`PostInv`). In the pipeline, a delivery begins
with an event on its queue and records `SENT` only after the recipient was reached
(`DeliveryInv`), and what a reader has been shown or has read is never taken back
(`GetInv`).

`MessagePipeline` has `Notification` where the code has the handlers. `MessageSystem` has
the handlers, and these theorems, each with `ASSUME
DeliveryAssumption` (what `NotificationHandlerProofs` assumes, of the notification queues),
carry the results over and add what only the whole system can say:

| Theorem | States |
|-|-|
| `SystemImplementsPipeline` | `SystemSpec => ImplementsPipeline` |
| `SystemKeepsPromises` | `SystemSpec => [](ReachedCanRead /\ PromisedIsReadable /\ ReplyTellsTruth)` |
| `ReachedOnceCorrect` | `SystemSpec => []ReachedOnce`: if nothing fails, one delivery per message and channel, through both queues |
| `NobodyForgottenCorrect` | `SystemSpec => []NobodyForgotten`: from a settled message to every channel of its notification, whose delivery is on its way or has its end on record |
| `ReachedAsChosenCorrect` | `SystemSpec => []ReachedAsChosen`: who is reached chose so in some version of the profile |

The invariant (`SystemInv`) is the conjunction of the invariant of the pipeline, the
invariant of the handlers for the deliveries, `Shown`, and that a handler's input is what
was queued. A step of the handlers, of which the refinement
`HandlersImplementNotification` makes a step of `Notification` or a stutter, is under
`Shown` a step of `MessagePipeline` or a stutter; the rest of the system leaves the
handlers alone, and the other way round. `ReachedOnce` puts `NotifiedOnce` of the one
handler and `SentOnce` of the others together, `NobodyForgotten` puts `SettledIsComplete`
and `EndIsRecorded` together.

`MessageSystem` has no run of its own: both queues, their hosts and the handlers in one
state are too many states for a run of minutes. TLC has gone through it exhaustively with
one dequeue in every queue (one message, one GET, one profile), and through part of it (breadth
first to depth 24, and by simulation) with two, without a violation of these properties. (Such a
model needs `DeliveryTries <= MaxDequeueCount`, as the instance shares the constant-level
`Attempts` in TLC.)

`MessageService` puts the requests in front of all this. With the same assumptions:

| Theorem | States |
|-|-|
| `ServiceImplementsSystem` | `ServiceSpec => SystemSpec` |
| `ServiceImplementsApi` | `ServiceSpec => ApiSpec` |
| `ServiceKeepsPromises` | eight invariants of the parts, of the whole: `ReachedCanRead`, `PromisedIsReadable`, `ReplyTellsTruth`, `ReachedOnce`, `NobodyForgotten`, `ReachedAsChosen`, `ToldIsTrue`, `RefusedIsInvisible` |
| `RefusedIsNeverShownCorrect` | `ServiceSpec => []RefusedIsNeverShown`: after an error of the handler no list, reply or notification shows the message |
| `ReachedWasWelcomeCorrect` | `ServiceSpec => []ReachedWasWelcome`: whoever is notified has the message on record, and against what the sender was told only a change of mind gets it in |
| `CreatedIsNotLostCorrect` | `ServiceSpec => []CreatedIsNotLost`: what becomes of a message that was reported as created |

The first two are what makes the parts worth proving about alone. `MessagePipeline`
assumes of its environment that events decode; `PostInv` shows of the requests that
an event is only queued with the binding set, which is only set when it decodes and the
document is stored. The last three relate the two ends: what the client was told, and
what readers and recipients see, with two queues and all failures in between. They
need both invariants at once (`ServiceInv`). `CreatedIsNotLost` is the safety part of
`CreatedIsHandled`; that the queues come to an end is `EventuallySettled`.

`MessageService` has no run of its own either. With one message, one GET, one dequeue
in every queue, two profiles without default addresses, and a webhook that answers 200 or
times out, TLC has gone through all of its 1,288,168 states, with both refinements as
properties and without a violation.

`RetryBackoffProofs` proves, for all constants with the four assumptions that `RetryBackoff` names:

| Theorem | States |
|-|-|
| `DelayIsBoundedCorrect` | `Spec => []DelayIsBounded` |
| `RetriesMatchDequeuesCorrect` | `Spec => []RetriesMatchDequeues`, with any number of failed visibility updates |
| `LastAttemptIsTooLateCorrect` | `Spec => []LastAttemptIsTooLate` |

The backoffs double (`BackoffStep`), so they grow, so there is only one number between
the last backoff within the limit and the first beyond it (the lemma `MaxRetriesCorrect`: the
logarithm is well defined; that the real constants put this number at
`MaxDequeueCount - 1` is `RetriesAssumption`, which TLC evaluates), and the delays before attempt
`n` add up to `BackoffMs(n) - BackoffMs(1)`, each rounded up by less than a second
(`OnTime`, the inductive part of `BackoffInv`). That the powers of two exist, are numbers
and grow takes induction, which the library has as theorems about an operator; the
proofs use `LeastNumber` in its place: of the set of counterexamples, if it is not
empty, there is a least one.

`ProfilesProofs`, with `QueueAssumption` and `ProfileAssumption` (finitely many requests,
and a version for each), for any requests and welcome messages:

| Theorem | States |
|-|-|
| `TypeCorrect` | `Spec => []TypeOK` |
| `ProfilesImplementHistory` | `Spec => ImplementsHistory` |
| `NoLostUpdateCorrect`, `SuccessIsSavedCorrect`, `EventTellsHistoryCorrect`, `EveryVersionHasEventCorrect`, `WelcomeOnEnableOnlyCorrect`, `WelcomeCompleteCorrect` | `Spec => []P` of the property `P` they are named after |

The documents only grow, so that the event of a version is fixed with the version
(`EventOf`), whenever its request gets to queue it. `DocsInv` counts the versions by
their authors, which is why there are never more versions than requests; `RequestInv`
says that a request has no version before it writes and one when it answered success.
`FirstInv` counts the welcome messages of a first attempt that has no successor.

The refinement maps the write of a request to the moment it takes effect. For this,
`AnswerInv` says that a request at work was not answered, and that one with an event to
queue was answered with success. A query that missed the latest version becomes a refusal,
or comes to nothing when the write finds the version taken; a crash is a stutter.
`NoLostUpdate` follows from the refinement, and is proved by itself; no run
checks it besides.

`VisibleServicesProofs`, with `VisibleServicesAssumption`, for any services and requests and
any number of versions. The first two theorems hold in whatever order the versions of a
service are read, the others when they are read in order (`ASSUME InOrder`):

| Theorem | States |
|-|-|
| `TypeCorrect` | `Spec => []TypeOK` |
| `AnyOrderCorrect` | `Spec => [](ListedIsVisible /\ MissingWasHidden)` |
| `TakesLatestVersionCorrect` | `Spec => []TakesLatestVersion` |
| `NeverGoesBackCorrect` | `Spec => NeverGoesBack` |

In any order (`AnyInv`): until a scan has read what was the latest version when it began,
that document is still to be read; after that the list shows this version or a later one,
or one of these is hidden (`ListInv`). So no service disappears that was visible all the
time. In order, a scan has either got as far as the version it must not miss, or a
document at least as late is still to be read, and all that it has yet to read of a service
is later than what it has listed (`OrderInv`). Only `ListedIsFresh`, the third part of
`TakesLatestVersion`, needs the order, and without it it is false: see
[findings](#findings).

`FrontControllerProofs` proves for every set of requests (without an element
`"none"`, `RequestsAssumption`):

| Theorem | States |
|-|-|
| `EventIsOwnCorrect` | `Spec => []EventIsOwn` |
| `RefusedDoesNothingCorrect` | `Spec => []RefusedDoesNothing` |

`EventIsOwn` says nothing of a request that waits while others overwrite the context
of its app. `Inv` adds what makes it true:

* `RouteFacts`, checked route by route: no route takes the context but as its first
  middleware, those with an event do, and none looks the caller's service up before
  the caller is authorized;
* `ContextInv`: a request that goes on has passed its first middleware, and if its
  route has an event, the context it holds is its own. The first middleware runs in
  the step that sets the context of the app, so nothing can come between;
* `BindingsInv`, `WrittenInv`: bindings and writes come from handlers, which need all
  middlewares passed;
* `AuthorizedInv`: once the database was asked for a request that goes on, no
  authorization is left in its chain.

Only model-checked: liveness (`EventuallySettled`, `CreatedIsHandled`,
`EventuallyListed`), which is out of the prover's reach. Every other property that a
run checks and that holds is a theorem, except that `TypeOK` of `CreatedMessageHandler` is
a theorem and no run lists it. What the other proofs use of
the numbers of the retries is `MaxRetries < MaxDequeueCount` (`QueueAssumption`); that
the source has `MaxRetries = MaxDequeueCount - 1` is a matter of its constants, which
`MCRetryBackoff` checks (`RetriesAssumption`, `RetriesMatchDequeues`).

## Findings

Each is a statement of the repository that a run refutes.

| Run | Says | The code |
|-|-|-|
| `MCNotificationGivenUp` | README: notifications are marked as failed once given up | leaves `THROTTLED` when the retries are used up |
| `MCNotificationDelivered` | README: a delivered message is marked as delivered, one being retried as sending | lets the failed attempt write `THROTTLED` after the next one has written `SENT` |
| `MCVisibleServicesAnyOrder` | test: takes the latest version of a service | a hidden version read first is forgotten |

On the first: with the real delays the 22nd attempt comes after 13.8 days at the
earliest when all visibility updates succeed (`LastAttemptIsTooLate`), so that it
finds the notification expired. The run needs the last attempt to be earlier, by
one failed visibility update of a late attempt, which falls back to 30 seconds.

On the second: the first retry comes one second after the message was made visible
(`azure_queues.ts`), and only then does the failed attempt write its status: the run
needs that write to take longer than the whole second attempt.

A message handled twice has two notifications, although `entities.puml` draws at most
one. That is no finding of its own: `NotifiedOnce` shows that it takes a crash or a
failed operation, and `ReplyTellsTruth` what a client can see of it.

## What is not modelled

* `queue_monitor.ts`: telemetry.
* The creation of clients, models and apps when a function starts, and the logging
  set-up of the front controllers. The info, debug and OpenAPI handlers are stateless
  replies: only their routes are modelled.
* The middlewares, models and database access come from `io-functions-commons`,
  which is not in the repository: modelled only as the code here uses them.
* In GET of a message: the check that the client is its sender. In GET of a profile:
  the extended profile for a trusted application, which is the document itself. In
  `CreatedMessageHandler`: the version of the sender service. A service is its
  visibility.
* The contents of messages and emails, and which of the two mail transports is used.
* The liveness of the pipeline as a whole (every processed message is notified on
  every channel in the end): each queue settles its messages (`EventuallySettled`),
  and a settled message has all its events (`SettledIsComplete`), but the composition
  is checked for safety only; with fairness it is beyond what TLC does in minutes.

## Plan

Done, in this order: `RetryQueue`, `QueueDelivery` and its proofs (every handler
stands on it); the notification handlers and what they promise; the created message
handler; the profiles; the visible services; the numbers of the retries; the messages
API; the pipeline that composes the handlers and the readers; the front controllers;
the proofs about these; then the refinement of the pipeline by the handlers
(`MessageSystem`) and of `ProfileHistory` by `Profiles`; the whole way from the sender to
the recipient (`MessageService`), and the proofs about the numbers of the retries.

Next:

1. The version of the sender service, with several messages handled out of order.
2. An abstract specification of what the created message handler promises, to put in its
   place where `MessagesApi` and `MessagePipeline` use it.
3. The liveness of the pipeline, from that of its queues.
