# CRM-ROBUSTO: formal models, checks and proofs

CRM-ROBUSTO is a multi-tenant CRM whose conversations happen on WhatsApp: a
NestJS API (`src/apps/api`), a Next.js client, Postgres through Prisma, BullMQ
queues on Redis, and two WhatsApp gateways (Evolution and UazAPI) that are
called over HTTP and call back with webhooks. One Node process holds the HTTP
API, the crons and the queue workers, so there are no threads; everything that
can go wrong goes wrong *between two awaits*. The models take every await
between a read and the write that depends on it as a step boundary.

## 1. Inventory

| Component (under `src/apps/api/src/modules`) | State | Operations | Talks to | Hard behaviour | What makes it correct |
|---|---|---|---|---|---|
| `broadcasts`: follow-up campaigns | `Broadcast`, `BroadcastTarget`, `Lead.last_customer_message_at` | minute tick, send now, reserve, claim, rechecks, send, mark, recover (5 min), reply hook, start/pause/cancel/retry/remove | messages (sendText), inbound webhook (reply hook) | ticks overlap; no lock but the advisory one around the reservation; customers and managers act while a model writes the text; restarts | one message per contact and retry; daily caps and intervals; no claim forgotten; honest reply metric; cancel is final; exhausted campaigns close |
| `messages`: sending | `Message` (status, `whatsapp_message_id`, `metadata`), queue `messages-send` | create, resend, post with 4 attempts, record, fail, sweep (1 min), reconcile (5 min) | gateways, webhooks (echo, acks) | lost answers, retries, echoes racing the recording, acks out of order, metadata copied back whole, restarts | no second post of what the row knows was sent; nothing shown as sent that was not; pending settles |
| `webhooks`: inbound | `Lead`, `Conversation`, `Message`, queue `webhooks` | evolution and uazapi events, lead upsert, auto-assignment, conversation, message upsert, mirror | queue (assignment), broadcasts, automations | events concurrent and retried; the worker's copy of the lead is older than the row | a conversation keeps its owner; the customer's time never goes back; the mirror follows the customer |
| `queue`: round robin | `QueuePointer`, `AssignmentLog` | assign under `FOR UPDATE` | inbound, leads | concurrent first messages, members leaving, manual claims | turns stay within one of each other; a lead taken meanwhile is left alone |
| `leads`: owner and board | `Lead`, `Conversation` | claim, reassign, return, move to sector, bulk, form, stage | queue, automation, webhooks | a request reads the lead, and writes after others did | returned leads are visible to the team and owned ones are not; a handover sticks |
| `instances` | `WhatsappInstance` | `setOwner` with transfer; pairing, configuration | leads | a number changes hands while its messages are processed | as above |
| `instances`: health | open alerts, in-memory counters | five-minute probe, reconnect, alert, resolve, silence | gateways, connection webhooks | probe and webhook interleave; a restart forgets counters | one alert per outage, seen twice before, resolved when it ends |
| `pipelines`, `automation` | `Stage`, `Lead`, queue `auto-actions` | personal boards; entry actions; cadence | leads, tasks, messages | the action runs after the lead moved on | an action leaves a consistent owner and board |
| `outbound-webhooks` | `OutboundWebhook`, `WebhookDelivery`, queue | dispatch, test, deliver with 3 attempts, edit, delete | customers' servers | lost answers, lost rows, stalled jobs | repeats are explained; every delivery ends on record |
| `public-api`: idempotency | Redis entry per key | look up, run handler, store | API clients | two requests with one key in flight; Redis away | replay is the caller's own answer; a second run overlaps the first |
| `lead-insights` | `LeadInsight`, queue `lead-insights`, `Lead` fields | triggers, generation, refusal, acceptance, field filling | model provider, leads | a generation takes two minutes, everything it read may have changed | no message is left out; refused stages stay away; manual input wins |
| `sheet-import` | `SheetImportRow`, `Lead`, `lastHash` in memory | tick, match, create, attach, mark | Google Sheets, leads | two processes during a release, two sheets, edits, failures of one row | each row once, one lead per person, edits kept, every row settles |
| tasks, AI chat, analytics, auth, platform, PL sales, media, push, history sync, contacts, web, infrastructure | | | | mostly single-row or read-only | not modelled, see section 8 |

How they interact where it matters: a customer's message enters through
`webhooks`, which finds or creates the lead, lets `queue` draw an owner, elects
the active conversation and mirrors it in the lead, fires the reply hook of
`broadcasts` without awaiting it, and asks `lead-insights` for a generation.
People (`leads`, `instances`, `users`) and the automation of a stage write the
same lead without a lock. A campaign hands its text to `messages.sendText`,
which stores a PENDING row and queues a job; the worker posts it to a gateway;
the gateway echoes our own message back through `webhooks`, which links it to
the row or, failing that, inserts a copy; acks and the reconciler move the row on
from there. `instances` watches whether the gateway is there at all.

## 2. Modules

| Module | Models | Run through |
|---|---|---|
| `FollowupPromise` | abstract: what a follow-up campaign owes a contact, as an allowance of messages | refined by `Broadcast` |
| `DeliveryContract` | abstract: what the sending of messages owes a chat, as posts a row remembers or has forgotten | refined by `MessageDelivery` |
| `Broadcast` | the campaign subsystem in full detail | `MCBroadcast` (5 cfgs) |
| `MessageDelivery` | the life of outgoing messages of one chat: API, queue, gateway, echo, acks, sweep, reconciler | `MCMessageDelivery` (3 cfgs), `MCConversation` |
| `LeadOwnership` | who a lead belongs to: inbound worker, round robin, requests of people, automation | `MCLeadOwnership` (2 cfgs) |
| `LeadInsights` | the card (ficha) a language model keeps of a lead | `MCConversation` |
| `InstanceHealth`, `OutboundWebhooks`, `Idempotency`, `SheetImport` | one service each | `MCServices` |
| `BroadcastProofs`, `MessageDeliveryProofs`, `LeadOwnershipProofs`, `InstanceHealthProofs`, `OutboundWebhooksProofs`, `IdempotencyProofs`, `LeadInsightsProofs`, `SheetImportProofs` | theorems, for all constants | `tlapm` |

`Faulty_*` operators beside a definition are not the code: each is that
definition with one plausible bug, kept to confirm that a property notices it.
Variables marked *history* (or "not in the code") are read by no guard.

### Broadcast

*State.* `status` and `last` are `Broadcast.status` and `last_dispatch_at`;
`st`, `claimed`, `sentAt` are a target's `status`, `error_code =
'dispatching'` and `sent_at`. `spoke[l]` says that the customer has written
since the campaign began. `pc`, `todo`, `camp`, `tgt`, `at` are the locals of
one execution of the tick (`Ticks`) or of sendNow (`Manuals`); several may run
at once because the cron has no re-entrancy guard. `hook` is one execution of
`registerCustomerReply`. `sends`, `retries`, `sentOn`, `sentBy`, `carried` are history:
no action reads them, except that `retries` also carries the bound
`MaxRetries`.

*Actions.* The tick is `TickBegin` (which campaigns are due; read once),
`TickPick` (limit and next target), `TickCount` and `TickClose` (nobody left:
count those in flight, then close), and its catch (`TickMarkFailed`,
`TickPauseForAi`). `SendNow` enters the same sender: `Reserve` takes
`pg_advisory_xact_lock` and asks every limit in one step, `Claim` writes and
commits; the lock is held in between (`LockFree`), while writers that take no
lock interleave. Then one action per await: `ReadLead`, `BuildContent`,
`RecheckActive`, `RecheckLead`, `RecheckWindow`, `SendText`, `MarkSent`, with
`Skip`, `NoSender`, `Release`, `Rescue`, `RescueAiConfig` as its exits.
`DeliverThrows`, `ReserveThrows` are exceptions, each before the effect of the
statement; `Crash` is the death of an execution and also stands for an error
inside an error handler. A target whose campaign was deleted is `gone`: an
update of it throws, as Prisma's does.

*Abstracted.* Time is an integer; the company's and the campaign's windows are
sets of instants of the day, in which `scheduled_at` is folded. What other
modules decide (telephone, blocked lead, audience, active manager, the text)
is a choice. `create`, `prepare`, `update`, `duplicate` work on drafts that no
worker touches.

### MessageDelivery

*State.* A row of the chat is a message created here (`Messages`) or a copy the
echo webhook inserted, named by the wire it copies. A *wire* is a message the
gateway accepted, numbered in order. `wire[r]` is `whatsapp_message_id`,
`resends` and `cause` are the two facts kept in `metadata` (`cause = "clear"`
when the stored error is one the sweep takes for no delivery), `fresh` the rows
of the last 30 seconds. `job[j]` is a job of `messages-send` together with the
state of its handler; `request[p]` a resend in progress (of a user, the sweep
or the reconciler) or the creation of a message that has still to add its job;
`plan` what one pass of the reconciler has read and decided. `lost` (wires whose
id their row does not, or no longer, know, because the answer was lost, the
reconciler gave up, or another id was written over it) and `abandoned` (rows whose
job was thrown away) are history.

*Actions.* `Create`; `ResendRead`, `ResendPut`, `Enqueue`, `RequestThrows`;
the worker's `Discard` (suspended company), `Attempt` (the guard
`alreadySent`), `PostAccepted`, `PostRefused`, `Record`, `RecordThrows`;
`onFailed` as `FailedRead`, `FailedWrite`, `FailedWriteThrows`; `SweepRead`,
`SweepNext`; `EchoRead`, `EchoLink`, `EchoInsert`; `Ack`; `ReconcileRead`,
`ReconcileAsk`, `ReconcileStatus`, `MarkStuck`, `ReconcileThrows`; `Crash`.
An answer of the gateway may carry the id, lack it, or never come.

*Abstracted.* Contents are model values. READ and DELIVERED are one status (no
guard tells them apart). Cooldowns and age windows (90 s, 30 min, 1 h, 6 h,
24 h) only order events and are left to the interleaving. Acks (Evolution,
UazAPI) and the reconciler (UazAPI) may act on the same row: the code keeps
them apart by gateway only. The first request of an audio attempt, which falls
back to a second one inside the attempt, is not modelled.

### LeadOwnership

*State.* `lead` holds a row's owner, number, `private`, the mark of a returned
lead (`cloud`) and the board its column is on; `conversation[l][i]` the owner and
the time of the customer's last message on each number; `cursor` is
`QueuePointer.current_index`. `job[j]` is one message in `saveIncomingMessage`
with what its worker copied (`rule`: whose a new lead is; `owner`, `number`,
`board`: the lead as it read it; `pick`: whom a draw or a conversation named).
`session[h]` is a request of a person with what it read first. `owned`, `turns`,
`held` are history.

*Actions.* A message: `Start` (settings and rule), `UpsertLead`, `AutoAssign` or
`FixColumn`, `PickAgent` and `Grant` (the round robin's transaction, then the
conditional update), `ResolveConversation`, `Touch`, `Save`, `SyncRead` and
`Mirror` (one transaction at READ COMMITTED, so the read and the write are two
steps), `Fail` with its retries. People: `Open` (the read and the permissions),
then `Claim` and `Relabel`, `Reassign`, `SectorPick` and `MoveToSector`,
`ReturnToPool`, `BulkAssign`, `SaveForm`, `MoveStage`, or `Abort`; `SetOwner`,
`DeleteMember`, `SetActive`. Automation: `ReadEntered`, `AssignEntered`,
`SkipEntered`.

*Abstracted.* One tenant, one pipeline, one sector; a board's columns are one,
named by whose board it is. The draw of the automation, by the clock in the
code, is any active member. `WriteLead` and `ResolveConversation` refuse to name
a deleted member or column, as the foreign keys do.

### LeadInsights

*State.* `inserted` are the messages that are rows and `trigger[k]` the worker of
the k-th, with the watermark its `enfileirarSeElegivel` read; the k-th message has
created_at k. `mark`, `suggested`, `refused` are the card: the watermark, the stage
suggested, and which refusals `etapa_recusas` still lists; `refusals` is every
refusal people made, in order, and those up to `weekAgo` are over seven days old.
`task[d]` is a job by its `jobId`, `run[d]` its generation, `click[c]` a request on
the suggestion. `covered` (what was a row when the card's generation read),
`checked` (the refusals made when it looked), `erased` and `excused` are not in the
code; they let the properties speak of what happened and not of what was stored.

*Actions.* `Receive` takes created_at as the worker begins, `Insert` is the row,
many awaits later, so rows appear out of the order of their dates; only a
customer's live message goes on to `ReadMark`, `Judge` and `Enfileirar`, and
`TriggerThrows` is an error on the way. `Added` is BullMQ's merging by `jobId`.
Each await of `gerarInsight` is a step: `Begin`, `ReadMessages`, `Model`,
`LookAgain` (refusals read again), `WriteCard`, `Fill` and `FillWrite` (the interest
field, guarded by `updated_at`), `Recheck`, `Readd` and `End`, with `Unusable`,
`LookFails`, `RunThrows`, `RecheckThrows` and `ProcessDies` as failures. People:
`Consider` reads the card, `Accept` and `Refuse` write it (`Latest` is the cut of
`proximasRecusas` to `RECUSAS_MAX`), `Edit` writes the lead, `WeekPasses` is time.

`MCConversation` checks it beside `MessageDelivery`, in one run whose behaviours are
each one of four *parts*, so that the states are a sum and not a product: what is
sent; the card with messages; with suggestions; with the field.

### The services of `MCServices`

Four services that share no state are checked in one run of five such parts. Every
one keeps its own `Init`, `Next` and variables and is proved about on its own.

* `InstanceHealth`. A tick (`TickBegin`, `Probe`, `Connect`, `MarkDown`, `Count`,
  `FindAlert`, `CreateAlert`, `MarkOpen`, `FindOpen`, `Resolve`, `Silence`,
  `OpenSilence`, `TickEnd`) and a connection webhook (`HookRead`, `HookWrite`,
  `Forget`) share the status and the alert rows; `running`, `quedas` and
  `silenciosAbertos` are the memory of the process, which `Restart` empties while
  rows stay. The gateway, its webhooks and the customers turn at will.
* `OutboundWebhooks`. `Dispatch` reads the active webhooks, `Enqueue` adds a job
  for each; the worker is `Start`, `Post`, `Record`, `Settle` with its errors, and
  `Die` the restart after which a stalled job runs once more. `taken` and `lost`
  count, for the property only, what the receiver took and what was forgotten.
* `Idempotency`. The interceptor around a handler: `Look`, `Answer`, `Store`; the
  answer is stored after it was given. `Lapse` is an expiry or the loss of Redis.
* `SheetImport`. A run is `DownloadSheet`, `ReadEntries`, then a row at a time:
  `SkipRow`, or `MatchRow` with `CreateLead`, `AttachRow` or `MarkError`, and
  `EndRun`. In the protected mode (`conservativeDedupe`, or a company that has the
  protected sheet) a row's transaction holds an advisory lock (`LockFree`). Two
  importers stand for two sheets, or for the two processes of a release.

## 3. Runs

| Run | Instance | Distinct states | Shows |
|---|---|---|---|
| `broadcast_target` | 1 campaign, 1 target, 1 tick, 1 sendNow, 1 crash, 1 retry, 2 days | 1 133 066 | `TypeOK`, `DeliveriesPaid`, `QuotaPerDay`, `ClaimIsOwned`, `ReplyMetricHonest`, `CanceledIsFinal`, refinement `KeepsPromise` |
| `broadcast_quota` | 2 campaigns, 2 targets, 2 ticks, company cap 1 | 2 790 811 | `TenantQuotaPerDay`, `ReservationsSpaced` |
| `broadcast_live` | 1 campaign, 1 target, 1 tick, 1 crash, fair | 141 610 | `ClaimsResolve`, `ExhaustedCloses` |
| `broadcast_done` | as `broadcast_target` | violation | `DoneLeavesNobodyQueued` fails, see section 4 |
| `broadcast_reply` | as `broadcast_target` | violation | `ReceivedBecomesReplied` fails |
| `conversation` | the four parts of `MCConversation`, bounds below | 1 946 976 | `TypeOK`, `ShownReachedGateway`, `NoSilentDuplicate`, `NewsReachesTheCard`, `RefusedStaysAway`, `ManualInputWins` |
| `message_recover` | 1 message, 1 job of 1 attempt, sweep, reconciler, 2 wires, 1 restart, fair | 268 633 | `NoSilentDuplicate`, refinement `KeepsContract`, `PendingSettles` |
| `message_echo` | 1 message, 1 job, 2 attempts | violation | `EchoStopsRetries` fails |
| `message_timeout` | 1 message, 1 job, 2 attempts, sweep | violation | `TimeoutsNotResent` fails |
| `ownership` | 2 members (1 manager), 1 lead, 2 numbers, 2 messages of 2 attempts, 3 scenarios, 1 session, 2 operations of people | 1 438 178 | `TypeOK`, `CloudHoldsTheReturned`, `RoundRobinFair`, `HandoverSticks`, `ConversationIsSteady` |
| `ownership_distribution` | two messages of a new contact, shared number | violation | `CardMovesOnlyToAnotherNumber` fails |
| `services` | the five parts of `MCServices`, bounds below | 162 887 | the 15 properties of the four services in section 5 |

All but the two `ownership` runs use `CHECK_DEADLOCK FALSE`: clocks, crashes,
posts and retries are bounded, and a system whose campaigns are finished or whose
messages are settled stops. `LeadOwnership` names its end instead (`Quiet`), so
there a worker or a request that could not go on would be reported.

*Bounds, all named constants.*

* `Broadcast`: `MaxNow` (the clock), `LastReserve` (no reservation later, so that
  in-flight work can finish before the clock stops), `MaxRetries`, `MaxCrashes`,
  `Managed` and `Speakers` (which campaigns managers act on, which customers
  write). `StaleAfter = 0` lets the recovery take any claim of an earlier instant
  for dead, so a sender slower than the 20 minutes is the normal case. With
  `DayLength = 2` and `MaxNow = 3`, midnight passes in the middle of a run.
  Targets meet only in counts; the counts get two campaigns, two targets and two
  workers in `broadcast_quota`.
* `MessageDelivery`: `MaxWires` (posts the gateway accepts; the attempt before the
  next one is still checked), `Jobs` (jobs alive at once), `Manuals`, `Attempts` 2
  for 4 (1 in `message_recover`, where the sweep and the reconciler repeat instead),
  `MaxResends` 1 for 5, `MaxStuckResends` 1 for 2, `MaxCrashes`. One repetition of
  each kind gives "again" its first case; two wires are needed for the reconciler
  to call one stuck. `conversation` has 2 messages of different contents, 2 jobs, 1
  resend by hand and 1 wire; its constraint `ByHandOrBeside` leaves out behaviours
  with both a second message and a resend by hand. The proofs of section 6 have none
  of these bounds.
* `LeadOwnership`: two members are the least a turn can be taken between and a
  lead handed over between; two messages race each other, and a third request of a
  person races both. `MaxOperations` 2 gives a handover and something after it.
* Services. Monitor: 1 number, 2 overlapping ticks, 1 webhook, 1 trouble (a restart
  or a failed statement). Webhooks: 1 event and 1 test, 1 receiver, 2 attempts,
  1 mishap. Keys: 3 requests with one key, one of another company, 1 lapse. Sheets: 2
  importers, 2 rows of one person, 2 leads, 2 tries of a row, 1 upset.
* `LeadInsights`: 2 messages are the least that can appear out of order; 2 workers,
  2 tries, `MSGS_PARA_DISPARAR` 2 for 5, 1 edit, 1 failure. A list of 2 refusals for
  `RECUSAS_MAX` 10, 3 refusals, 2 stages and 2 people at once: the third refusal
  pushes the first out, and two refusals that read one list write over each other.
  The part of the suggestions fails at the second look only.

*Fairness.* `Broadcast!Fairness`: Node runs every continuation that is ready, so
each worker's own steps are weakly fair; both crons keep firing; time passes.
Managers, customers, errors and crashes owe nothing. `MessageDelivery!Fairness`:
resends and workers go on. For the worker at `post` this assumes that the HTTP
call ends: the code sets no timeout on it, so a connection that hangs would hold
one of the queue's five slots. Crons, webhooks and the gateway owe nothing there.
`MCServices!Spec`: the monitor's cron keeps firing and its ticks and webhooks go
on (`TickStep`, `HookStep`), the queue hands its jobs to the webhook worker, whose
post has a timeout in the code (`Work`), and the import's cron fires and goes on
(`RunImport`). The gateway's status, whether a webhook comes at all, customers,
people, errors and restarts owe nothing. `LeadOwnership`, `Idempotency` and
`LeadInsights` promise nothing that needs fairness.

## 4. What the runs found

Each violation run checks one sentence of the repository against the code.

* `DoneLeavesNobodyQueued`: the tick counts in-flight targets, then closes the
  campaign. retryFailed in between requeues targets of a campaign that is then
  `done`, and nothing can start it again.
* `ReceivedBecomesReplied`: the reply hook writes by ids it read earlier; a
  target recorded as sent in between becomes `skipped` and its conversation is
  not counted.
* `EchoStopsRetries`: if the echo did not recognise the row (over 30 s old, or
  stored with another content) it inserts a copy with the id. The worker's guard
  looks only at its own row, so each retry posts again; the comment on
  `alreadySent` names this very case as the one it prevents.
* `TimeoutsNotResent`: only the last attempt's error is stored, so a delivered
  message whose first attempt timed out and whose last got a 503 is resent.
* `CardMovesOnlyToAnotherNumber`: the round robin writes the lead alone. A second
  message whose worker copied the lead before the draw loses the draw, creates the
  conversation from its stale copy without an owner, and the mirror then gives the
  lead to nobody: the member drawn loses it though no other number was written to.

Met while modelling and stated as the exceptions in the properties, not as
findings: a delivery open at midnight counts in the new day only once marked
(`carried`); deleting a campaign takes its attempts out of the company's count;
an answer without an id erases the id an echo had linked, and the echo of an equal
message takes the place of an id the worker just recorded, after which a later
resend posts again (`lost`); a crash between PENDING and the job leaves a row
nobody looks at (`abandoned`); two concurrent requests of one `Idempotency-Key`
both run. Of the card (`excused`, `erased`): a message whose row appears after a
generation read, with a created_at that is not after the watermark this generation
then writes, is counted by no trigger and no recheck; a trigger is dropped between
the job's last look and its removal; the eleventh refusal within seven days drops
the first one, of two refusals at once the second takes the first one off the list,
and what was refused between the second look and the write is suggested all the
same. Of the monitor (`Reassured`): `tentarReconectar` takes a 2xx answer with
neither a state nor a code for a return (lines 571 and 597), so a number that is
still down is marked open, its counter starts again and its alert is resolved; as
long as the gateway goes on answering so, nobody may ever be told.

Read in the code and left without a run, because no sentence of the repository
says otherwise or because the part is not modelled:

* *Leads.* The automatic assignment of a scenario overwrites a claim made since the
  worker read the lead (`inbound-message.service.ts:615`). `private` survives
  `bulkAssign`, the sync and the form. `moveToSector` and the mirror do not
  translate the column, so a lead may stand on a former owner's board. An owner
  set in bulk or in the form is undone by the customer's next message, since the
  conversation keeps the old one. A message on a second number whose conversation
  has no owner marks a lead that never had one as returned.
* *Monitor.* A restart, or an error, between `instanceAlert.create` and
  `avisarAdmins` leaves an alert nobody was told of; `fecharSilencio` takes the
  number out of its set before the update that may fail.
* *Insights.* The cap of five suggested reminders is
  counted outside the write. `aplicarTemperatura` bumps `updated_at`, so the
  interest field is skipped on the same run.
* *Sheets.* Outside the protected mode an edit between the read and the write is
  lost, although `docs/superpowers/specs/2026-09-08-importacao-planilha-meta-design.md`
  says that only empty keys are filled.
* *Counters.* Duplicates of a message raise the unread badge, and the first message
  of a new lead does not; `resend_count` is part of a metadata object that three
  writers copy back whole, so an increment can be lost and no bound on the sweep's
  resends is stated.
* *Elsewhere.* `markOverdueBatch` may overwrite a task completed in between; the
  cadence sends before it stores its step and has no re-entrancy guard; a follow-up
  may leave although the customer wrote after the last look at the lead.

## 5. Properties

Every property has a mutant in `PROJECT.json`: a plausible mistake in the code
under which its run fails. "TLC" in the last column: model-checked only.

| Property | Statement | Proved |
|---|---|---|
| **Broadcast** | | |
| `TypeOK` | types, and which of campaign and target a worker holds at each `pc` | `TypeCorrect` |
| `KeepsPromise` | implements `FollowupPromise`, the allowance of a target read as claims not yet sent plus a place in the queue | `PromiseKept` |
| `DeliveriesPaid` | messages of a target <= 1 + its requeues | `DeliveriesBounded` |
| `ClaimIsOwned` | without a crash, every claim has a sender that will settle it | `ClaimsAreOwned` |
| `ReplyMetricHonest` | sent or replied implies a message went out | `MetricIsHonest` |
| `CanceledIsFinal` | nothing revives a cancelled campaign | `CancellationIsFinal` |
| `QuotaPerDay`, `TenantQuotaPerDay` | messages of a day within the limits, with the exceptions of section 4 | `DailyLimitKept`, `TenantLimitKept` |
| `ReservationsSpaced` | company-wide minimum interval between reservations | `IntervalKept` |
| `ClaimsResolve` | every claim resolves | `ClaimsAreResolved`, given `Recoverable` and `ClockRuns` |
| `ExhaustedCloses` | an exhausted campaign closes | TLC |
| **MessageDelivery** | | |
| `TypeOK` | types, and at most one row per wire | `RecordsKeepTheirTypes` |
| `NoSilentDuplicate` | a message is posted again only if its row could not know of an earlier post, or a job of the row still posts | `RepeatsAreForgottenPosts` |
| `ShownReachedGateway` | sent or delivered implies that content reached the gateway | `ShownWasTaken` |
| `KeepsContract` | implements `DeliveryContract`: no attempt begins while the row remembers a post, one post an attempt, no memory lost to a crash | `ContractKept` |
| `PendingSettles` | PENDING ends, unless the job was thrown away | TLC; its parts are `PendingRowsAreCarried` and, given `Sendable`, `CarriedRowsSettle` |
| **LeadOwnership** | | |
| `TypeOK` | types of rows, pointers and copies | `TypeCorrect` |
| `CloudHoldsTheReturned` | a returned lead is in the cloud and not private, an owned one is not in it | `CloudCorrect` |
| `RoundRobinFair` | no active member is two turns ahead of another | `RoundRobinCorrect` |
| `HandoverSticks` | a handed-over lead survives the customer's later messages on that number | `HandoverCorrect` |
| `ConversationIsSteady` | the webhook takes no conversation from its owner and sets no time back | `SteadyCorrect` |
| **InstanceHealth** | | |
| `HealthTypeOK` | types, and the re-entrancy flag is up exactly while a tick runs | `HealthTyped` |
| `OneAlertPerOutage` | one open alert for an outage | `AlertsAreSingle` |
| `AlertHadTwoLooks` | an alert is opened only by a tick that began with the number counted down | `AlertsHadTwoLooks` |
| `SilenceOncePerCooldown` | silence alerts are a cooldown apart, restarts included | `SilenceIsReportedOnce` |
| `OutageAlerted` | a number that stays down ends with an open alert, unless a gateway for ever answers reconnections with neither a state nor a code | TLC |
| `FalseAlarmHeals` | one that stays connected ends open, without alert | TLC |
| **OutboundWebhooks** | | |
| `RepeatsExplained` | a receiver takes an event again only after a mishap or a bad answer | `RepeatsAreExplained` |
| `SettledIsOnRecord` | the log agrees with the queue | `SettledOnRecord` |
| `QueuedSettles` | every queued job ends | `QueuedJobsSettle`, given `Workable` |
| **Idempotency** | | |
| `SecondRunOverlaps` | a second run of a key overlaps the first, unless the store lost it | `SecondRunsOverlap` |
| `ReplaysItsOwn` | a replay is the answer of the same company, path and key | `RepliesAreOwn` |
| **LeadInsights** | | |
| `NewsReachesTheCard` | with nothing queued or asked for, the generation of the card had every row to read, late ones included, but for the named gaps | `NewsIsCovered` |
| `RefusedStaysAway` | a stage refused before the generation looked does not come back for seven days, whether or not the list still has the refusal, but for those pushed out or written over | `RefusalsStayAway` |
| `ManualInputWins` | the model never replaces what a person filled in | `ManualInputStays` |
| **SheetImport** | | |
| `RowEntersOnce` | a row is written on a lead once | `RowsEnterOnce` |
| `OneLeadPerPerson` | two rows of one person never become two leads | `PersonIsOneLead` |
| `HandwrittenStays` | an import never overwrites what a person wrote | `HandwritingStays` |
| `RowsSettle` | every row ends on record | TLC; its safety half is `DoneSheetsAreSettled` |

## 6. Proofs

Each proof module assumes only the named assumptions of its component (finite sets
of workers, functions of the right type, a null that is no member of the set);
TLC evaluates them on every instance. There are no bounds on members, messages,
workers or requests.

*`BroadcastProofs`* (`TopologyAssumption`, `BoundAssumption`).

1. `TypeCorrect`. The type invariant is inductive by itself. It is split into
   the rows' half and the workers' half, since an action seldom disturbs both;
   lemmas state once what `Finish`, `Vanish`, `Goto` and `SetTarget` do.
2. `PromiseKept`. `PromiseInit` and `PromiseNext` show that the initial state
   and every step map to the abstract ones. The allowance of a target is a
   cardinality (claims not yet messaged, plus one while it is queued), so the
   core is `NoGrowth`: a step in which no other worker enters the holders of a
   target does not raise it. `SendText` is the only `Deliver`, `RetryFailed` the
   only `Requeue`; everything else is a `Lapse` or a stutter.
3. `DeliveriesBounded`. `DeliveriesPaid` is not inductive: it says nothing of
   claims not yet sent. `Budget` (sends plus allowance <= 1 + requeues) is, and
   it is proved from the *abstract* steps alone.
4. `ClaimsAreOwned`, inductive with the type invariant: `OwnedStep` gives the
   shape common to all steps of a sender.
5. `MetricIsHonest`, strengthened to `Counted`: a worker about to mark has sent,
   and what the hook has read as sent was sent.
6. `CancellationIsFinal`, an action property that needs the type invariant only.
7. `IntervalKept`. A reservation is checked in one step and claimed in a later one.
   `Locked` (two workers between the two steps work for different companies) and
   `Spaced` (the check still holds at the claim) carry it across; `Dated` bounds
   the dispatches by the clock, so that the latest one exists (`RecentExists`)
   although the company may have any number of campaigns.
8. `DailyLimitKept` and `TenantLimitKept`, by one argument about a set of
   campaigns. `Within` says that the targets messaged today and those still held
   by a sender are different rows, all of them counted and none of them queued,
   and that their number is within the limit; a worker at its claim still has the
   room its check saw. `CalmNext` sorts the steps into those that leave `Within`
   alone and the four that count: a granted reservation, a claim, a message and
   midnight. `Wiped` (a campaign and its targets disappear together) is why
   deletion is harmless for the campaign itself, and why the company's cap has to
   exclude it: with the rows their count is gone.
9. `ClaimsAreResolved`. `ClaimsDated` dates every claim, so that at the end of the
   clock each one left is stale (`OldClaimIsStale`, which needs `LastReserve +
   StaleAfter < MaxNow`: the clock outlasts the wait) and the fair recovery ends it.
   Crashes of any number are included: the argument never asks for the sender.

*`MessageDeliveryProofs`*. `DeliveryInv` is the type invariant with what ties a
local of a job, request, plan or echo to the history of its row (`PostedInOrder`,
`JobFits`, `RequestFits`, `PlanFits`, `RowFits`, `EchoFits`) and `Remembered`: a
post that the gateway took is in `lost`, or its row has its id, or the job that
made it still holds it. From that `NoSilentDuplicate` follows at the one action
that posts (`PostsAfterGuard`: whoever posts has looked at its row). The frame
lemmas (`Framed`, `RowsStayFramed`) say once what a step that touches one row
leaves true of all the others. Messages of equal content are covered here and
not by `conversation`.

`ContractKept` maps an attempt to a job between its guard and its record, the post it
holds to the wire in that job's hand, and what a row remembers to the wires whose
`origin` has their id. A post is `Accept`, the record `Report`; the echo that links,
the reconciler that gives an id up and the record over an echo's id are `Revise`; a
throw, a last failure and a restart are `End`; all that happens to statuses, requests
and plans is a stutter. That a row remembers one post at most is `DeliveryInv`; that
`Crash` leaves memories alone is the point.

`PendingRowsAreCarried`: nothing in the code looks for pending rows, so a row must
never be PENDING with nobody at work on it. The strengthening `OwnRequests` says that the
request of a new message is about that message, so that its creation meets no other. The
proof failed at first because the model's assumption let a message's own caller be a
user's resend as well (`Messages` and `Manuals` were only compared as sets); the code
has no such caller, and `ParameterAssumption` now states the four kinds disjoint.

`CarriedRowsSettle`: a job has `Left(j)` statements before it, four for each attempt
left; each of its steps uses some up (`Within`, `WorkDraws`) and no step of others
gives any back, so a row a job carries stops being pending after at most 23 of them.

*`LeadOwnershipProofs`*. `LeadInv` joins the types of rows, sessions and jobs with
`CloudHoldsTheReturned`, and adds that whoever writes a lead writes an existing
row. `RoundRobinCorrect` needs to know where the surplus turns are: `InTurn` says
that exactly the members between the first of the list and the pointer (`Ahead`)
have one turn more, and one draw moves the pointer to its `Successor`.
`HandoverCorrect` rests on `HandInv`: while a handover stands, no worker in flight
holds a copy from which the mirror would write another owner (`Kept`).
`SteadyCorrect` is an action property of the webhook's steps.

*`SheetImportProofs`*. The invariant gives, under `Protected`, that one process at
a time is between a row's read and its write (`OneAtATime`, from the lock), that
what it read is still so (`StillOpen`, `NoTwin`), and that the rows on record
account for the leads written (`Counted`). `DoneSheetsAreSettled` is `RunsSettle`,
which follows a run: the rows of its sheet it has been through are settled as long as
it is `clean`, and a clean run is the only one that notes its sheet; `SettledStays`
keeps them so while the other importer and people write.

*`IdempotencyProofs`*. `CacheHolds`: what is stored is the answer of a request
with that key; `WillFind`: a request that begins after a store, with no lapse in
between, will find it.

*`OutboundWebhooksProofs`*. `JobOK` accounts, for each job, for what the receiver
took by the attempts that were refused, forgotten or are under way (`Accounted`,
`AnswerHeld`), and keeps the log in step with the attempts (`LogInStep`).
`JobsRunDown` gives every job a measure of attempts, stalls and statements left and
shows that no step of anybody raises it; `QueuedJobsSettle` draws it down to the end by
the worker's fairness, for the three attempts of the code.

*`InstanceHealthProofs`* (`HealthAssumption`). The flag lets one tick run (`Flag`,
`OneTick`), and only that tick opens alerts, so an alert it did not find is still
absent when it writes (`Absent`). `Looked` and `ToCount` say that an instance it has
still to count, and that is already counted, was counted when the tick began.

*`LeadInsightsProofs`* (`InsightAssumption`), with any length of the list of refusals.
`NewsReachesTheCard` speaks of the quiet moment only; the inductive form is `NewsOK`:
every message that the card's generation could not read and that cannot rely on its
own request (`Needs`) is carried by a job (`Carries`) that has still to read, or to
look again, or whose failure will be on record. `AfterOK` is why the recheck's own job
is another one: a job named after a watermark has something newer to read, and so
reaches a later watermark. `RefusalsOK` follows a refusal through the copies: the
stored list has every refusal but those pushed out or written over (`Listed`; what the
cut drops has `RecusasMax` later ones, `LatestKeeps`), a generation's copy has all made
when it read (`Heeds`), and what it is about to write is refused by none of them
(`Refrains`). `FieldOK` is what the conditional update relies on: while the version a
generation read is still the lead's, the field is still empty.

*Liveness.* The three theorems about `~>` take what the prover cannot see as named
hypotheses, and everything else from the code. `Workable`, `Sendable` and
`Recoverable` say that a worker, or the cron, has a step to take whenever it should:
they are about `ENABLED`, which the prover has no rules for, and are true by the
shape of the actions. `ClockRuns` follows from the fairness of `TimePasses` by
induction on the clock. TLC finds all four true of the specifications of the runs
(`Workable` on `services`, `Sendable` on `message_recover`, the
other two on `broadcast_live`): adding the name to the cfg, as an INVARIANT, or as a
PROPERTY for `ClockRuns`, repeats it. The number of attempts is bounded by the code's
own (3 and 4) because drawing a measure down any number of times is an induction over
temporal formulas; the step of it, `JobsRunDown`, has no such bound.

Out of this prover's reach and left to TLC: `ENABLED`; induction over data; recursive
operators (no module uses one); quantified temporal reasoning. Hence the liveness
properties that stay with TLC. `PendingSettles` as a whole has a row go from a request
to a job that is not known beforehand, an existential under `~>`. `RowsSettle` and
`ExhaustedCloses` run through a set of rows or targets, `OutageAlerted` and
`FalseAlarmHeals` count down over ticks that begin and end: inductions over sets and
counters. Every safety invariant, action property and refinement of the passing runs
is proved.

## 7. Done and left

Done: `FollowupPromise`, `Broadcast`, `DeliveryContract`, `MessageDelivery`, `LeadOwnership`,
`InstanceHealth`, `OutboundWebhooks`, `Idempotency`, `LeadInsights`, `SheetImport`,
their runs, and the proofs of all of them. Left, in order of worth:

1. The tail of `saveIncomingMessage`: unread counters, last-message fields and the
   socket events, with duplicated webhooks.
2. Delayed actions of a stage (`auto-actions.processor.ts`) and the cadence
   (`automation.service.ts`) racing moves, replies and edits.
3. Tasks and reminders, and the history sync.

## 8. Not modelled

Most of the repository is code without a protocol over time, and the map
therefore covers a small share of its lines:

* the web client (about half of the lines): pages and components that show what the
  API answers;
* CRUD modules (contacts, tags, quick replies, views, pipeline configuration,
  users, sectors, tenants, instances' settings): single-row writes behind
  permission checks;
* analytics and dashboards: queries that write nothing;
* model and gateway providers, media conversion, push and websocket output:
  calls to other systems, best effort, without state of their own;
* platform administration, billing, partners and the sales rules of one customer:
  single-row writes and pure functions;
* infrastructure, scripts, seeds and migrations.

Delayed stage actions, cadence, tasks and reminders and the history sync have such
a protocol and are the next to be modelled. `PROJECT.json` lists every component
with its status and reason.
