# Formal models of the device client

This directory holds TLA+ models of the device client (`src/client`): the
program that runs on a vehicle or device, collects events from the device's
applications, stores them in an SQLite data base and uploads them over MQTT (or
HTTP) to the cloud. The models are checked with TLC on small instances; what
matters most is proved with TLAPS for every value of the constants.

Paths below are relative to `src/client/libClientBL/src` unless they name a
library (`libCore`, `libNetwork`, `libUtils`, `libmosquitto`).

## 1. The system

| Component | State | Operations | Interacts with |
|---|---|---|---|
| Stream upload (`upload/CMQTTUploader`, `CUploadUtils`) | request / suspend / shutdown flags, row ids and MID of the publish in hand | query a batch, publish, `update_mid`, `SetMidTable`; alert thread and event thread | data base, MQTT client, MidHandler, UploadController |
| MID book-keeping (`upload/CMidHandler`) | acknowledged-but-unbooked set, MID -> table map, deletion queue | `SetMidTable`, `ProcessPublishedMid`, `InitMid`, deleting thread | uploader, MQTT callbacks, data base |
| MQTT client (`net/CIgniteMQTTClient`, `libNetwork/mqtt/CMQTTClient`, vendored mosquitto) | connected / stop / shutdown flags, topics, subscription counters; messages not acknowledged, `last_mid` | InitClient, connect, loop, callbacks, publish | uploader, MidHandler, tokens, status receivers |
| Shutdown (`core/CClientOnOff`) | receivers by group and order, receivers not ready yet | Register, Unregister, ReadyForShutdown, notify in order | every thread of the client |
| Event intake (`dam/CCacheTransport`, `dam/CDBTransport`, `CDBTransportWrapper`) | event queues, byte count and threshold, power-off and flush flags | Send, Run, HandleEvent, ProcessQueueData, FlushCache, PurgeDB | data base, uploader triggers |
| Upload control (`upload/CUploadController`, `libCore/CUploadMode`) | suspend flag, mode, condition variables | Suspend, Resume, ForceStreamUpload, triggers | uploader threads |
| Activation and tokens (`auth/*`, `igniteHTTP/*`) | activation state, token, back-off counters | activate, refresh, invalidate, back off | MQTT client, HTTP |
| Session and time stamps (`dam/CSessionStatusHandler`, `CEventTimestampValidationHandler`, `db/CInvalidTimestampEventStore`, `CActivityDelay`) | session id, validity of the clock, events kept until the clock is valid | start / end session, validate, rewrite | event intake |
| Requests from the cloud (`config/CConfigRequestHandler`, `notif/*`, `analytics/*`) | notification queue, configuration | push, dispatch, acknowledge | MQTT client, settings |
| Granularity reduction (`db/CGranularityReductionHandler`) | reduction level, deletion cursor | reduce the oldest rows of a full data base | data base |
| Data base (`libCore/db/CDatabase`, `CDataBaseFacade`) | one SQLite connection, one transaction mutex | query, insert, update, remove, transaction | all of the above |
| Local IPC (`libCore/core/CMessageQueue`, `libDevice` ZMQ) | sockets, subscriptions | send, receive, subscribe | applications of the device |
| Utilities (`libUtils`: `CConcurrentQueue`, `CIgniteThread`, `CIgniteMutex`, files, log, gzip; `libEvent`) | queue, thread and mutex objects | Put / Take, Start / Detach, Lock / Wait | everything |

How an event travels:

    application -> CMessageQueue -> CCacheTransport queue -> chain of handlers
      -> CDBTransport queue -> data base (event, alert or topiced table)
      -> CMQTTUploader -> mosquitto -> broker -> PUBACK -> CMidHandler -> DELETE

Every arrow but the chain of handlers crosses a thread. What makes the parts
correct, and what is hard about it:

- **Upload and MID book-keeping.** A row leaves the table only after the broker
  has it, and no row is left behind with a MID nobody will acknowledge. Hard: the
  acknowledgement may come before the publish is booked; connections and the
  process die with messages under way; message ids start again at 1 for every
  new session while three threads still hold ids of the last one.
- **Shutdown.** A thread stops only after those that feed it, and the device is
  told READY_FOR_SHUTDOWN only after the last one. Hard: the registry is read and
  written by all threads without a lock, threads end and restart by themselves,
  and notifications are not remembered by the waits they should end.
- **Event intake and storage.** Every event ends in the table, in a count of
  ignored events or is given up for a known reason; the queue is bounded; a crash
  costs at most a transaction. Hard: two threads share a byte count without a lock
  and two threads share one connection whose transactions do not nest.
- **Upload control.** What is stored is uploaded in the end; a suspension
  stops the uploads and a shutdown ends them soon. Hard: a wait without a
  predicate, flags that are read once and acted upon later.
- **Session with the broker.** What is shown to the device and the uploaders is the
  state of the connection; a shutdown ends the client's thread wherever it is. Hard:
  the monitor calls into the library and broadcasts a status while the client's thread
  does the same; `mosquitto_loop_forever` reconnects by itself.
- **Activation and tokens.** Credentials in use are those last granted, and events of
  one association are not uploaded under the next; failures back off. Hard: an end of
  the process between two writes of the configuration, or before the END of the transaction
  they joined; events handled while the activation is under way, with a report that has no
  lock; and the cloud that may change its mind at any moment.
- **Message controller, notifications.** A message that was queued is dispatched.
  Hard: again a wait without a predicate.
- **Session, time stamps, granularity reduction.** Rows rewritten by a correction
  of the clock or thinned out by a full data base are neither lost nor doubled.
- **Local IPC.** A slot per connection and a frame per message.

The list of hazards, each with its line and the properties that cover it, is in
`PROJECT.json`; those without a property say there why.

## 2. The modules

| Module | What it is |
|---|---|
| `UploadContract` | abstract: what the uploader promises about rows |
| `StreamUpload` | uploader threads, MidHandler, MQTT client and broker |
| `StreamUpload_proofs` | its types, safety and refinement, proved |
| `StreamUploadOnce_proofs` | that no row is sent twice or forgotten, proved |
| `UploadRequests` | what starts, suspends and ends the uploads |
| `UploadRequests_proofs` | its types, its limits and that no alert is forgotten, proved |
| `MqttSession` | connection, subscriptions, connection status and their end |
| `MqttSession_proofs` | its types and what is shown, proved |
| `Activation` | device id, token, back-off, re- and disassociation |
| `Activation_proofs` | its types and safety, proved |
| `ShutdownContract` | abstract: what the shutdown promises about those it stops |
| `ClientOnOff` | ordered shutdown, with the threads that are stopped |
| `ClientOnOff_proofs` | its types, order, completion and refinement, proved |
| `StoreContract` | abstract: what the ingest path promises about events |
| `EventStore` | event queues, admission, transactions, deletions |
| `EventStore_proofs` | its types and transactions, and the bytes of a queue, proved |
| `EventStorePlace_proofs` | that every event is in one place, its refinement and the limit of the queue, proved |
| `MC*` and `.cfg` | instances for TLC |

In every module an action is a stretch of a thread's code between two points
where another thread can make a difference; `map` in `PROJECT.json` names the
lines of each. The modules meet at named seams: `StreamUpload` takes for granted that an
uploader starts when it can, which is the subject of `UploadRequests`; it opens a
session in one handshake, which `MqttSession` takes apart; `MqttSession` takes a token
for granted, which `Activation` gets; the shutdown of one thread is in its own
module, the order of all in `ClientOnOff`. Definitions introduced by the word *Variant* are not part of a
model: they are plausible errors in the definition after them, kept so that each
property is known to fail when the code is wrong (`mutants` in `PROJECT.json`).

### StreamUpload

| State | Code |
|---|---|
| `db`, `mid` | rows of the event and alert tables and their `COL_MID`; `"streamed"` is a row kept for the batch upload with `COL_STREAM_SUPPORT` 0 |
| `published`, `midTable`, `toDelete` | `m_setPublishedMidSet`, `m_mapMidDBTableMap`, `m_queMidTobeDeleted` |
| `mh`, `cur` | the position of `CMidHandler::Run` and the entry it deletes |
| `net` | the position of `CMQTTClient::Run` / `InitClient`, `loop_forever` and the callbacks |
| `lastMid`, `out` | mosquitto's `last_mid` and its list of messages not acknowledged |
| `acks`, `delivered`, `dup` | wire and broker |
| `upc`, `urows`, `umid` | position, `vecRowIDs` and `nMid` of the event and the alert thread |

The upload of a batch is five actions: `Query`, `Check` (`PublishMessage` reads
`m_bConnected`), `Send` (`mosquitto_publish`), `UpdateMid`, `Book` (`SetMidTable`).
`InitMid` is four (`InitMidClearSet`, `InitMidClearMap`, `InitMidReset` of each
table), since it takes no lock against the other threads. An acknowledgement is one action: mosquitto's
callback runs on the network thread and `ProcessPublishedMid` holds
`m_MapMutex`. `QoS` 1 and 2 differ only in the packets between sending and
acknowledgement, which are one step.

The history variable `hazard` records the ways in which the book-keeping of two
sessions can be mixed: a session began between a publish and its booking
(`late`), or with MIDs still queued for deletion (`stale`), the 16 bit ids came
round (`wrap`), or the reset of the column failed (`init`). `Broken` says that one
of these happened. The properties are about behaviours in which none has yet;
the two that the code provokes by itself, without any failed call, are findings
(section 6). `orphan` records a message whose rows keep MID 0; it makes a second message with the same rows
legitimate and breaks nothing.

### ClientOnOff

`status` is the `eStatus` of a receiver's entry in the two maps of
`CClientOnOff`, `at`, `group`, `todo`, `canNext` and `allDone` the position and the locals of
its thread, `pc` and `flag` a receiver's thread and its
`m_bIsShutdownInitiated`. The monitor's read of an entry (`Look`), its writing
back of the changed copy (`WriteNotified`), its call of `NotifyShutdown`
(`CallNotify`: the flag) and the wake-up (`Broadcast`) are separate steps,
because nothing keeps a receiver from answering in between. Receivers are of
four kinds, given by constants: those with an order and those registered by name
(order 0), those whose wait has no time-out (`Untimed`: `CMidHandler`,
`CCacheTransport`), those that end by themselves (`Ending`), and those created again under the
same name (`Restartable`: `CPeriodicEvents`), whose entry still points at the
first object, since `std::map::insert` replaces nothing. A receiver is `Settled` for the
shutdown when its thread ended, had not registered when the shutdown began, or
came back later.

### EventStore

| State | Code |
|---|---|
| `inq`, `recv`, `hand` | `CCacheTransport`: its queue, the position of `Run`, the event it carries through the handlers |
| `evq`, `sizeInQueue`, `threshold`, `ignored` | `CDBTransport`: its queue, `m_ulEventSizeInQueue`, `m_ulEventInsertThresholdSize`, and the events that `m_nIgnoredEventCnt`, the ignored bytes and start time stand for |
| `writer`, `runSize`, `todo`, `lastSize`, `hadTxn` | position and locals of `CDBTransport::Run` and `ProcessQueueData` |
| `rows`, `durable`, `open`, `owner` | the table as the connection sees it, the table on the disk, whether a transaction is open, the holder of `g_TransactionMutex` |
| `mid`, `doomed`, `midTxn` | `CMidHandler` deleting a row |

`m_ulEventSizeInQueue` is written by two threads with no lock. The build sets no
optimisation level, so every read and write of the field in the source is one in
the program, and each is a step of its own (`Measure`, `NoteIgnored`, `SetSize`,
`ReviseSize`, `RestoreThreshold`). `Begin`, `Statement` and `End` are the rules of the shared connection:
`BEGIN` inside an open transaction fails, a statement joins whatever transaction is
open, a failed `END` (the file is busy) leaves it open and the mutex is released all the
same. A failed `Put` is the one that gave up after ten `TryLock`s.

One thread calls `Send` (`CMessageQueue`). The handlers between the two queues
either pass an event on or refuse it. Events are all of the kind the upload mode
supports, so each gives one row.

### UploadRequests

| State | Code |
|---|---|
| `alert`, `tries` | position of `RequestAlertsUpload`, `nCount` of `ProcessAlertUploads` |
| `event`, `phase` | position of `Run` / `StartEventsUpload`, topiced or other events |
| `alertsAvailable`, `suspended`, `shutdownRequested` | `m_bAlertsAvailable`, `m_bUploadSuspended`, `m_bShutdownRequested` |
| `calling` | the inserting thread and the network thread inside `TriggerAlertsUpload` |
| `reduction` | `CGranularityReductionHandler` between suspend and resume |
| `stopping` | the monitor inside `NotifyShutdown` |
| `pending` | rows of each kind not published yet |

Every test of a flag is a step of its own, since each flag is written by another
thread without a lock. The alert thread's `Wait` has neither predicate nor time-out: `WaitForAlerts`
is the way into it, so that a `Notify` before it is lost, and `WakeAlert` is a wake-up
nobody asked for. The event thread's waits all have a time-out and so may end at any
moment. Rows are only counted here, a batch is one step, and it fails or is
published; how it is booked is in `StreamUpload`. `passes` and `late` are histories:
rounds begun since the suspension, batches published since the request to shut down.

### MqttSession

| State | Code |
|---|---|
| `at` | position of `CMQTTClient::Run`, `InitClient`, `mosquitto_loop_forever` and the callbacks |
| `services`, `toSubscribe`, `acked` | `m_mapFeaturesTopicMap`, `m_nNoOfTopicsToSubscribe`, `m_nNoOfTopicSubAckRcvd` |
| `connected`, `stopReq`, `shutdown` | `m_bConnected`, `m_bStopClientReq`, `m_bIsShutDownInitiated` |
| `shown`, `telling` | `m_eLastBroadcasted` and each thread's place in the broadcast |
| `mon` | the monitor in `NotifyShutdown` |
| `request`, `socket`, `bye` | the library: `request_disconnect`, its socket, a DISCONNECT to be written |
| `asked`, `unanswered` | what the broker has still to answer |
| `told` | the last status the device was sent |

A broadcast tests and writes the last status, reads it again for the payload, and
delivers it: three steps of either thread (`Broadcast`, `ReadStatus`, `DeliverStatus`).
`missed` notes that `disconnect()` came between the last check of `loop_forever` and its
dialling, `crossed` that the monitor read a status the client's thread had just
written; both are windows of the code, named so that the properties can say what
holds outside of them.

### Activation

| State | Code |
|---|---|
| `conf` | rows of the local configuration, each written on its own, and whose events the tables hold (`rows`) |
| `disk`, `open` | the same as it is on the disk; whether a transaction is open on the connection |
| `token`, `expired` | `m_strToken`, its time to live |
| `at`, `caller` | position of the MQTT client's thread in `GetToken`, `Activate`, `GetAuthToken`, and who called `Activate` |
| `active`, `reason`, `reporting` | `CActivationState`, and each thread's call of `SetActivationState` |
| `state`, `attempts`, `kick`, `lastError`, `increment` | `CActivationBackoff` and its state object |
| `handling`, `event` | the disassociation handler on either thread, the back-off's event handler |
| `owner`, `net`, `vin` | the cloud's association of this vehicle, the network, the VIN |
| `began`, `hazard`, `crossed` | history, for the exceptions of the properties |

A device id stands for the credentials and the token granted with it.

*The configuration is on the shared connection.* `CLocalConfig::Set` takes no
`g_TransactionMutex`, so its write joins the transaction that a thread which inserts or
deletes events has open (`Write`; the same rule as in `EventStore`). An end of the process
before the END takes it back: a crash, and also `RestartAnalytics`, which closes the
connection with a bare `sqlite3_close` (`ProcessEnds`). The next start (`InitClient`)
clears the tables when the flag of the disassociation is set. `Windows` names the two
places where the rest of a half written store would be missed: from `SetLastDeviceId` to
`SetDisassociated` (`ownerKept`), and around the write of the status (`statusLost`).
`hazard` notes that an end of the process went back to such a place, because it fell there
or because the transaction it took back began there: a rollback reaches the same store as
a crash at the BEGIN would have.

*`SetActivationState` has no lock.* It tests, sends an event, and writes the reason and the
state: `Report`, `WriteReason` and `WriteState`, steps of either thread. `crossed` notes that
an event's call was past its test when the login made its own. The states of the back-off
report from their constructors, with `m_StateMutex` held, which `MutexFree` says.

*Time is told when it is looked at.* Where `CheckIfProceed` looks at the clock it is before
the next time of the state (`TooEarly`) or past it (`TimeReached`).

## 3. The runs

| Run | Module, cfg | Question | Answer |
|---|---|---|---|
| `upload_faults` | `MCStreamUpload_faults` | both threads, every call that can fail failing, a loss or crash: at-least-once, no needless repetition, no row in two messages, `UploadContract` implemented | holds |
| `upload_live` | `..._live` | no row is stuck with a MID, every stored row is delivered in the end | holds |
| `upload_stale` | `..._stale` | do deletions queued in the last session harm the next? | yes (finding) |
| `requests` | `MCUploadRequests_suspend` | does a suspension suspend, is a shutdown brief, and is every stored alert known to somebody? | holds |
| `requests_live` | `..._live` | is every row published in the end, and does a shutdown end both threads? | holds |
| `session` | `MCMqttSession_stop` | is a connection shown as complete one, is the last word true, does a shutdown end the thread, and does a session become complete? | holds |
| `activation` | `MCActivation_faults` | whose events are uploaded, what is shown, how many attempts are made, does the device come back? | holds |
| `activation_network` | `..._network` | do errors of the network spare the back-off? | no (finding) |
| `shutdown` | `MCClientOnOff_shutdown` | each told once, in order, completion not early, `ShutdownContract` implemented, and completion reached but for the two known races | holds |
| `shutdown_wakeup` | `..._wakeup` | does the shutdown always complete? | no (finding) |
| `store_faults` | `MCEventStore_faults` | each event in one place, a transaction at risk at most, the queue within its limit and its size true, `StoreContract` implemented, every event at rest in the end | holds |
| `store_size` | `..._size` | is the shared byte count a size of the queue? | no (finding) |

The properties worth knowing, and what each would mean for the device:

- `NoLoss`, `SafeBooking`: no data is deleted that the cloud does not have.
- `OnlyLossesRepeat`, `NoRowInFlightTwice`: data is not uploaded twice but for
  losses of a connection or a failed `update_mid`.
- `NoMarkLost`: no row is invisible to the queries with nobody to reset it.
- `OrderKept`, `CompleteMeansEnded`: consumers outlive their producers, and power
  is not cut while a thread is still working.
- `StopsInOrder`: the same as one behaviour, and that nobody goes back to work once the shutdown
  has begun, whatever answers are lost and whoever registers late.
- `Accounted`: an event sits in exactly one queue, hand, row, count or list of
  losses - in particular the record of ignored events never counts one twice.
- `AtMostOneTxnAtRisk`: `MaxInTxn` rows are the most a power cut can cost.
- `AdmitsWithinLimit`: the admission keeps the queue below its limit whenever
  the writer does not change the shared size between its measuring and its use.
- `SizeTellsEmpty`: the size by which `CDBTransport::Run` decides that there is nothing to insert
  never says so of a queue with something in it.
- `Stores`: order of storage, and no event comes back once it was given up.
- `SuspensionHolds`: after a suspension each thread begins the one round it had
  decided on, two if the shutdown ends its wait, and no further one until the resume.
- `ShutdownIsBrief`: at most one batch of each kind is published after the request to
  shut down, also by the alert thread, which nobody waits for.
- `NoAlertForgotten`: the flag, cleared before the query and set after the insertion by
  another thread, never says that there is nothing while alerts wait for a connected client, but for
  a round whose every try has failed.
- `AllUploaded`, `EndsOnShutdown`: the flags and the notification together forget no
  row and keep no thread, but for an alert thread that overslept.
- `CompleteIsReal`: acknowledgements of an earlier connection never complete this one.
- `LastWord`: the device is not left with the belief that the client is connected.
- `StopEnds`: a shutdown ends the client's thread wherever it is, but in one window.
- `NoForeignRows`: one owner's events are not uploaded for the next owner.
- `StatusShown`, `UpIsActive`: what the applications are told about the activation is
  right while the device is connected.
- `AttemptsBounded`, `ComesBack`: the back-off limits the attempts and yet leaves no
  associated device out for ever.

### Bounds

Every bound is a constant.

- `StreamUpload`: two rows, one per table, so that each thread has one, and the second also kept
  for the batch upload; one loss or crash (`MaxBreak`); four or five message ids (`MaxMid`): with one
  topic id per connection they allow all publishes of both rows on both sides of a loss, and coming round
  as well. `BatchSize` 1 makes two messages of two rows, `BatchSize` 2 one, which `upload_stale` uses. The
  state constraint `Intact` (`~Broken`) stops a behaviour when the book-keeping is
  disturbed, since the properties speak of what is before; the violation run has no constraint.
  `NoMarkLost` speaks of behaviours in which `Put` and the deletion do not fail, so it is in
  `upload_live`, where no call does; in `upload_faults` all of them may.
- `UploadRequests`: two rows of any kinds with batches of one, so that a batch can be full and
  followed by another; two tries of the alert thread; one reduction, loss and failed batch each. One row
  for the liveness run.
- `MqttSession`: up to two topics beside the fixed one, four refused, lost or undialled
  connections. Connections are alike, so a second one already shows what is left over from
  a first.
- `Activation`: two device ids, a limit of one attempt in each state, no ignition needed to
  pass the threshold, one change of the association, and one fault. A fault is a loss of
  the network or of a session, an error of the server, an expiry, a crash, or a
  transaction that an end of the process may take back; the end itself is then free. Transactions
  that no end takes back need no BEGIN: what is written in them is as good as durable. So one fault
  allows a re-association with its restart rolled back, or with a crash in it, and a failed
  login after it; the safety properties and the parts of the inductive invariant were also checked
  once with two. Devices are alike, so the run begins with the same one (`MCSpec`).
- `ClientOnOff`: three receivers in two orders and by name, one of each kind, two lives of the
  one that restarts.
- `EventStore`: three events, of one and two bytes, one of them not an Ignite event, a limit of three
  bytes and a window of one, so that the second or third event can be over the limit
  and be counted, and a transaction of two rows can be full; two failures or crashes. `Word` is
  small in the passing run to let the wrap-around happen in few steps; in `store_size` it is
  larger than every sum of the instance.

`CHECK_DEADLOCK FALSE` stands in the runs of `ClientOnOff`, `EventStore`, `MqttSession` and
`UploadRequests`: after a shutdown every thread has ended, and without one a store that got
all its events rests.

### Fairness

- `StreamUpload`: weak fairness of each uploader thread, of the deleting thread,
  the network thread and the broker - the scheduler runs a runnable thread and
  the broker answers. Strong fairness of `Connect` and `Connack`: the connection is attempted
  for ever, and the link is stable in the end (losses are bounded by `MaxBreak`).
  A spurious wake-up and a failure are never required.
- `ClientOnOff`: weak fairness of the monitor and of each receiver's own steps. New
  work, a thread that ends by itself, a restart and the request for the shutdown
  are not.
- `EventStore`: weak fairness of the three threads. Sending, acknowledging, the
  shutdown and spurious wake-ups are not.
- `UploadRequests`: weak fairness of both threads, of those inside `TriggerAlertsUpload` and
  `NotifyShutdown`, of the end of a reduction and of `Connect`, which the MQTT client attempts
  for ever. Rows to store, losses, reductions and spurious wake-ups are not.
- `MqttSession`: weak fairness of the client's thread, of the monitor once it began, of
  the broker's answers and of the writing of a DISCONNECT. That a connection is lost or a
  shutdown requested is not, so `StopEnds` cannot rest on a loss that ends the loop.
- `Activation`: weak fairness of the client's thread, of that of the back-off's events, of the END of a
  transaction, of the disassociation handler and of the start of the process (`RestartAnalytics` ends it
  with a code and counts on being started again); the network comes back, the VIN is read, and the
  broker ends the session of a vehicle that is no longer its device's. Strong fairness of `TimeReached`:
  the client looks again and again, and its looks do not move the next time, which only
  attempts and changes of the state do. An ignition run at every look would; that is the
  exception of `ComesBack`. Events, crashes, transactions, expiries and changes of the association are
  not required.

## 4. What is proved

TLAPS checks every theorem below for every value of the constants that satisfies
the `ASSUME`s of the module. They ask for little: finite tables of rows, batch and
transaction sizes that are not zero, fewer topics than message ids, a window
smaller than the limit, orders in their range.

**StreamUpload.** `TypeCorrect` and `MidOnePlace`: the types and `MidInOnePlace`
are inductive together. `BookingSafe` proves `SafeBooking`, the strengthening of `NoLoss`.
`NoLoss` alone is not inductive: whether a deletion is right depends on what the queue of
deletions says, and that on every acknowledgement since. `SafeBooking` follows the
data back: the ids in use are distinct and were handed out (`FreshMids`), a row with
a MID is delivered or in the message of that MID (`Carried`), an id that is
acknowledged - on the wire, in the set or in the queue - speaks only of delivered
rows (`AckSound`), and a session starts with nothing booked or queued
(`QuietStart`). `NothingLost` is the conclusion. `Implements` proves `Refines`: the
initial states map to those of `UploadContract` and every step to one of its steps or
a stutter, deletions being the case that needs `SafeBooking`.

`StreamUploadOnce_proofs` adds what concerns repetition, while nothing is disturbed. `OneMessagePerRow`
(`NoRowInFlightTwice`): a row in a message carries the id of that message or its thread is about to
mark it (`Marks`), a batch in hand is still to be sent (`InHand`) and nothing that
was acknowledged is still out (`OutSound`); ids are distinct, so two messages cannot share a
row. `NoNeedlessRepeat` (`OnlyLossesRepeat`): until the first loss a delivered row still carries its
mark or has left the upload (`FirstTime`). `NoRowForgotten` (`NoMarkLost`): every
mark is tracked by a message under way, by a thread about to book it or by an entry of the queue of
deletions (`Tracked`), provided `Put` and the deletion do not fail; the reset of the columns when a session
begins is what disposes of the marks of the last.

**ClientOnOff.** `TypeCorrect`, then `InvCorrect` for `ShutdownInv`, whose parts say
that an answer in the registry is true, that a flag is set only for an entry once
notified, that behind the walk over the orders everyone is settled
(`BehindSettled`) and likewise behind the final check. `NotifyOnce`, `OrderSafe`
and `CompleteSafe` follow, for any receivers, orders and interleaving: a lost answer
delays the shutdown but never makes it early. `ImplementsShutdown` (`StopsInOrder`) maps the whole to
`ShutdownContract`: at work is who is not settled, told is who has the flag set, being told is who
is called. `ThreadMoves` and `MonitorMoves` do so step by step; the step to the call of
`NotifyShutdown` needs `FlagNotified` and `BehindSettled`, the end needs `CheckedSettled`, and a
registration during the shutdown maps to a stutter since it is not waited for.
`WaitExcused` is the safety half of `Completes`: whoever's entry is NOTIFIED was told (`NotifiedIsTold`), so
that only a lost answer or a lost wake-up leaves the monitor waiting for a thread that sleeps or is gone.

**EventStore.** `TypeCorrect`; `TxnCorrect` for `TxnInv` - the owner of the mutex is the
thread whose `BEGIN` worked, a thread whose `BEGIN` failed works inside a transaction nobody
will end, and the rows at risk plus the insertions left stay within the
maximum; `AtRisk`, its consequence for a crash. `EventStorePlace_proofs` builds four things on them:

- *Where every event is.* `NothingTwiceOrGone` (`Accounted`), with `PlaceInv`: an event that was sent is
  in exactly one of the eight places, once in its queue and in one row, one not yet sent
  in none, and what an open transaction took from the table was deleted, not
  rolled back. Every step moves an event from one place to another.
- *The contract.* `ImplementsStore` (`Stores`). Two further inductive invariants are needed. `Kinds`:
  an entry is one event or a record of ignored ones, never both. `OrderInv`: both queues rise, and
  what is ahead in the pipe - the event in hand, the second queue - came before what is behind it.
  `FateCases` then says of each value of the refinement mapping in which places
  its event is, and one lemma per kind of step (`EnterStep`, `IgnoreStep`, `InsertMoves`,
  `CommitStep`, `DeleteMoves`, `CrashMoves`) names the step of the contract. A commit is where
  the order matters: what becomes durable is all that is ahead of what does not. `DiskInOrder` and
  `GoneForGood` are consequences of the contract alone: nothing on the disk has overtaken an event that may
  still get there, and what was given up, or uploaded and deleted, does not come back.
- *The bytes.* `NoEntryOverlooked` (`SizeTellsEmpty`) and `LimitKept` (`AdmitsWithinLimit`). The size that
  `CConcurrentQueue` keeps is a sum over its entries, modulo the word. That it is the real sum is shown without
  an induction over the sequence: `Counts` says that prefix sums *exist* that end in the size
  (`Sums`), and each `Put` and `Take` gives the new sums from the old (`CountAdded`,
  `CountTaken`). Events that are not Ignite events pass the limit of the queue, so nothing in the code
  keeps the sum below the word; memory does. These theorems therefore have the hypothesis
  `[]Addressable`: the bytes queued and those of the event in hand, at once, are fewer than a word can
  address - not those of all events ever sent. `AdmitInv` carries what `Run` measured to where it
  is used: unless the writer has written in between (`raced`), the shared size is
  the queue's or more than it, since the writer only takes.
- *Rest.* `SilenceIsRest`, from the places, the transactions and the size: when no thread has anything
  to do (`Idle`), every event that `Send` took is at rest, but for the exceptions `Settles` names. It has the
  hypothesis `[]Addressable` too, since the writer is idle by the size and not by the entries.

**UploadRequests.** `Invariance` for types, `BriefInv`, `AlertInv` and `EventInv`: where a thread may
still publish a batch after the request to shut down it has not done so yet, and where it may
still begin a round it has begun one less than the limit. `ShutdownBrief` and
`SuspensionLimitsRounds` follow, for any number of rows, tries and reductions and any batch size.
`AlertsKnown` (`NoAlertForgotten`) is inductive with the types: only `ClearAlerts` takes the flag down,
and it begins a round; whatever is stored or connected during that round is announced by its own
thread. `SleepExcused` concludes that the alert thread sleeps over stored alerts only when it overslept or
somebody is about to wake it. That is the safety half of `AllUploaded`.

**MqttSession.** `Invariance` for types, `SessionInv` (a session is an open socket and a count of
acknowledgements that adds up), `ShownInv` (what is shown in and outside of one) and `ToldInv` (what
is on its way to the device). `ShownCompleteIsReal` and `LastWordIsNoConnection` follow, for any
number of topics and failures.

**Activation.** `Typed`, then an invariant proved part by part, each from those before
it. Six lemmas first say which steps touch which variables at all (`StoreKept` and its like).

- *What is reported.* `Positions`: where the thread can be with which credentials.
  `Quiet`: no state of the back-off that an event finds after the activation has attempts or a count that would
  change it, so that no new call of `SetActivationState(false, ...)` begins. `Reported`: after the
  success the report is true, or a call that will make it so is pending, or one of the other
  thread was under way (`crossed`); with the test of `SetActivationState` apart from its writes the
  report alone is not inductive. `Counted` is the count of the attempts.
- *What is stored.* `Durable`: without an open transaction the disk is the configuration. `Leaving`: a
  restart under way. `StatusInv` and `RowsInv` say the same twice, of the configuration and,
  while a transaction is open, of the disk with `began` in the place of `hazard`: the end of
  the process then turns the second into the first.

`RowsAreOwn`, `StatusIsShown`, `UpReportsActive` and `AttemptsLimited` follow, for any devices, limits,
faults and changes of the association.

## 5. What is only model-checked

The liveness properties, under fairness: `EventuallyDelivered`, `AllUploaded`, `EndsOnShutdown`,
`StopEnds`, `Completes` (of the session and of the shutdown), `ComesBack`, `Settles`. Liveness under
fairness is beyond the provers used; `SleepExcused`, `SilenceIsRest` and `WaitExcused` prove of
`AllUploaded`, `Settles` and the `Completes` of the shutdown what a state can say: that nobody rests with
work left but for the reasons the property names. Every safety property of a passing run, and the refinements of
the three contracts, are proved; the two properties of the size of the queue with the hypothesis
about memory of section 4.

## 6. Where the code and its comments disagree

1. `upload_stale`: `InitMid` clears the set and the map of MIDs "to avoid clearing of
   valid packets in next connection" but not the queue of deletions; ids start at 1
   again, and an old entry deletes rows of the new session.
2. `shutdown_wakeup`: `CMidHandler::Run` (and `CCacheTransport::Run`) check the flag and
   wait later with no predicate and no time-out; a broadcast in between is lost and the
   shutdown never completes.
3. `store_size`: the byte count shared by the two threads of `CDBTransport` is set and
   reduced in two statements; with a write in between it wraps below zero.
4. `activation_network`: "Do not initiate backoff for network related errors", says
   `auth/CActivationBackoff.cpp:182`, but its only caller has replaced every error of the
   network by `eERR_RESPONSE_DATA` before (`auth/CTokenManager.cpp:535`), so a
   request that never left the device is an attempt.

Observations that have no run. Where a property needs an exception for one of them, it
names it.

- *Upload.* A publish booked after `InitMid` marks rows with an id of the last session, which an
  acknowledgement of the new session then deletes (the hazard `late`). After a re-initialisation alerts whose
  acknowledgement was lost are sent again, which `net/CIgniteMQTTClient.cpp:306` means to avoid. Uploads go
  on while the data base is reduced: the loops over batches do not look at `m_bUploadSuspended`
  (the reduction sleeps five seconds first). `NotifyShutdown` says "Postpone upload a bit to let all the
  pending events make it to the DB before shutdown" (`upload/CMQTTUploader.cpp:976-978`), but nothing is
  postponed. The alert thread may miss the notice of the shutdown and sleep on; nobody
  waits for it.
- *Session.* A `disconnect()` between the last check of `loop_forever` and its dialling is forgotten, and the
  shutdown waits for as long as that connection lasts (`missed`). TEARING_DOWN may be overwritten
  before it is sent (`crossed`). A SUBACK that refuses the subscription (128) counts as an
  acknowledgement, and a failed `Subscribe` is ignored, so that COMPLETE is never reached.
- *Activation.* `GetToken` returns `eERR_OK` with an empty or expired token after a login that failed for
  other reasons than 400 and 401, or an activation that was rejected; `UpIsActive` makes an exception for it.
  Attempts that are late come in a burst, as the next time is counted from the last. The persisted
  status stays "activated" when the credentials are dropped. An ignition run replaces the state
  object and its next time, so that runs at every attempt postpone it; `ComesBack` leaves
  these aside. The configuration is written without the mutex of the transactions and closed
  without an END: a crash between the new device id and the flag of the disassociation, or an orderly
  restart that takes back a transaction begun there, leaves the tables to the next owner. A crash before the
  status, or before the END of the transaction it was written in, leaves an activated device that says it is
  not (`hazard`; `NoForeignRows` and `StatusShown` leave these aside). An event that found the device
  not activated and is inside `SetActivationState` during the login writes "not active" afterwards, and
  nothing corrects it as long as the token is used (`crossed` of `UpIsActive`).
- *Shutdown.* The monitor writes back a copy of an entry and overwrites the answer of a thread that
  ended meanwhile; it then waits for it for ever. "Replacing it" is logged on a second
  registration, which replaces nothing.
- *Store.* `Send` returns true though `Put` failed. The threshold may stay low on an empty queue until the next
  insertion. The record of ignored events and non-Ignite events go over the queue's limit. Events
  still queued at the shutdown are lost with the process. `CDatabase::ClearTables` takes the result
  code of `EndTransaction`, 0 on success, for a truth value.

## 7. What is not modelled

Inside the modelled parts:

- The topics of topiced rows (`UploadRequests` counts them as rows of a kind of their own), corrupted
  rows, the packets of QoS 2, packets of the old connection that arrive after a new
  one, publishes other than uploads.
- `ForceUpload`, which only a test calls; the periods of the event thread; the names of the
  topics, the TLS options and the messages received.
- The contents of the requests of the activation, its time stamp, the replies to queries of the status;
  the back-off when it is switched off (`IsEnable`), which lets every attempt through; a statement on the
  configuration that fails, whose result nobody looks at
  (`analytics/CDisassociationRequestHandler.cpp:71`). `IncrementIgnitionCount` reads the flag an event
  sets and clears it again without a lock; the model does it in one step, so a run noted in between,
  which the code may forget to count, is counted. The count is saturated above the threshold.
- `UploadRequests` looks at the connection before every batch, the code only on entry
  (`upload/CMQTTUploader.cpp:532`, `:735`): the publishes of a round that goes on without one fail in
  the code and are not attempted in the model.
- The data race on the registry's `std::map` itself: entries are read and written whole. The
  order of the receivers within a group is left open. `NotifyShutdown` on a
  deleted `CPeriodicEvents` object has no effect.
- Sleeps: they order nothing. Time-outs may end a wait at any moment.
- `PurgeDB` and the reduction of granularity; the data base never fills. The second
  condition of `Send`, a shutdown flag, cannot be set while its caller lives, by the order of
  `ClientOnOff`.
- `unsigned int` and `unsigned long` counters share one width (`Word`).

Components with no module: see `components` in `PROJECT.json`. Cryptography,
device information, formats, files, compression and logging are I/O or pure
functions of one call and are left out for good.

The mapped lines are a small share of the repository's. Most of its lines are no logic of the device
client: the vendored googletest and jsoncpp, the headers of mosquitto, simulators and tests; and most of the
client's own are parsing, formatting, configuration look-ups, logging and comments around
the control that is modelled.

## 8. Plan

Done, in this order: `UploadContract`, `StreamUpload`; `ClientOnOff`; `StoreContract`, `EventStore`;
`Activation`; `MqttSession`; `UploadRequests`; `ShutdownContract`; each with the proofs of its types and
all its safety properties, and the refinements of the three contracts.

What could follow, one module and one run for each:

1. `TopicUpload`: the topiced table and unreachable topics, added beside `StreamUpload`: a row
   that cannot be published never leaves the first batch.
2. `LocalIPC`: slots and framing of `CMessageQueue`.
3. `ClockStore`: session and time-stamp handlers and the store of events with an invalid time.
4. `Reduction`: `PurgeDB` and the granularity reduction over a full table.
5. The state properties on which the other liveness properties rest - `EventuallyDelivered`, `StopEnds`,
   `ComesBack` - as was done for `AllUploaded`, `Settles` and the shutdown's `Completes`.

Runs are few on purpose: each module gets one passing run, a second one where liveness needs
a smaller instance, and a violation run only for a disagreement between the code and what
it says of itself.
