# A verification of ZeSenseServer

ZeSenseServer publishes the sensors of an Android device as CoAP resources.  This
directory holds TLA+ models of it, the TLC configurations that check them on small
instances, and proofs, checked by TLAPS, that the main results hold for every size.
Paths are relative to `src/`.

## 1. The system

The process runs two threads and, for some sensors, a third kind.

| component | state | operations | interacts with |
|---|---|---|---|
| CoAP server thread (`ze_coap_server_core.c`) with its resources (`ze_coap_resources.c`), on top of libcoap | registrations (owner, references, failures, validity), confirmable messages under way, asynchronous transactions | retransmit, read and dispatch one message, fetch `SMREQ_RATIO` responses | puts requests, gets responses |
| Streaming Manager (`ze_streaming_manager.c`) | per sensor: streams, one-shots, activity, cached sample, frequency | handle one request, look `QUEUE_REQ_RATIO` times for a sample | gets requests, puts responses, turns sensors on and off |
| request buffer (`ze_sm_reqbuf.c`) | ring of `SM_RBUF_SIZE` | put (waits while full), get (never waits) | CoAP thread to Streaming Manager |
| response buffer (`ze_sm_resbuf.c`) | ring of `COAP_RBUF_SIZE` | put (waits at most two seconds), get | Streaming Manager to CoAP thread |
| carriers queue (`ze_carriers_queue.c`) | unbounded list of samples | append, take the head | carriers to Streaming Manager |
| carrier threads (`ze_carrier.c`) | `carrier_thread_started`, the period | repeat the cached sample of an event based sensor while it is on | read the sensor the Streaming Manager writes |
| server root (`ze_coap_server_root.c`) | `globalexit` | start and join the two threads | both threads |
| payloads, sender reports, timing (`ze_coap_payload.h`, `ze_timing.c`) | timestamps of each stream | encode a sample, form a sender report | called by both threads |
| `ze_rtp_server_core.c`, `ze_coap_server_example.c`, `senml.h` | | | not built by `Android.mk` |

The currency between the two threads is the **ticket**.  A client that observes a
resource gets a *registration*; its address, with a counted reference, goes to the
Streaming Manager inside a START request.  The Streaming Manager never looks behind
it.  It attaches it to each update, and gives it back, in STREAM_STOPPED, when the
stream ends or is replaced.  The CoAP thread then releases the reference, and frees
the registration with the last one.  A plain GET uses the identifier of an
asynchronous transaction as its ticket.  Updates carry a ticket without a reference
of their own.

What is hard here, and where no test of the repository looks:

- **reference counts carried by messages**: two queues, a list of streams and the
  confirmable messages of libcoap all hold references; a client may register again,
  fail to acknowledge, be unregistered twice, and its address may be used again
  while an old STOP is still on its way;
- **two bounded buffers between two threads**, both of which may be full: the puts
  then wait for each other, and a timeout is what gets over it;
- **the ring buffers' waits**: a put that waited inserts without looking again, a wait may
  end without a signal, and signal, timeout and the mutex come back in any order;
- **sensors shared by streams and one-shots**, turned off by whichever ends last,
  with samples left in the queues, and with failures that the callers ignore;
- **a start/stop race with the carrier threads**, an unlimited queue, and periods
  and rates that may be zero;
- **shutdown**, with puts that do not look at `globalexit`;
- **clocks and counters**: a sender report is computed from the packet sent last, in an
  `int` of nanoseconds, while packets wait in a buffer that may be full.

`PROJECT.json` lists each of these, at its line, under `hazards`.

## 2. The modules

| module | models |
|---|---|
| `BoundedFifo` | what a buffer promises: a bounded queue, a producer held while it is full, possibly giving up; overrun only after a stray wake-up |
| `SmReqBuf`, `SmResBuf` | the two rings, one action per critical section |
| `Tickets` | the messages, and the two buffers as bounded queues |
| `CoapServer` | the CoAP thread, and libcoap as it is used |
| `StreamingManager` | the Streaming Manager's thread, the two queues of samples |
| `ZeSense` | both, composed with the sensors and the carriers; the properties of the whole; the fairness |
| `Observation` | what the server promises to its clients: requests that take effect at once |
| `MCZeSense` | symmetry for model checking |
| `SampleFlow` | the data of one sensor's streams: sample, time stamps, buffer, notification, sender report |
| `Shutdown` | `globalexit`, the ends of the threads, the joins, what is freed |
| `QueueLemmas`, `SmReqBuf_proofs`, `SmResBuf_proofs` | proofs about the buffers |
| `ZeSenseTypes`, `ZeSense_proofs` | proofs about the composed system |
| `Observation_proofs` | that it implements `Observation` |
| `SampleFlow_proofs`, `Shutdown_proofs` | proofs about these two |

The two levels meet at the buffers.  `SmReqBuf` and `SmResBuf` translate the C rings
and are shown to implement `BoundedFifo`; the rest uses the buffers as such queues, as they
are before the first stray wake-up: never longer than their size.  So what `ZeSense`,
`SampleFlow` and `Shutdown` show holds as long as no wait on a full buffer ends without a signal;
after one that does, a START, a STOP or a STREAM_STOPPED may be lost and another one handled
twice, and nothing is claimed.
One thing differs: in `ZeSense` a held put of the CoAP thread is the non-empty `todo`
before a full buffer, not a state of the buffer, which comes to the same.

`SampleFlow` and `Shutdown` look at the same two threads from another side.  Each keeps
the control that its questions need and abstracts the rest: `SampleFlow` leaves references
and lifetimes to `ZeSense` and keeps numbers and clocks; `Shutdown` keeps only how many
items a buffer has.

### The rings

`rbuf`, `gethere`, `puthere` and `counter` are the C fields; `pc` says where the
producer is: outside, waiting on the condition variable (where alone it gives the
mutex up), or woken and not yet in possession of the mutex.  `PutWait` and `PutWoken`
are the two halves of a put that waits.  In `SmResBuf`, `Timeout` is the two seconds
running out, and `PutTimedOut` what happens then, which depends on nothing but
`ETIMEDOUT`.

`StrayWakeUp` is the return of `pthread_cond_wait`, or a 0 from `pthread_cond_timedwait`, without
a signal, which POSIX allows.  Both puts guard their wait with `if`, so the put then inserts into a
full ring and overwrites the oldest unread item; the counter exceeds the size, and the getter finds the new item
in two places.  `strays` counts such returns.  The run `overrun` shows the case against the comment in the
code (section 5).  The other properties say what is left: a ring is overrun by no more items than
there were strays (`NoOverrun`), and it implements a `BoundedFifo` whose `Overrun` step is
possible only then and does to the queue exactly what the ring does to its slots (`Overwritten`).

### The CoAP thread

`cpc` goes through the stages of the loop: retransmissions (`GiveUp`, `Retransmitted`),
one message from the network (`Network`), `SMREQ_RATIO` fetches (`Serve`).  No other
thread reads or writes a registration, so each handler is one step, with one
exception: a handler that puts requests leaves them in `todo`, and `PutRequest` moves
them one by one, waiting while the buffer is full.  Until `todo` is empty the thread
does nothing else, which is how the code behaves inside `put_request_buf_item`.

| action | code |
|---|---|
| `ObserveGet`, `PlainGet` | the two halves of `generic_GET_handler`, the second with `generic_on_unregister` |
| `GiveUp` | `coap_retransmit` once the retransmissions are used up, with its call of `on_unregister` |
| `Acknowledged` | an acknowledgement, which ends the transaction and its reference |
| `ServeStopped`, `ServeOneshot`, `ServeUpdate` | the three kinds of response in the thread's loop |

libcoap is not under `src/`.  It is modelled from how it is used, with its unknowns
left open: `FindsInvalid` says whether a lookup may return an invalid registration, and
an acknowledgement may or may not forgive earlier failures.  A registration that is
freed is `Free`, and its address may be handed out again, as `malloc` may.

### The Streaming Manager

`turn` is the place in the loop.  Requests and samples are handled in one step; the
responses go to `out`, and `PutResponse` moves them one by one, one-shots first.
`WaitForRoom` and `Defer` are `put_response_helper`: it finds the buffer full, waits,
and after the timeout takes a request to make room for the CoAP thread.  The code
appends that request to a list whose head is its own parameter, so the model drops it.
`crashed` is the null pointer of `sm_stop_stream`.

`Activate` and `TurnOff` are `android_sensor_activate` and `android_sensor_turnoff`.  With
`SensorsFail` either may fail, as in the code: the sensor stays off (the device has none, line
1136), or comes on without its carrier thread (1119, 1128), or stays on with its cache as it is
(1212); the callers go on in each case.  For a sensor without a handle the code passes a null
pointer to Android, which is taken to answer with an error.
The answers to the one-shots of a sample are put before the sensor is turned off (413, 421), and the thread
may be held meanwhile: `closing` is the sensor that is to be turned off with the last of
them.

`Sample` is Android delivering a sample to the queue.  What a sample carries, with its time
stamps, the frequencies and the packets, is the subject of `SampleFlow`.

### The carrier threads

`carrier[s]` is where the carrier thread of an event based sensor is: before its look at
`is_active` (`looks`), before its look at `cache_valid` (`reads`), about to append the
cached sample to the carriers' queue (`puts`), or out of its loop but with
`carrier_thread_started` still to be cleared (`leaves`).  `none` is the flag at 0.  One
variable is enough, since a thread is created only while the flag is 0 and only the thread
clears it.  Nothing locks these reads in the code, so the Streaming Manager's steps come
between any two of them.  `Activate` creates the thread; `EnsureActive` is how a START
calls it, only for a sensor that is off, whereas a one-shot always calls it.

### What the clients see (`Observation`)

`Observation` has no threads, queues or references.  It knows who owns each observation, which
ones are valid, which streams are owed (`streamed`), how many notifications are unconfirmed
and which plain requests await an answer.  `Observe` and `Ask` (the two kinds of GET) change
observation and stream in one step.  `Forget` frees a name only when it is cancelled and no stream,
no confirmation and no answer for it is left.  `Lose` is the one thing that a timeout may do.

`ZeSense` is shown to implement it (`Observed`, `ImplementsObservation`) under this mapping:

| here | in the server |
|---|---|
| `owner`, `valid` | the registrations (`Owners`, `ValidRegs`) |
| `streamed` | the streams there would be once the Streaming Manager has handled every START and STOP in the request buffer and in `todo`, in their order (`WillStream`) |
| `unconfirmed`, `awaited` | `trans`, `async` |
| `MayRevive`, `MayLose` | `FindsInvalid`, `MayTimeOut` |

| step of the server | step of `Observation` |
|---|---|
| `ObserveGet`, `PlainGet` | `Observe`, `Ask`: the START or the STOP is put later, and handled later still |
| `ServeUpdate` | `Notify`, or nothing when the client has failed too often |
| `ServeOneshot` | `Reply` |
| `Acknowledged`, `GiveUp` | `Conclude`, with `Cancel` if the failures are too many, and `Forget` if the reference was the last |
| `ServeStopped` | `Settle`, if the reference was the last, otherwise nothing |
| `Defer` of a START or STOP | `Lose`, if it would have made a difference |
| every other step | nothing |

`OneStreamEach` is what this comes to for the clients: one valid observation of a sensor each,
a stream for each of these, and no stream for anybody else.  With `FindsInvalid` a client may be
handed a registration that is invalid, which then has a stream and stays invalid; and after a
lost request nothing is promised but that streams keep to registrations in use and to their sensor.

### The data path (`SampleFlow`)

One sensor, event based or continuous, which the device may lack (`present`), and
registrations that stream from it.

| action | code |
|---|---|
| `StartStream`, `StopStream`, `Oneshot` | `sm_start_stream`, `sm_stop_stream` and the one-shot, with the frequency of the sensor and a stream's first timestamp; `TurnOff` is `android_sensor_turnoff`, which may fail |
| `Sample`, `Repeat` | Android delivering; the carrier thread repeating the cached sample and sleeping for `Period`; a sensor turned on again may have a new carrier, which does not wait (`Awaken`) |
| `LookAtSamples`, `LookAtCarriers` | the two queues: `Deliver` answers the one-shots, and stamps and encodes the sample for each stream (`Stamp`, `Encoded`) |
| `PutResponse` | the packets of a sample, one by one |
| `ServeUpdate` | `SendUpdate`: the notification with the counters (`Counted`), and after it, when it is due, the report (`FormReport`); `DropUpdate`: a client that failed too often gets nothing |
| `Tick` | the clock of `get_ntp` |

`Wrap` is what the `int` of `form_sr_payload` keeps of a difference of times, and
`Quotient` the conversion of a `double` to an integer.  A registration without a stream has
`last_rtpts = None`.  `started` and `life` number the streams, `silent` counts the octets
sent since the last report and `sent` holds what the last update sent: these serve the
properties and no action looks at them, except that `started` is bounded.

### The end of the process (`Shutdown`)

`root` is where `ze_server_root` is: it watches for Java's wish to exit, joins the
Streaming Manager, then the CoAP thread, frees the contexts and the buffers and closes
the log.  `coap` and `sm` are the places in the two loops, each of which looks at
`globalexit` in its condition only: `CoapTop`, `Retransmit`, `Serve` (the loop over the
responses looks too), `BeginTurn`.  A handler leaves `todo` requests or `out` responses to
be put, and `PutRequest`, `PutResponse`, `WaitForRoom` and `Retry` put them without a look
at `globalexit`.  `JoinCarriers` is the Streaming Manager joining its carrier threads.

### Variants

A definition whose comment starts with "Variant:" is a plausible mistake in the
definition that follows it.  No specification uses one.  Substituted for the
definition, it must make a property fail; that shows that the property depends on
the code.

## 3. What is checked

Every property is stated, with the code it is about, in a comment at its definition.

| run | instance | shows |
|---|---|---|
| `request_buffer` | ring of 3, 3 requests, 2 strays | types; never overrun by more than the strays; a sleeping producer means a full buffer; refinement of `BoundedFifo`; a waiting put returns |
| `response_buffer` | ring of 3, 3 responses, 2 strays | the same, and that the return value tells whether the response went in |
| `tickets` | 2 clients, 2 addresses, 1 one-shot, 1 sensor, buffers of 2, timeouts, invalid registrations found | `TicketsCovered`, `UpdatesCovered`, `NoDanglingTicket`, `StopsConcernInvalid` |
| `answers` | 2 clients, 1 address, an event based sensor with its carrier thread, which may fail, no timeout | `TicketsBalance`, `OneshotsAccounted`, `OneStreamEach`, `SwitchedOnDemand`, `ImplementsObservation`, and under fairness `OneshotsAnswered`, `InvalidFreed` |
| `sample_flow` | 1 sensor of either kind, there or not, 2 registrations, a buffer of 1 | `PeriodForStreams`, `ReportsPrompt`, `ReportsInferred`, `NotificationsInStep` |
| `shutdown` | 2 event based sensors, buffers of 2 | `AloneWhenFreeing`, and under fairness `RequestsPut`, `ResponsesPut`, `ExitOrStarved`, `CarriersEnd` |

and six in which the code does not do what its comments say (section 5).

**Bounds.**  A ring of 3 has every distinct position of two indexes, empty, partly
filled and full, and each of them with a waiting put.  `MaxStrays` bounds the waits that end without a
signal: with two the ring is overrun once more when it is overrun already.  Two addresses and two clients
let an address pass from one client to another while messages that name it are under
way; two slots let a STREAM_STOPPED and an update be in the buffer at once, in either
order, and are soon full.  `MaxRef` (references to a registration) and `MaxUnderWay`
(notifications of a stream under way, below which its sensor delivers) only limit how
often clients register again and sensors deliver; two references are what a
registration needs to outlive one of its holders.  `COAP_OBS_MAX_FAIL` is 0 or 1
rather than the library's value: only whether it has been passed matters.  Android's
queue and the carriers' queue hold one sample per sensor.  `tickets` has a
continuous sensor, `answers` an event based one: with both at once the run takes too long,
so a queue with samples of both kinds is covered by the proofs only.  The ratios are 1 or 2, which
gives every order of stages that larger ones give.  In `answers` the request buffer
has room for every request the clients can cause, so that the CoAP thread is never held:
without the timeout two full buffers would hold both threads for ever, and `shutdown` is
about that case (`RequestsPut`, `ResponsesPut`), with the number of items in each buffer instead of
the messages.  Sensors fail in `answers` only: a failure meets streams and one-shots, which one
address and one transaction provide, and has no part in what `tickets` is about.  The five violating
runs of `ZeSense` have no failing sensors, so that what they show is not due to one.

In `sample_flow` numbers are scaled so that the boundaries lie within reach.  A packet of
one value has 28 octets and the threshold is 28: the first notification reports at once,
the second need not, the third must, so that both causes of a report and its absence
occur.  An `int` has the four values from -2 to 1, and the clock goes up to `MaxNow = 2`: a
packet can wait so long that its age does not fit.  `NTP_FREQ = FREQ = 10` makes the
period one tick, and 0 without a frequency.  Three streams (`MaxStarts`) on two
registrations let one be replaced while its packets, and those of the other, are under
way; with a buffer of one slot a second packet always waits.  `Starts` has one value: the
properties compare timestamps within a stream only.  A queue of samples holds one
(`MaxQueued`).

In `shutdown`, two slots, two requests of a handler (`todo`) and two responses of a sample
(`MaxBurst`) are the least with which a put may find room or not, with something left to
put afterwards.  Two sensors let one carrier end while another starts.

The proofs below show that the safety results, the action properties among them, do
not depend on any of these bounds.

**Deadlock** is checked in every run.  A killed process stutters (`Dead`), and so does
one that has ended, or whose CoAP thread is held for ever at exit (`Ended`); any other state
without a successor would be reported.

**Fairness** (`FairSpec`).  Both threads are weakly fair: the scheduler runs them, and
none of their steps is disabled by anything but the other's buffer.  A sensor that is
on delivers: a continuous one at its rate; an event based one delivers the current
value when it is enabled, which Android does for on-change sensors.  A carrier
thread takes its steps.  Its existence is not assumed: section 5 shows that a sensor may be
left without one, and a sensor may fail to be turned on: `OneshotsAnswered` excepts a one-shot on
such a sensor, which the code leaves to wait for the next activation.  A confirmable message ends, by an
acknowledgement or by the exhaustion of its retransmissions, both in the CoAP
thread's own loop.  That step competes with the loop's other choices and is disabled
in its other stages, so the assumption is strong fairness of `EndOfTransaction`.  No
fairness is assumed of clients: they need not ask, nor acknowledge.

In `Shutdown` the root's joins, the two threads and each carrier thread are weakly fair,
each taken as one process, since the scheduler runs them all.  That Java asks for the exit
is not assumed.  The retransmissions that are due come to an end (strong fairness of
`EndOfRetransmissions`, since a held put may come between any two of them): libcoap puts each one off
for longer than the last.

**Sensors the device lacks.**  In `ZeSense` a sensor may be turned on in vain every time, which is
such a sensor; `SampleFlow` has it as `present`, with the failure to turn one off.  In
`SampleFlow` a carrier thread can always be created.

**What a sensor is on for.**  `SwitchedOnDemand` speaks of the steps, not of the states: no sensor
is turned off that a stream or a one-shot needs, and none is turned on that nothing needs.  That a
sensor *is* on exactly while it is needed (`SensorsOnDemand`) is false where Android fails, because the
callers ignore it; it is proved for `~SensorsFail`, outside of the stretch in which the answers to the last
one-shots are put (`closing`).

## 4. What is proved

For any number of clients, sensors, registrations and transactions, any size of the
buffers, any ratios, with or without timeouts, and whatever libcoap's lookups return,
from the assumptions named in the modules (`TicketAssumption`, `CoapAssumption`,
`SmAssumption`: sizes are positive, the sensors finite, the kinds of tickets distinct), and
for any clocks, lengths and thresholds (`FlowAssumption`) and any ratios and bursts
(`ShutdownAssumption`):

| theorem | states |
|---|---|
| `ZeSense_proofs!TypeCorrect` | every variable has its type; the buffers never exceed their sizes |
| `NoReleaseFromNowhere` | `TicketsCovered`: references to be given back never exceed those counted |
| `UpdatesBeforeStop` | `UpdatesCovered`: the end of a stream never overtakes its updates |
| `NoUseAfterFree` | `NoDanglingTicket`: whoever names a registration names one that is in use |
| `NoReferenceLost` | `TicketsBalance`, if no put times out |
| `NotUnderItsStreams` | `SwitchedOnDemand`, whether sensors fail or not |
| `OnOnDemand` | `SensorsOnDemand`, if they do not |
| `StopsMeetInvalid` | `StopsConcernInvalid`: a STOP never ends the stream of a valid registration |
| `Observation_proofs!Implements` | `ImplementsObservation`, with timeouts or without |
| `StreamsAsObserved` | `OneStreamEach` |
| `StreamsOfOwners` | the invariant behind both: `OwnSensor` and `ValidKept` |
| `NothingLeaks` | `InvalidEnds`, if no put times out and lookups find no invalid registration: an invalid registration has a reference coming back, or a STOP behind the stream or START that holds one |
| `OneAnswerEach` | `OneshotsAccounted`, if no put times out: each one-shot is in one place on its way |
| `SmReqBuf_proofs`, `SmResBuf_proofs` | types, `NoOverrun` (`OverrunOnlyByStrays`), `NoLostWakeup`, `ReturnTellsInsertion`, and the refinement of `BoundedFifo`, for rings of any size and any number of strays |
| `SmReqBuf_proofs!NeverGreaterWithoutStrays` | `NeverGreater`, if no wait ends without a signal |
| `SampleFlow_proofs!TypeCorrect` | types; the buffer is never overrun |
| `PeriodKept` | `PeriodForStreams`: a sensor with streams is on, with their period |
| `StepsKept` | `NotificationsInStep`: no packet of a stream is lost, doubled or overtaken |
| `Prompt` | `ReportsPrompt`: reports come in time |
| `ReportsTrue` | `ReportsInferred`: and say where the stream is by now |
| `Shutdown_proofs!TypeCorrect`, `FreesAlone`, `StarvedStays` | types, `AloneWhenFreeing`, `StarvedForEver`: a thread left before a full buffer stays there |

**The argument for the system.**  The inductive invariant is `TicketInv`.  None of its
parts is inductive alone:

- `TypeOK` needs that a transaction names a registration in use, since `GiveUp` takes
  the sensor of the STOP from the owner;
- `TicketsCovered` compares `GivenAway`, a sum over the places where a reference may be,
  with the count.  It is preserved only if `ServeUpdate` and `ServeStopped` never touch
  a free address, for a checkout or release of one would count from 0;
- that they do not follows, for an update, from `UpdatesCovered`: behind an update there
  is a stream, or a STREAM_STOPPED, and `TicketsCovered` says that its reference is
  counted;
- `UpdatesCovered` itself needs `UpdatesOfStreams`, for the update that is being put now;
- `UnusedUncounted` turns "no reference" into "not in use" and back.

The induction is stated as *slack*, the counted references less those given away.  Every
action but `Defer` leaves the slack of every registration exactly as it is, and `Defer` can
only let it grow, by dropping a START.  So the slack never falls below 0, and stays 0 if
nothing times out; the two theorems on tickets come from the same lemmas.  `CountTail`
and `CountAppend` say how the number of messages of a kind changes with a queue.

**STOPs.**  `StopsConcernInvalid` speaks of the STOPs in the request buffer and in `todo`.
It is not inductive: whether a STOP does harm depends on what comes before it.  So
`MeetsInvalid` takes both together (`Pending == reqbuf \o todo`) and says that a STOP
*meets* a registration when its stream runs, or when a START before the STOP begins it, and
that every registration so met is invalid.  `GiveUp` and `PlainGet` invalidate before they
put, and an `ObserveGet` that appends a START has no STOP behind it.  A registration
becomes valid again only by being freed and used anew; then it has no reference, hence no
stream and no START (`RefLessMeetNone`, from the slack above), and a STOP still on its way
meets nothing.

**One-shots.**  `Accounted` says that the number of places where a transaction waits - in
`todo` or the request buffer, in a sensor's list, in `out` or the response buffer - is one
while it is under way and none otherwise.  Each step moves it from one place to the next;
only `Defer` would drop it, hence the assumption `~MayTimeOut`.

**Sensors.**  `ClosingUnneeded` says that the sensor to be turned off is needed by nothing, and stays so
because no request and no sample is handled until its responses are put.  With it `StepSwitches` goes through
the steps that change `is_active`.

**What the clients see.**  `Implements` goes through the mapping of section 2 action by action;
`StepSeen` puts the cases together.  `WillTail` and `WillAppend` say what a queue of requests
comes to in terms of its head, its tail and a request put at its end, so that handling a request
leaves `streamed` alone (`WillHandled`), and losing one changes one stream at most (`WillLost`).
The steps of the CoAP thread need more than `TicketInv`:

- `ObserveGet` and `PlainGet` have to put their request for the stream of the sensor asked for:
  `OwnSensor` says that every stream and START is of a registration in use and on its sensor;
- `Forget` requires that nothing is left, `NothingLeft`, which follows from `TicketInv`: what is
  left would be a reference given away, and none is counted;
- a registration that is freed must have been cancelled.  `ValidKept` says that a valid
  registration is named by a stream or a START, or has slack, since only `Defer` can take its START.
  Hence (`ValidHeld`) its references exceed those on their way back, and the one that is
  released is not the last.  A STOP would break `ValidKept`, were the registration that it
  meets valid: `MeetsOnlyInvalid`, from the argument about STOPs above, says it is not;
- `NamedHeld`, likewise, keeps a registration in use as long as a stream or a START names it,
  which `OwnSensor` needs.

`OneStreamEach` is an invariant of `Observation` alone (`Each`, with a lemma for each kind of
change), and carries over by the mapping.  `NothingLeaks` puts it together with `TicketsBalance`:
the references of a registration in use are all somewhere (`AliveCounted`, `CountedNamed`), and if it
is invalid then no stream is owed to it, so that whatever names it is about to be stopped.
It is the safety that `InvalidFreed` rests on, for any number of registrations; TLC has the liveness.

**The argument for the data path.**  Each result has an invariant of its own.

- `PeriodKept`: `FrequencyForStreams` says that `freq` is that of the streams whenever there are any.
- `Prompt`: `ReportsInv` ties `silent`, a count of the property, to the code's two
  counters (`SilentCounted`).
- `ReportsTrue`: `TimesPast`: no sample or packet on its way has a time in the future.
  Then an age is not negative, and below half the range `Wrap` is the identity.
- `StepsKept`: `LineInv` follows a stream's packets from the client back to the stream:
  what was sent last, the packets in `resbuf`, the packet in `out`, and `last_rtpts` form
  one line in which each is the `Stamp` of the one before, or begins a later stream
  (`OneEach`, `BufferInStep`, `OutInStep`, `SentInStep`, `NewestCurrent`, with
  `LivesCounted` for the numbers of streams and `SentCounted` for Observe numbers).

**The argument for the end.**  `IInv` is `TypeOK`, `PutsInLoop` (the Streaming Manager leaves its loop with
nothing left to put) and `JoinsInOrder` (the root is past a join only if the thread has left, and the
Streaming Manager has left only if no carrier thread exists; none is started after).

**The argument for the rings.**  `IInv` relates the two indexes and the counter
(`puthere = (gethere + counter) % size`), and says that a waiting producer means a full
ring, a woken one a ring with a free slot or a stray that is not yet used up, and that the counter exceeds the size by no more than
the strays.  With it, a read of the slots from the oldest on is the queue of the abstract
specification, also when it is longer than the ring (`SameSlot`), and each ring operation is one
queue operation, the overwriting put included (`QueueLemmas`, `RingOverwrite`).

**Left to TLC**: liveness (`OneshotsAnswered`, `InvalidFreed`, `RequestsPut`,
`ResponsesPut`, `PutReturns`, `ExitOrStarved`, `CarriersEnd`), which is beyond this prover.
Every invariant and action property of a passing run is proved.  `NeverGreater`, which a run refutes,
is proved for `MaxStrays = 0`.

## 5. Where the code departs from its comments

Each of these is a run that TLC must find violated, and a finding in `PROJECT.json`.

- `overrun`: "full (greater shall not happen)" (`ze_sm_reqbuf.c:62`): a wait that ends without a signal
  makes the counter greater than the buffer, and an unread request is overwritten.  The response
  buffer does the same (`ze_sm_resbuf.c:86-93`), and `PutWoken` of `SmResBuf` has it.
- `deferred_request`: a request that `put_response_helper` takes to make room is lost,
  although it is to be "internally queued".
- `last_stream`: stopping the last stream of a sensor while a one-shot waits reads the
  frequency of the head of an empty list.
- `leftover_sample`: an inactive sensor may have a valid cache: a sample was left in the
  queue.
- `invalidated`: a notification may go out for a registration that has been
  invalidated.
- `stranded`: a sensor that is turned off and on again while its carrier thread leaves
  stays on without one, because the thread has not cleared `carrier_thread_started` yet.

What the models show besides, without a violated run of its own:

- A put into the full response buffer "also blocks indefinitely" (`ze_sm_resbuf.h:87-89`): it does
  not, it returns `ETIMEDOUT` after two seconds (`ze_sm_resbuf.c:86`).  `PutReturns` of `SmResBuf` shows that it
  returns even if the getter has stopped for good; the callers rely on it (section 2, `Defer`).
- "If the streaming manager does not have any stream with that ticket (should not happen) it confirms
  the cancellation anyways" (`ze_coap_resources.c:582-584`): `sm_stop_stream` returns an error and
  its caller confirms nothing.  It does happen, for instance when a registration is unregistered
  twice, and a confirmation would release a reference that nobody counted: it is a variant of
  `StopStream`, and breaks `TicketsCovered`.
- A stream or a one-shot is kept on a sensor that could not be turned on, and a sensor that could not be
  turned off stays on with nothing that needs it (`ze_streaming_manager.c:854`, `1212`): the callers
  ignore both results.
- "We're confident that the getter will not starve us" (`ze_sm_reqbuf.h`, `ze_sm_resbuf.h`)
  fails at exit: `SmStarved` and `CoapStarved` are reachable in `shutdown`, and
  `StarvedForEver` says that then the process does not end.
- "if a sensor is not active the streams should be empty" (`ze_streaming_manager.c`, in
  `sm_start_stream`) fails for a sensor that could not be turned on.
- A sender report carries the Observe number of the notification that follows it
  (`ze_coap_server_core.c`, `notcnt` is not increased for it), which is why
  `NotificationsInStep` speaks of the numbers of samples only.
- A stream that replaces another begins at a random timestamp while the counters of
  the registration go on; `NotificationsInStep` therefore speaks of one stream at a time.
- Without its condition on the age `ReportsInferred` fails: an `int` of nanoseconds holds
  about 2.1 seconds, and a packet may wait longer when the CoAP thread is held.

## 6. What is not modelled

- **Not built**: the RTP server, libcoap's example server, the codec header `senml.h`.
- **Outside the repository**: libcoap, Android's sensor queue, Java; modelled only as
  `src/` uses them.  JNI references and the opening of sockets and logs have no state that
  the threads share.
- **No behaviour to relate**: the statistics of samples, arrays which are written past
  their end after 5000 samples of a sensor and read only at exit; logging; GPS, whose samples
  are only logged, so that a location request is never answered.
- **Payloads**: the texts of values and the order of bytes; of a packet only its length
  and its two times are kept.  The Observe counter starts at 0 and is unbounded in the model; in
  the code it starts at random, as a comment says, and is sent as 16 bits.  RTP timestamps are unbounded, too;
  in the code the `int` overflows after some 24 days of a stream.
- **Non-confirmable notifications**: streams are always confirmable here, so
  the branch for the others is dead.  The counter that alternates the two is left out with it.
- **Allocation failures**, which the code does not survive.
- **The rate a one-shot sets**: `DEFAULT_FREQ` is the frequency that every GET asks for, so
  that a one-shot under running streams sets the rate they have.
- **Stray wake-ups in the composed models**: they are in the models of the two buffers; the
  rest takes a buffer as it is before the first one.
- **The growth of the carriers' queue** without limit, which a bound cuts; `PeriodForStreams`
  says when a carrier has a period to sleep for, and excepts a sensor that is on for one-shots
  only, whose carrier may have none.
- **The age of samples**: a carrier's sample that was read before its sensor was turned off and is
  delivered after it is on again is in `ZeSense`, as a sample like any other.

Both kinds of sensors in one run of `ZeSense`, and larger instances, are covered by the
proofs, but not for liveness.
