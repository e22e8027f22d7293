# A model of JMX

JMX is a realtime multimedia engine for OS X.  A patch is a graph of *entities* (movies, mixers,
screens, scripts) whose *pins* are connected: data written to an output pin travels, as a signal,
to the input pins connected to it.  The modules here model the part of the engine in which several
threads meet: the links between pins, the delivery of data over them, and the threads of the
entities.  The source they are translated from is under `core/` and `entities/`.

## The system

| component | state | operations | who calls it |
|---|---|---|---|
| **pin links** `core/JMXInputPin.m`, `core/JMXOutputPin.m`, `connectToPin:`/`disconnectFromPin:` of `core/JMXPin.mm` | input pin: array of producers, count of passive producers, spin lock; output pin: dictionary of receivers, spin lock; a `connected` flag on each | connect, disconnect, disconnect all, move a producer, read the producers, read, fan-out | the GUI (main thread), scripts, entity threads, signal threads |
| **pin data and signals** `core/JMXPin.mm`, `core/JMXContext.m` | two data slots and an offset per pin, the owner; the run loops of the signal threads | deliver, read, perform a signal, deliver on connect, detach | writers, signal threads, connecting threads |
| **threaded entities** `core/JMXThreadedEntity.mm`, `setActive:` of `core/JMXEntity.mm` | the worker thread, `quit`; the `active` flag and the private data of the entity | start, stop, set active, run | GUI, scripts, the worker itself |
| **entities** `core/JMXEntity.mm` | pins as children of an XML element, private data | register and unregister pins, attach objects | GUI, scripts, entity code |
| **proxy pins** `core/JMXProxyPin.m`, `core/JMXEntity.mm` | the real pin (not retained), the host's observers of it | make, drop, forward | scripts, the main thread, whoever ends the real pin |
| **scripts** `core/JMXScript.mm`, `core/JMXScriptTimer.mm`, `entities/JMXScriptEntity.mm`, `core/JMXScriptPinWrapper.mm` | a v8 context, a set of timers, a timers thread, persistent instances, listeners | run, stop, set and clear timers, wrap pins | script threads, timers thread, signal threads |
| **audio file** `core/JMXAudioFile.m`, `entities/audio/JMXAudioFileEntity.mm` | a ring of 10240 sample buffers, two 32-bit offsets, `isFilling`, `overflow` | fill (own thread), read, seek | audio output threads |
| **ring buffer** `core/JMXRingBuffer.m` | bytes, read and write index | read, write, skip, find, read until, clear | nobody in the program |
| **movie** `entities/video/JMXQtMovieEntity.mm` | current frame, pending seek | tick, seek | its worker, scripts |
| **mixers and outputs** `entities/JMX*Mixer.mm`, `entities/JMXAudioOutput.mm` | sample and frame buffers | pull from the producers, convert | workers, device callbacks |
| **GUI** `gui/` | views of the board | the connects and disconnects of the user | main thread |

How they interact: a connect takes the input pin's lock, attaches to the output pin under its lock,
reads the output pin and delivers what it read, and posts a notification the main thread has to
run.  A write stores in the pin's slots and queues a signal; a signal thread performs it, calls
`deliverData:` of every receiver, which queues a signal each, and a signal of an input pin calls
its owner.  The owner may be a threaded entity, and one of its pins is `active`, so a signal can
start and stop a thread.  The audio outputs pull a passive pin, so the file player runs on the
threads of its receivers, beside a thread of its own that reads ahead.  Scripts run under one v8
lock for the whole program; a thread per script fires its timers under a second lock.  A script
exports pins of its entities through proxies, which live as long as the real pin only because
notifications, posted on the main thread, tell the host when to drop them.

What is hard here: every operation may run on any thread; the locks are spin locks with no owner
that do not nest; state is read outside of them; waiting for the main thread happens inside them.
`PROJECT.json` lists the hazards line by line, each with the properties that would catch it.

What makes each part correct: *pin links*: both ends of a link and both flags agree whenever no
operation is half done, a pin takes one producer unless it allows several, locks are given back.
*Delivery*: the newest value reaches everybody, each delivery is one call of the owner, objects are
retained as often as they are released, a reader never sees a freed object.  *Threaded entities*:
one thread ticks and it can be stopped, retains balance, stop stops and start starts.  *Audio
file*: the blocks are heard in the order of the file, for ever, with one thread reading ahead.
*Timers*: a due timer fires unless scans are given up before its turn for ever, a one-shot once, a cleared one never, and stop comes to its end.
*Proxies*: none outlives its pin, and the GUI shows those there are.

## The modules

### PinGraph

One variable per field of the two pins (`producers`, `passiveCount`, `producersLock`,
`inConnected`; `receivers`, `receiversLock`, `outConnected`) and, for each thread, the method it is
in (`pc`) with its pins.  A method is cut where another thread can come between: at each spin lock
taken, at the end of a critical section, where the thread waits for the main queue (`Notified`:
only a main thread that is not inside a method itself can post the notification).  A thread that
spins has no step until the lock is free; one that enters a lock it already holds never has one
(`nested`).  The array of producers is a bag: its order matters to mixers only.

`connectToPin:` returns with the lock taken.  With the code as it is nothing could be said about
what follows the first connect of a pin, so the pins in the constant `Repaired` unlock at that
return.  Every statement holds for `Repaired = {}` too, the theorems for every value; the passing
run has pins of both kinds, and the runs that show the defects have no repaired pin.

Abstracted: data on the links, `sendNotifications`, the XML elements, `retain`/`release` of pins.
`InputPins` here answer `canConnectToPin:` by type and mode as in the code, where the mask is
Text|Code|Text.

### PinDelivery

One output pin, its present and future receivers, threads that write, connect and perform signals.
`deliverData:fromSender:` is five steps (`TakeOld`, `Store`, `Bump`, `Drop`, `Post`) because it
takes no lock around the slots; `readData` is three (`ReadOffset`, `ReadSlot`, and the retain at
`SendOnConnect`).  A queue per signal thread stands for its run loop; the thread chosen by
`signalThread` is any, since every pin of the program shares its unsynchronised counter.  The
offset is kept modulo 2, as every use masks it (2 divides 2^32).  A datum is the number of the
write that produced it.  History variables (`retains`, `got`, `told`, `last`, `overlapped`, `laps`)
record what properties speak about; no action reads them.

Two properties hold with one writer only (`OneWriter`).  `ReadersFindLiveData` counts the deliveries
that have released a value since the reader loaded the offset; of two writers both may have moved
on to the next slot before either releases anything, even when their stores did not overlap.
`NewestReachesAll` speaks of the newest value, which with two writers is not the last one written.
The threads are finitely many, as are those of any process; without that `RetainsBalance` would
count nothing.

Not in the model: pins with an owner read mode, receivers that are detached while signals are under
way, the lock of the receivers that PinGraph models.

### ThreadedEntity

The threads are numbered in the order of their allocation.  Each thread, client or worker, can be
anywhere in `setActive:`, `startThread`, `stopThread`, and a worker also in `run`.  `refs` counts
the retains of each NSThread, the one of the running thread included.  `TickStops` is the tick of a
movie that has ended and calls `stop` of its own entity.  `collided` is history: it becomes true
when two threads are inside the unlocked bodies of `startThread` or `stopThread` at once, where
retains can be lost; four of the properties are about what holds up to there.  `StopReachesAll`
speaks of one client (`OneClient`): the requests of two may be carried out in another order than
they were made, so that the last one says nothing of the state they leave.

### AudioFile and SampleQueue

`fillBuffer` is four steps, because only the store is under the spin lock: the test of the offsets
(`Test`), `readFrames:` (`ReadFrames`), the critical section (`Store`) and the end, where
`isFilling` is cleared without it (`Finish`).  `readSample` is one critical section, and `audio` of
the entity is cut at each of its calls, since the receivers pull on threads of their own.  The
position of the file is under no lock.  The offsets are kept modulo `W`, and comparisons are those
of unsigned numbers: `Pending` wraps, and `NearEnd` is false for a file so short that the
difference wraps.  A block is its number in the file; failures of ExtAudioFile are left out.

`SampleQueue` says what the ring promises: a bounded queue of the blocks of the file, and a file
that may be rewound.  The property `QueueOfSamples` is the refinement (`INSTANCE SampleQueue WITH
...`): the queue is the slots between the offsets, then the block the filler has read and not yet
stored.  It holds until `wOffset` wraps.  From then on the slots jump, because the size of the ring
does not divide 2^32: blocks left in the old slots are released unheard (`Store`) or come out as
nil.  What still holds after the wrap is `OffsetsAgree`, which carries `overflow` through it, and
`PlayGoesOn`: the listener misses some blocks once and goes on hearing.

`BlocksInOrder` has one exception, `overlapped`: two readers found the end at once, and the slower
one rewinds a file the other has begun again.

### ScriptTimers

The two locks are `locker` (v8's, one for all scripts) and `monitor` (`@synchronized(timersThread)`).
A script thread holds the Locker from `Enter` to `Leave`; `setTimeout` and its kind are a step that
makes the timer and one that waits for the monitor; `clearTimeout` is a test without the monitor
(`ClearTimeout`), the removal under it, the invalidation without it.  `jsRunTimers` is one step per
timer of the enumeration (`Skip`, `Choose`, `Fire`), and `todo` is the rest of the set.  A callback
holds both locks, which are recursive, so each function it calls is one step; if it changes the
set, the enumeration raises as soon as it goes on (`mutated`, `GiveUp`), `toRemove` is dropped and
the loop starts again.  A change after the last timer goes unnoticed.  `sleep()` in a callback
gives the Locker away but not the monitor (`CallbackSleeps`).

A timer is a name that a later timer may take over, as soon as it is not in the set, cannot fire and
nobody is busy with it (`InUse`); its due date and its history begin anew.  So callbacks can change
the set in every scan for ever, and that starves timers.  A timer that is due at once, which with
the tolerance of the loop is any of 1 ms or less, changes the set before the enumeration reaches
the others: it sets or clears timers, or is a one-shot of a chain of them and takes itself out.
The exception skips the pause of the loop, and the next scan ends in the same way.
`DueTimersFire` has this as its exception (`PassesOver` for ever) and says that it is the only one
beside `Stuck`, clearing and stop.  Without the exception TLC finds a chain of two `setTimeout`s
that starves a third timer.

`Stuck` names the one way to wait for ever: the monitor is held by a timers thread that waits for
the Locker, and the Locker by a thread that waits for the monitor.  The liveness properties say
what happens unless that comes about, and the run `script_stop` shows that it does come about.

Left out: a second stop, scripts that never end, scripts started in a context that has been
disposed of, event listeners, persistent instances.

### ProxyPins

Pins end on any thread: `unregisterPin:` and `dealloc` queue a call on the main thread and wait for
it (`mainQueue`, `Perform`, `Wake`), and the main thread does the same at once.  `addProxyPin:` is
queued without waiting, so that between a proxy's first appearance and its observers there is time
for anything.  `Post` is `proxiedPinDestroyed:` with what `NSNotificationCenter` leaves open: an
object registered several times may be called again or not after it has removed itself.

Two history variables name the exceptions the code has: `disturbed` holds the pins with two proxies
(removing the observers of one removes those of the other) and those where the main thread got
ahead of `addProxyPin:`; `overlapped` holds the proxies two threads remove at once.  The pins here
belong to entities.  Forwarding is left out: what a proxy forwards to is a pin of PinGraph.

`children` is the set of the proxies; of the order of the XML children only what
`proxiedPinDestroyed:` depends on is kept, that of the proxies: they are appended, so that `place`,
how many had been made before, gives it.  The proxies are finitely many, as in every run of the
program; the proofs count the observers by them.

## The runs

| run | what it checks |
|---|---|
| `pin_graph` | everything PinGraph promises, with three input pins (one as the code is, a repaired one, a repaired one that allows several connections) and two output pins (one passive), a main and another thread, four calls |
| `pin_graph_connect` | violated: a connect returns (it keeps the lock) |
| `pin_graph_stray` | violated: a disconnect of unconnected pins is harmless |
| `pin_delivery` | everything PinDelivery promises with one writer: two written values after an initial one, two signal threads, an early receiver whose entity may go away, a late one that accepts only the last value |
| `pin_delivery_writers` | violated: the slots are safe with two writers |
| `threaded_entity` | what ThreadedEntity promises: one client with two calls, three threads |
| `threaded_restart` | violated: `start` starts the thread of a stopped entity |
| `threaded_stop` | violated: `stop` stops the threads |
| `audio_file` | what AudioFile promises, the refinement included: two receivers, a ring of eight slots, offsets that wrap at 11, a file of four blocks whose last two are its end |
| `script_timers` | what ScriptTimers promises: one script thread, two one-shot timers, a repeating one |
| `script_stop` | violated: stop comes to its end |
| `proxy_pins` | what ProxyPins promises: two pins, two proxies, two threads beside the main thread |

**Bounds.**  `MaxCalls` of PinGraph: four calls let a second thread connect, disconnect and signal
around a connect or disconnect of the first, and replace a producer that is being attached; the
locks involve two pins at a time, so two output pins and three kinds of input pins are all the
cases there are.  Two threads suffice for the races of pairs of steps; a main thread that spins and
a waiting one are among them.  `MaxWrites` of PinDelivery: with three values the slot of the first
one is written again, which is what readers and retains depend on.  `MaxWorkers` of ThreadedEntity:
the first thread, one started wrongly, and one more started while that one is being stopped; a
behaviour that wants a fourth thread waits (`Crowded`), and the liveness properties say nothing of
it.  AudioFile: `W = 11` is no multiple of `N = 8`, as 2^32 is none of 10240, and leaves room for a
full ring before the wrap; a file of four blocks is rewound and the offsets wrap again and again;
`MaxFillers = 2`, so that a second filler could run if one were started.  ScriptTimers: one script
thread stands for all, because the Locker makes script threads take turns, and the timers thread is
the other party of every race; two one-shots and a repeating timer let a callback change the set
while other timers are due, before and after it in the enumeration.  Three is the number of timers
at a time; there is no bound of how many are made one after the other, since the name of a timer
that is over is used again (`Make`).
ProxyPins: two proxies are what one pin can have too many; two threads and the main thread can
remove a proxy, release its pin and make another at the same time.  Each proxy is made once.

**Deadlock** is checked for AudioFile, which never stops.  In the other runs it is not: threads stop
at the bound of the calls, or when everything has been made and removed, and the code as it is can
really hang.  What must not hang is said by liveness properties.

**Fairness.**  PinGraph: each thread's next step is strongly fair.  The threads are preemptive
threads of the operating system, and one that finds a spin lock free again and again gets it in the
end.  No fairness is assumed of making calls.  PinDelivery: weakly fair delivery and connect steps,
which never wait; strongly fair signal threads, which fight for `receiversLock`.  Nobody has to
write, connect or detach.  ThreadedEntity: weak fairness of each thread's steps; no lock is waited
for.  A tick never has to stop its entity and a client never has to call.
AudioFile: weakly fair fillers and pulls; the devices pull as long as they run, and spin locks are
held for one step.  ScriptTimers: strong fairness of the steps that take a lock or that end a script
or a callback, weak fairness of the rest; no script has to call anything, and time need not pass.
ProxyPins has no liveness property and no fairness.

## What is proved

`PinGraph_proofs` proves, for every set of pins and threads, every type, mode, `Multiple` and
`Repaired` and every bound of the calls: the type invariant (`TypeCorrect`), `LockIsExclusive`,
`LinksAgree`, `OneProducer`, `FlagsAgree`, `AbandonedPinsAreConnected`, and the action property
`FanOutIsStable`.  The only assumption is `PinAssumption`: input and output pins are disjoint, the
main thread is a thread, `None` is not a pin, modes are modes.

None of the invariants is inductive alone.  `IInv` adds to their conjunction

* `Typed`: the type invariant, and that a thread inside a method has the pins the method is about;
* `Locked`: a thread in a critical section has the lock;
* `Seen`: what the thread has found out stays true while it holds the lock: it is evicting a
  producer because there is one, it attaches only where there is room, the receiver it attached is
  still there, the link it detaches is no longer in the producers.

`MutualExclusion` makes `Seen` stable: nobody else changes the producers of a pin whose lock is
taken.  There is one lemma per action, and inside it one step per conjunct that the action can
disturb; `NextIInv` puts them together.  `OthersStand` and `BystanderKeeps` say once what an action
on one pin leaves alone.  `FanOutIsStable` follows from the types and the guards on `receiversLock`.

`AudioFile_proofs` proves, for any number of readers and fillers and any ring, file and width of the
offsets, `TypeOK`, `OffsetsAgree`, `OneFiller`, `BlocksInOrder` and the refinement `QueueOfSamples`, from
`AudioAssumption` (at least four slots, offsets wider than the ring, a file that is not empty).
`OffsetsAgree` is not inductive: a filler stores a block some time after it has found room.  `IInv`
adds `RoomFound` (between the test and the store the filler has room, since only readers move, and
they make more) and `Alone` (which is what makes "only readers move" true: one filler, and
`isFilling` says so).  The offsets are unsigned; `Increment` and `Difference` reduce the arithmetic
modulo `W` to a comparison, once.  For the refinement, `RInv` adds `HandedOver` (a block in hand
belongs to the filler that is about to store it) and `Unwrapped` (before the wrap no slot between
the offsets is empty).  `SlotsDiffer` says that offsets less than `N` apart fall into different
slots; from it `BetweenGrows` and `BetweenShrinks` show that a store appends to the stretch of the
ring between the offsets and a take removes its head.  Each handler is then shown to be one step of
the queue or none: `ReadFrames` is Read, `Store` moves a block from hand to ring and so is none,
`TakeSample` is Take, `seekToOffset:` is Rewind.  `BlocksInOrder` needs more than the queue, which
allows a rewind at any time: `Linked` chains what was handed out last, the ring, the block in hand
and the position of the file, and `RewindsAtEnd` says that a reader that goes to rewind the file is
alone in that and has the file at its end, so that the chain may begin again there.

`ScriptTimers_proofs` proves, for any number of script threads and any timers, `TypeOK`,
`ValidIsListed`, `OneShotFiresOnce`, `ClearedNeverFires` and `StoppedStaysQuiet`, from
`ScriptAssumption`.  So the single script thread of the runs costs these properties nothing.  `IInv` adds
to `ValidIsListed`

* `Typed`, and `Locked`: who is where holds which of the two locks;
* `Unlisted`, `ClearedUnlisted`: a timer on its way into the set, out of it or cleared is not in it;
* `Enumerated`: until the enumeration notices a change, what it has left to visit is in the set; a
  timer taken out by the loop is not valid, and the timer about to fire is in the set;
* `Spent`: a one-shot that has fired is invalid, unless its callback still runs;
* `Ended`: once stop has emptied the set nothing is left to fire.

`Enumerated` is the heart: the loop tests a timer and fires it under the monitor, so a cleared timer
cannot be between the two, and a callback that changes the set is the last thing the enumeration sees.

`ThreadedEntity_proofs` proves `TypeOK`, `RefsBalance`, `TickingIsStoppable`, `TickingIsActive` and
`StopReachesAll` for any clients, any number of calls and of threads, from `ThreadedAssumption` (clients
are no workers).  Like the properties, nearly all of `IInv` beside the types and `Calling` speaks of the time
before a collision.  It adds to the invariants

* `Calling`: who can be inside `setActive:`, `startThread` or `stopThread`, and with which argument;
* `OneInside`: at most one thread is inside the unlocked bodies, which is what `collided` records;
* `WorkerKnown`: the step of that thread tells what `worker` and the registration are;
* `WorkerTicks`: only the worker ticks;
* `ActiveOrStopping`: if the flag was cleared since a ticking thread set it, whoever cleared it is on
  the way to stop that thread;
* `StopOnItsWay`: after the only client's request to deactivate, that client or a cancelled worker
  that has yet to end is going to cancel what ticks.

`OneInside` carries the balance, since each retain is made and dropped in a body nobody else is in.
`StopOnItsWay` follows a stop through its detours: a movie that ends stops its own entity from inside
`run`, and a cancelled worker deactivates the entity once more when its loop is over.

`PinDelivery_proofs` proves `TypeOK`, `RetainsBalance`, `LastDelivered`, `FanOutsDoNotOverlap`,
`NewestReachesAll` and `ReadersFindLiveData`, for any receivers, writers, connecting and signal threads,
any filter of the receivers and any number of values, from `DeliveryAssumption`.  `IInv` adds

* `Roles`: which thread can be at which step, and on which pin;
* `OneFan`: a signal thread in its fan-out has `receiversLock` and is the only one;
* `Slots`: until deliveries to a pin overlap, the one under way knows the state of its pin: its slot
  is the other one, it releases what that slot held, and its value is the last one delivered;
* `InOrder`: with one writer, what a reader has seen is still in its slot, or has been replaced by
  a writer that has yet to release it, up to the second delivery;
* `Newest`: with one writer, the newest value has come to each receiver, or a writer, a queued
  signal, a fan-out that still has this receiver to serve, or the thread that connects it brings it.

`RetainsBalance` counts slots and threads: `TwoSlots` and `Releasers` turn the cardinalities into
sums that each step changes by one.  `OneFan` makes the signal threads one writer to each early
receiver, so that `FanOutsDoNotOverlap` needs no assumption.  `Newest` is where the order of
attaching and reading matters: `Attach` makes the new receiver a reader before it can miss a
fan-out, and the fan-out takes the receivers under the lock that `Attach` needs.

`PinSignals_proofs` adds `EveryDeliveryOneCall`, by counting.  `Conserved` is the equation with the places
in the queues (`WaitingIn`) and the threads with a delivery in hand (`Carrying`).  That equation says
nothing of how often a value is delivered; for that `Budget` adds to what has come to a receiver what
may still come: a value yet to be written, writers that have it, its signal, fan-outs that have this
receiver to serve, and a connect that is still to be made or to read.  The sum never grows: each step
moves one unit along.  Taking the first signal of a queue moves every other one up, so
`TailCount` compares the places by a bijection.

`ProxyPins_proofs` proves `TypeOK`, `NoDanglingProxy`, `ObservedIffProxied`, `GuiAgrees` and
`RemovedOnce`, for any pins, threads and finite set of proxies, from `ProxyAssumption`.  Between two
steps of the main thread none of these says enough: what is missing is always in the queue.  `IInv` adds

* `Tasks`, `Awaits`: what each worker is busy with, and that each queued call but `addProxyPin:` has
  a worker that waits for it, at the step the call belongs to;
* `CalledOnce`: no two queued calls are for the same thread and object, and a proxy's `addProxyPin:`
  is queued once;
* `AddsFirst`: `addProxyPin:` comes before the end of the proxy's pin, and before the end of the
  proxy unless the pin is disturbed;
* `Endings`: a pin that is being deallocated is out of its entity, and nobody is making a proxy of it;
* `Undisturbed`, for pins without a history: there is one live proxy at most (`Single`), it stands in
  the host until its `addProxyPin:` has run (`Pending`), it is observed from then until the observers
  are removed (`Observed`), shown from then until its removal is announced (`Shown`), and once the pin
  has ended it is gone, or all but gone (`Dropped`);
* `Removals`: a proxy two threads never removed at once has been announced just if it is out of the
  host or past the announcement;
* `ObserversBound`: a pin is not observed more often than it has proxies whose `addProxyPin:` has run.

`AddsFirst` carries `NoDanglingProxy`: the call that posts the end of a pin cannot overtake the call
that starts to observe it, since both go through one queue and the thread that makes a proxy holds
the pin until it has queued the first.

## Only model-checked

Liveness (`SignalsReturn`, `EveryWriteArrives`, `StopsInTheEnd`, `PlayGoesOn`, `DueTimersFire`,
`StopReturnsOrSticks`) is beyond the prover.  Every invariant, action property and
refinement the passing runs check is proved.

## Disagreements between code and documentation

The six violated properties each quote a line of a header or comment; the `findings` of
`PROJECT.json` give both sides.  `pin_graph_connect`, `pin_graph_stray`: the connect that keeps its
lock, the disconnect that miscounts.  `pin_delivery_writers`: writers are not synchronised.
`threaded_restart`, `threaded_stop`: an entity that cannot be restarted, a thread that cannot be
stopped.  `script_stop`: a stop that waits for the timers thread, which waits for it.  Not worth a
run of its own: `clearTimers` returns the size of the set it has just emptied, where `JMXScript.h`
promises YES.

## Plan

1. *(done)* PinGraph with its proofs, PinDelivery, ThreadedEntity.
2. *(done)* AudioFile and the queue it implements; ScriptTimers; ProxyPins.
3. *(done)* Proofs about AudioFile, its refinement included, about ScriptTimers, ThreadedEntity,
   PinDelivery and ProxyPins.
4. The seek requests of the movie entity against its tick; the registration of pins that are no
   proxies; the pin wrappers of scripts.

## Not modelled

JMX itself is Objective-C and Objective-C++ (`.m`, `.mm`); the C and C++ files of the repository are
node.js, v8's bindings, Apple's HID Utilities and other bundled libraries, which are not its code
and are left alone.  Image, audio and DOM data; CoreAudio, QTKit, CoreImage, IOKit and Phidgets
calls; the views of the GUI; the bindings of native classes to JavaScript: they hold no protocol of
their own.  The ring buffer is dead code.  The movie entity decodes with QuickTime; what is its own
is one pending seek, listed as a hazard.  The pacing arithmetic of ticks is left out: the models are
untimed.
