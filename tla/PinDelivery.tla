---------------------------- MODULE PinDelivery ----------------------------
(***************************************************************************)
(* The delivery of data over the links of one output pin                   *)
(* (core/JMXPin.mm, core/JMXOutputPin.m, core/JMXContext.m).               *)
(*                                                                         *)
(* deliverData:fromSender: stores a datum in the two slots of a pin and    *)
(* queues a signal for one of the signal threads of JMXContext.  The       *)
(* signal of an output pin delivers the datum to every receiver, under     *)
(* receiversLock; the signal of an input pin calls the owner.  A thread    *)
(* that attaches a receiver reads the output pin and delivers what it      *)
(* reads, without the lock.                                                *)
(*                                                                         *)
(* A datum is the number of the write that produced it.  The pins have the *)
(* internal read mode: readData does not ask the owner.  Left out: the     *)
(* sender of a signal, the producersLock of the receivers (see PinGraph),  *)
(* and receivers that are detached.                                        *)
(***************************************************************************)
EXTENDS Integers, Sequences, FiniteSets

CONSTANTS Out,         \* the output pin
          Inputs,      \* its present and future receivers
          Attached,    \* the receivers it starts with
          Writers,     \* the threads that write to the output pin
          Connectors,  \* the threads that connect input pins to it
          Workers,     \* the signal threads
          Detachable,  \* the pins whose entity may unregister them
          Accepts,     \* Accepts[p]: the values isValidData: of p lets through
          HasInitial,  \* is the output pin created with an initialValue (it is value 1)
          MaxWrites    \* bound of the model: values there are altogether

Pins    == Inputs \cup {Out}
Threads == Writers \cup Connectors \cup Workers
Values  == 1 .. MaxWrites
Nil     == 0
Initial == IF HasInitial THEN 1 ELSE Nil

DeliveryAssumption ==
  /\ Out \notin Inputs
  /\ Attached \subseteq Inputs
  /\ Detachable \subseteq Pins
  /\ Writers \cap Connectors = {} /\ Workers \cap (Writers \cup Connectors) = {}
  /\ IsFiniteSet(Writers) /\ IsFiniteSet(Connectors) /\ IsFiniteSet(Workers)
  /\ HasInitial \in BOOLEAN
  /\ MaxWrites \in Nat \ {0}
  /\ Accepts \in [Pins -> SUBSET Values]

ASSUME DeliveryAssumption

VARIABLES dataBuffer,     \* dataBuffer[p]: the two slots
          offset,         \* offset[p] & kJMXPinDataBufferMask
          retains,        \* retains[p][v]: retains less releases p made of v
          owned,          \* owned[p]: owner is not nil
          receivers,      \* the receivers of the output pin
          receiversLock,  \* is the spin lock taken
          queue,          \* queue[w]: the signals waiting in the run loop of w
          pc,             \* pc[t]: where thread t stands
          pin, data,      \* the pin t works on and the value it carries
          next, old,      \* nextOffset and toRelease of deliverData:fromSender:
          todo,           \* the receivers the fan-out of t has still to serve
          signal,         \* the data of the signal the fan-out of t is about
          written,        \* number of values there have been
          got,            \* got[i][v]: how often v was delivered to i
          told,           \* told[i][v]: how often the owner of i was called with v
          last,           \* last[p]: the value of the latest delivery to p
          overlapped,     \* overlapped[p]: have two deliveries to p overlapped
          laps            \* laps[t]: deliveries that released their old value since t began to read

bufVars   == <<dataBuffer, offset, retains>>
linkVars  == <<owned, receivers, receiversLock>>
threadVars == <<pc, pin, data, next, old, todo, signal>>
history   == <<written, got, told, last, overlapped, laps>>
vars      == <<bufVars, linkVars, queue, threadVars, history>>

Steps == {"idle", "take", "store", "bump", "drop", "post",
          "fanLock", "fan", "call", "read", "fetch", "retain"}

At(t, step) == pc[t] = step
Goto(t, step) == pc' = [pc EXCEPT ![t] = step]

\* t is between the load of offset and the increment
Storing(t, p) == pin[t] = p /\ pc[t] \in {"take", "store", "bump"}

Init ==
  /\ dataBuffer = [p \in Pins |-> [s \in 0 .. 1 |-> IF p = Out /\ s = 0 THEN Initial ELSE Nil]]
  /\ offset  = [p \in Pins |-> 0]
  /\ retains = [p \in Pins |-> [v \in Values |-> IF p = Out /\ v = Initial THEN 1 ELSE 0]]
  /\ owned   = [p \in Pins |-> TRUE]
  /\ receivers = Attached
  /\ receiversLock = FALSE
  /\ queue  = [w \in Workers |-> <<>>]
  /\ pc     = [t \in Threads |-> "idle"]
  /\ pin    = [t \in Threads |-> Out]
  /\ data   = [t \in Threads |-> Nil]
  /\ next   = [t \in Threads |-> 0]
  /\ old    = [t \in Threads |-> Nil]
  /\ todo   = [t \in Threads |-> {}]
  /\ signal = [t \in Threads |-> Nil]
  /\ written = Initial
  /\ got  = [i \in Inputs |-> [v \in Values |-> 0]]
  /\ told = [i \in Inputs |-> [v \in Values |-> 0]]
  /\ last = [p \in Pins |-> IF p = Out THEN Initial ELSE Nil]
  /\ overlapped = [p \in Pins |-> FALSE]
  /\ laps = [t \in Connectors |-> 0]

(***************************************************************************)
(* deliverData:fromSender:                                                 *)
(***************************************************************************)
\* t is done with its pin and its value and goes on at step
Leave(t, step) ==
  /\ Goto(t, step)
  /\ pin'  = [pin EXCEPT ![t] = Out]
  /\ data' = [data EXCEPT ![t] = Nil]
  /\ next' = [next EXCEPT ![t] = 0]

\* where a delivery returns to: the loop over the receivers in a signal thread
Home(t) == IF t \in Workers THEN "fan" ELSE "idle"

\* Faulty variants: the slot readers use is overwritten; the offset is not masked.
CurrentOffset(p) == offset[p]
UnmaskedOffset(p) == offset[p] + 1

\* nextOffset = (offset+1) & kJMXPinDataBufferMask
NextOffset(p) == (offset[p] + 1) % 2

\* t enters deliverData: of p with v; nil and invalid data are dropped
Deliver(t, p, v) ==
  /\ IF v \in Accepts[p]
     THEN /\ Goto(t, "take")
          /\ pin'  = [pin EXCEPT ![t] = p]
          /\ data' = [data EXCEPT ![t] = v]
          /\ next' = [next EXCEPT ![t] = NextOffset(p)]
          /\ got' = IF p \in Inputs THEN [got EXCEPT ![p][v] = @ + 1] ELSE got
          /\ last' = [last EXCEPT ![p] = v]
          /\ overlapped' = [overlapped EXCEPT ![p] = @ \/ \E u \in Threads \ {t} : Storing(u, p)]
     ELSE /\ Leave(t, Home(t))
          /\ UNCHANGED <<got, last, overlapped>>

\* toRelease = dataBuffer[nextOffset]
TakeOld(t) ==
  /\ At(t, "take")
  /\ old' = [old EXCEPT ![t] = dataBuffer[pin[t]][next[t]]]
  /\ Goto(t, "store")
  /\ UNCHANGED <<bufVars, linkVars, queue, pin, data, next, todo, signal, history>>

\* dataBuffer[nextOffset] = [data retain]
Store(t) ==
  LET p == pin[t] IN
  /\ At(t, "store")
  /\ dataBuffer' = [dataBuffer EXCEPT ![p][next[t]] = data[t]]
  /\ retains' = [retains EXCEPT ![p][data[t]] = @ + 1]
  /\ Goto(t, "bump")
  /\ UNCHANGED <<offset, linkVars, queue, pin, data, next, old, todo, signal, history>>

\* Faulty variant: the offset is not incremented.
BumpNothing(t) ==
  /\ At(t, "bump")
  /\ Goto(t, "drop")
  /\ UNCHANGED <<bufVars, linkVars, queue, pin, data, next, old, todo, signal, history>>

\* OSAtomicIncrement32(&offset)
Bump(t) ==
  /\ At(t, "bump")
  /\ offset' = [offset EXCEPT ![pin[t]] = (@ + 1) % 2]
  /\ Goto(t, "drop")
  /\ UNCHANGED <<dataBuffer, retains, linkVars, queue, pin, data, next, old, todo, signal, history>>

\* t is between the load of the offset and the retain of readData
Reading(t) == pc[t] \in {"fetch", "retain"}

\* Faulty variant: the new datum is released in the place of the old one.
DropNew(t) ==
  /\ At(t, "drop")
  /\ retains' = [retains EXCEPT ![pin[t]][data[t]] = @ - 1]
  /\ old' = [old EXCEPT ![t] = Nil]
  /\ Goto(t, "post")
  /\ UNCHANGED <<dataBuffer, offset, linkVars, queue, pin, data, next, todo, signal, history>>

\* [toRelease release]; a message to nil does nothing
Drop(t) ==
  /\ At(t, "drop")
  /\ retains' = IF old[t] = Nil THEN retains
                ELSE [retains EXCEPT ![pin[t]][old[t]] = @ - 1]
  /\ old' = [old EXCEPT ![t] = Nil]
  /\ laps' = [c \in Connectors |-> IF pin[t] = Out /\ Reading(c) THEN laps[c] + 1 ELSE laps[c]]
  /\ Goto(t, "post")
  /\ UNCHANGED <<dataBuffer, offset, linkVars, queue, pin, data, next, todo, signal, written, got,
                 told, last, overlapped>>

\* The signal, nil if the pin has no owner any more, goes to a signal thread.  Which one
\* depends on a counter every pin of the program increments without synchronisation.
Post(t) ==
  LET p == pin[t] IN
  /\ At(t, "post")
  /\ \E w \in Workers :
       queue' = [queue EXCEPT ![w] =
                   Append(@, [pin |-> p, data |-> IF owned[p] THEN data[t] ELSE Nil])]
  /\ Leave(t, Home(t))
  /\ UNCHANGED <<bufVars, linkVars, old, todo, signal, history>>

(***************************************************************************)
(* The signal threads: performSignal: of an output and of an input pin.    *)
(***************************************************************************)
\* the run loop takes the next signal ...
TakeSignal(w) ==
  LET s == Head(queue[w]) IN
  /\ At(w, "idle")
  /\ queue[w] # <<>>
  /\ queue' = [queue EXCEPT ![w] = Tail(@)]
  /\ \/ /\ s.pin = Out
        /\ signal' = [signal EXCEPT ![w] = s.data]
        /\ Goto(w, "fanLock")
        /\ UNCHANGED <<pin, data>>
     \/ /\ s.pin # Out /\ owned[s.pin]
        /\ pin'  = [pin EXCEPT ![w] = s.pin]
        /\ data' = [data EXCEPT ![w] = s.data]
        /\ Goto(w, "call")
        /\ UNCHANGED signal
     \/ /\ s.pin # Out /\ ~owned[s.pin]   \* if (owner)
        /\ UNCHANGED <<pc, pin, data, signal>>
  /\ UNCHANGED <<bufVars, linkVars, next, old, todo, history>>

\* Faulty variant: the receivers are walked without the lock.
FanUnlocked(w) ==
  /\ At(w, "fanLock")
  /\ todo' = [todo EXCEPT ![w] = receivers]
  /\ Goto(w, "fan")
  /\ UNCHANGED <<bufVars, linkVars, queue, pin, data, next, old, signal, history>>

FanLock(w) ==
  /\ At(w, "fanLock")
  /\ ~receiversLock
  /\ receiversLock' = TRUE
  /\ todo' = [todo EXCEPT ![w] = receivers]
  /\ Goto(w, "fan")
  /\ UNCHANGED <<bufVars, owned, receivers, queue, pin, data, next, old, signal, history>>

\* sendData:toReceiver:withSelector:fromSender: to the next receiver
FanNext(w) ==
  /\ At(w, "fan")
  /\ \E i \in todo[w] : /\ Deliver(w, i, signal[w])
                        /\ todo' = [todo EXCEPT ![w] = @ \ {i}]
  /\ UNCHANGED <<bufVars, linkVars, queue, old, signal, written, told, laps>>

\* Faulty variant: the unlock is forgotten.
FanKeepsLock(w) ==
  /\ At(w, "fan")
  /\ todo[w] = {}
  /\ signal' = [signal EXCEPT ![w] = Nil]
  /\ Goto(w, "idle")
  /\ UNCHANGED <<bufVars, linkVars, queue, pin, data, next, old, todo, history>>

FanUnlock(w) ==
  /\ At(w, "fan")
  /\ todo[w] = {}
  /\ receiversLock' = FALSE
  /\ signal' = [signal EXCEPT ![w] = Nil]
  /\ Goto(w, "idle")
  /\ UNCHANGED <<bufVars, owned, receivers, queue, pin, data, next, old, todo, history>>

\* Faulty variant: the owner is called when the pin has been read anew.
CallOwnerCurrent(w) ==
  LET i == pin[w] IN
  /\ At(w, "call")
  /\ told' = [told EXCEPT ![i][dataBuffer[i][offset[i]]] = @ + 1]
  /\ Leave(w, "idle")
  /\ UNCHANGED <<bufVars, linkVars, queue, old, todo, signal, written, got, last, overlapped, laps>>

\* The owner, retained by the signal, gets the data; if detach cleared ownerSignal since the
\* test, it may not.
CallOwner(w) ==
  LET i == pin[w] IN
  /\ At(w, "call")
  /\ \/ told' = [told EXCEPT ![i][data[w]] = @ + 1]
     \/ ~owned[i] /\ UNCHANGED told
  /\ Leave(w, "idle")
  /\ UNCHANGED <<bufVars, linkVars, queue, old, todo, signal, written, got, last, overlapped, laps>>

(***************************************************************************)
(* The other threads.                                                      *)
(***************************************************************************)
\* A writer delivers a new value to the output pin.
Write(t) ==
  /\ At(t, "idle")
  /\ written < MaxWrites
  /\ written' = written + 1
  /\ Deliver(t, Out, written + 1)
  /\ UNCHANGED <<bufVars, linkVars, queue, old, todo, signal, told, laps>>

\* Faulty variant: nothing is sent to the new receiver.
AttachSilently(t, i) ==
  /\ At(t, "idle")
  /\ i \notin receivers
  /\ ~receiversLock
  /\ receivers' = receivers \cup {i}
  /\ UNCHANGED <<bufVars, owned, receiversLock, queue, threadVars, history>>

\* attachObject:withSelector: adds the receiver under the lock ...
Attach(t, i) ==
  /\ At(t, "idle")
  /\ i \notin receivers
  /\ ~receiversLock
  /\ receivers' = receivers \cup {i}
  /\ pin' = [pin EXCEPT ![t] = i]
  /\ Goto(t, "read")
  /\ UNCHANGED <<bufVars, owned, receiversLock, queue, data, next, old, todo, signal, history>>

\* ... and reads the output pin, in readData: the offset, the pointer in that slot, a retain ...
ReadOffset(t) ==
  /\ At(t, "read")
  /\ next' = [next EXCEPT ![t] = offset[Out]]
  /\ Goto(t, "fetch")
  /\ UNCHANGED <<bufVars, linkVars, queue, pin, data, old, todo, signal, history>>

ReadSlot(t) ==
  /\ At(t, "fetch")
  /\ data' = [data EXCEPT ![t] = dataBuffer[Out][next[t]]]
  /\ Goto(t, "retain")
  /\ UNCHANGED <<bufVars, linkVars, queue, pin, next, old, todo, signal, history>>

\* ... and delivers it to the new receiver.
SendOnConnect(t) ==
  /\ At(t, "retain")
  /\ Deliver(t, pin[t], data[t])
  /\ laps' = [laps EXCEPT ![t] = 0]
  /\ UNCHANGED <<bufVars, linkVars, queue, old, todo, signal, written, told>>

\* detach of a pin: its entity is going away
DetachOwner(p) ==
  /\ owned[p]
  /\ owned' = [owned EXCEPT ![p] = FALSE]
  /\ UNCHANGED <<bufVars, receivers, receiversLock, queue, threadVars, history>>

-----------------------------------------------------------------------------
DeliverStep(t) ==
  TakeOld(t) \/ Store(t) \/ Bump(t) \/ Drop(t) \/ Post(t)

WorkerStep(w) ==
  TakeSignal(w) \/ FanLock(w) \/ FanNext(w) \/ FanUnlock(w) \/ CallOwner(w)

ConnectStep(t) == ReadOffset(t) \/ ReadSlot(t) \/ SendOnConnect(t)

Next ==
  \/ \E t \in Threads : DeliverStep(t)
  \/ \E w \in Workers : WorkerStep(w)
  \/ \E t \in Connectors : ConnectStep(t)
  \/ \E t \in Writers : Write(t)
  \/ \E t \in Connectors, i \in Inputs : Attach(t, i)
  \/ \E p \in Detachable : DetachOwner(p)

Spec == Init /\ [][Next]_vars

\* Threads keep running.  receiversLock is a spin lock several signal threads fight for: who
\* finds it free again and again gets it in the end.  Nobody has to write or to connect.
FairSpec ==
  /\ Spec
  /\ \A t \in Threads : WF_vars(DeliverStep(t))
  /\ \A w \in Workers : SF_vars(WorkerStep(w))
  /\ \A t \in Connectors : WF_vars(ConnectStep(t))
-----------------------------------------------------------------------------
(***************************************************************************)
(* Properties.                                                             *)
(***************************************************************************)
Signals == [pin : Pins, data : Values \cup {Nil}]

\* Type invariant of the pins, the signal threads and the threads that use them.
TypeOK ==
  /\ dataBuffer \in [Pins -> [0 .. 1 -> Values \cup {Nil}]]
  /\ offset \in [Pins -> 0 .. 1]
  /\ retains \in [Pins -> [Values -> Int]]
  /\ owned \in [Pins -> BOOLEAN]
  /\ receivers \in SUBSET Inputs
  /\ receiversLock \in BOOLEAN
  /\ queue \in [Workers -> Seq(Signals)]
  /\ pc \in [Threads -> Steps]
  /\ pin \in [Threads -> Pins]
  /\ data \in [Threads -> Values \cup {Nil}]
  /\ next \in [Threads -> 0 .. 1]
  /\ old \in [Threads -> Values \cup {Nil}]
  /\ todo \in [Threads -> SUBSET Inputs]
  /\ signal \in [Threads -> Values \cup {Nil}]
  /\ written \in 0 .. MaxWrites
  /\ got \in [Inputs -> [Values -> Nat]]
  /\ told \in [Inputs -> [Values -> Nat]]
  /\ last \in [Pins -> Values \cup {Nil}]
  /\ overlapped \in [Pins -> BOOLEAN]
  /\ laps \in [Connectors -> Nat]

Places(p, v)  == Cardinality({s \in 0 .. 1 : dataBuffer[p][s] = v})
Pending(p, v) == Cardinality({t \in Threads : /\ pin[t] = p
                                              /\ pc[t] \in {"bump", "drop"}
                                              /\ old[t] = v})

\* While deliveries to a pin have not overlapped, the pin has retained each object once for
\* every slot it is in and once for every release that is still due: nothing leaks and nothing
\* is released too often.
RetainsBalance ==
  \A p \in Pins, v \in Values :
    overlapped[p] \/ retains[p][v] = Places(p, v) + Pending(p, v)

\* Outside of deliveries the data of a pin is the last value delivered to it (JMXPin.h:217),
\* as long as deliveries to it have not overlapped.
LastDelivered ==
  \A p \in Pins :
    \/ overlapped[p] \/ \E t \in Threads : Storing(t, p)
    \/ dataBuffer[p][offset[p]] = last[p]

\* The fan-outs of several signal threads never deliver to one receiver at the same time: only
\* the delivery a connecting thread makes of its own can overlap with theirs.
FanOutsDoNotOverlap ==
  \A i \in Attached : ~overlapped[i]

Waiting(i, v) ==
  Cardinality(UNION {{w} \X {k \in 1 .. Len(queue[w]) : queue[w][k] = [pin |-> i, data |-> v]} :
                       w \in Workers})
InHand(i, v) ==
  Cardinality({t \in Threads : /\ pin[t] = i /\ data[t] = v
                               /\ pc[t] \in {"take", "store", "bump", "drop", "post",
                                             "call"}})

\* While an input pin has an owner, each delivery to the pin is one call of the owner with the
\* same value, made or still on its way; and no receiver is given a value twice except the one
\* a connect sends again.
EveryDeliveryOneCall ==
  \A i \in Inputs, v \in Values :
    /\ owned[i] => told[i][v] + Waiting(i, v) + InHand(i, v) = got[i][v]
    /\ got[i][v] <= IF i \in Attached THEN 1 ELSE 2

\* One thread at most writes to the output pin.
OneWriter == \A s, t \in Writers : s = t

Quiet == /\ \A t \in Threads : At(t, "idle")
         /\ \A w \in Workers : queue[w] = <<>>

\* With one writer, when everything has come to rest every receiver, also one that was attached
\* in the middle of a write, has been given the newest value: attaching first and reading
\* afterwards leaves no gap.
NewestReachesAll ==
  Quiet /\ owned[Out] /\ OneWriter =>
    \A i \in receivers :
      \/ last[Out] \notin Accepts[i]
      \/ got[i][last[Out]] > 0
      \/ last[Out] = Initial /\ i \in Attached

\* Every value written to the output pin is in the end handed to the owner of each receiver
\* the pin had from the start, unless one of the two pins has lost its entity.
EveryWriteArrives ==
  \A i \in Attached : \A v \in (Accepts[i] \cap Accepts[Out]) \ {Initial} :
    written >= v ~> told[i][v] > 0 \/ ~owned[i] \/ ~owned[Out]

\* JMXPin.mm:42-43: the double buffer is "synchronized for writers".  No slot holds an object
\* that was released more often than it is still in use.
NoOverRelease ==
  \A p \in Pins, v \in Values : retains[p][v] >= Places(p, v)

\* What keeps an object alive: a slot that retained it, a signal, or a running call.
Alive(t, v) ==
  \/ v = Nil
  \/ \E p \in Pins : retains[p][v] > 0
  \/ \E w \in Workers : \E k \in 1 .. Len(queue[w]) : queue[w][k].data = v
  \/ \E u \in Threads \ {t} : v \in {data[u], signal[u]}

\* readData takes no lock.  With one writer, what it is about to retain has not been freed as
\* long as at most one delivery released a value since it loaded the offset: that much the
\* second slot buys (JMXPin.mm:42-43).
ReadersFindLiveData ==
  OneWriter =>
    \A t \in Connectors : At(t, "retain") /\ laps[t] <= 1 => Alive(t, data[t])
=============================================================================
