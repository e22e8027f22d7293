------------------------------ MODULE PinGraph ------------------------------
(***************************************************************************)
(* The connection protocol between input and output pins                   *)
(* (core/JMXInputPin.m, core/JMXOutputPin.m, core/JMXPin.mm).              *)
(*                                                                         *)
(* An input pin keeps the array of its producers under producersLock, an   *)
(* output pin the dictionary of its receivers under receiversLock.  Any    *)
(* thread (the main thread of the GUI, script threads, entity threads,     *)
(* signal threads) may call any method, so a method is cut into the steps  *)
(* between which another thread can run: taking a spin lock, leaving a     *)
(* critical section, and waiting for the main queue to post a              *)
(* notification.  A spin lock is not recursive and knows no owner.         *)
(*                                                                         *)
(* Left out: the order of the producers array (it is a bag here), the data *)
(* that flows over a link, and the XML elements that mirror the links.     *)
(***************************************************************************)
EXTENDS Integers

CONSTANTS InputPins, OutputPins,
          Threads, Main,   \* the threads that call methods; Main runs the main queue
          PinType,         \* [pins -> {"void","string","text","code","number",...}]
          PinMode,         \* [pins -> {"auto","active","passive"}]
          Multiple,        \* the input pins with allowMultipleConnections:YES
          Repaired,        \* the input pins whose connectToPin: is given the unlock it
                           \* lacks at JMXInputPin.m:126; {} is the code as it stands
          None,            \* no pin
          MaxCalls         \* bound of the model: method calls made altogether

Pins == InputPins \cup OutputPins

PinAssumption ==
  /\ InputPins \cap OutputPins = {}
  /\ Main \in Threads
  /\ Multiple \subseteq InputPins
  /\ Repaired \subseteq InputPins
  /\ None \notin Pins
  /\ MaxCalls \in Nat
  /\ PinMode \in [Pins -> {"auto", "active", "passive"}]

ASSUME PinAssumption

VARIABLES producers,      \* producers[i][o]: how often o is in the producers array of i
          passiveCount,   \* passiveCount[i]: passiveProducersCount
          producersLock,  \* producersLock[i]: is the spin lock taken
          inConnected,    \* inConnected[i]: the connected flag of an input pin
          receivers,      \* receivers[o]: the input pins o sends its signals to
          receiversLock,  \* receiversLock[o]: is the spin lock taken
          outConnected,   \* outConnected[o]: the connected flag of an output pin
          pc,             \* pc[t]: where thread t stands in the method it executes
          in, out,        \* in[t], out[t]: the pins of that method, or None
          todo,           \* todo[t]: receivers disconnectAllPins has still to disconnect
          calls           \* number of calls made so far

inVars  == <<producers, passiveCount, producersLock, inConnected>>
outVars == <<receivers, receiversLock, outConnected>>
thVars  == <<pc, in, out, todo>>
vars    == <<inVars, outVars, thVars, calls>>

LinkSteps   == {"connect", "evict", "evicted", "attach", "attached", "connecting",
                "disconnect", "detach", "detached", "disconnecting"}
InputSteps  == {"clear", "nested", "move", "gather", "read", "fetch", "crashed"}
OutputSteps == {"clearOut", "signal", "fanOut"}
Steps       == {"idle"} \cup LinkSteps \cup InputSteps \cup OutputSteps

At(t, step) == pc[t] = step

Goto(t, step) == /\ pc' = [pc EXCEPT ![t] = step]
                 /\ UNCHANGED <<in, out, todo>>

Begin(t, step, i, o, rest) == /\ pc' = [pc EXCEPT ![t] = step]
                              /\ in' = [in EXCEPT ![t] = i]
                              /\ out' = [out EXCEPT ![t] = o]
                              /\ todo' = [todo EXCEPT ![t] = rest]

Return(t) == Begin(t, "idle", None, None, {})

(***************************************************************************)
(* canConnectToPin:.  The types are equal or both lie in the mask          *)
(* Text|Code|Text; one mode is auto, or one is active and one passive.     *)
(***************************************************************************)
TypesAgree(i, o) == \/ PinType[i] = PinType[o]
                    \/ {PinType[i], PinType[o]} \subseteq {"text", "code"}
ModesAgree(i, o) == \/ "auto" \in {PinMode[i], PinMode[o]}
                    \/ {PinMode[i], PinMode[o]} = {"active", "passive"}
CanConnect(i, o) == TypesAgree(i, o) /\ ModesAgree(i, o)

Passive(o) == PinMode[o] = "passive"
Linked(i)  == {o \in OutputPins : producers[i][o] > 0}

Init ==
  /\ producers     = [i \in InputPins |-> [o \in OutputPins |-> 0]]
  /\ passiveCount  = [i \in InputPins |-> 0]
  /\ producersLock = [i \in InputPins |-> FALSE]
  /\ inConnected   = [i \in InputPins |-> FALSE]
  /\ receivers     = [o \in OutputPins |-> {}]
  /\ receiversLock = [o \in OutputPins |-> FALSE]
  /\ outConnected  = [o \in OutputPins |-> FALSE]
  /\ pc   = [t \in Threads |-> "idle"]
  /\ in   = [t \in Threads |-> None]
  /\ out  = [t \in Threads |-> None]
  /\ todo = [t \in Threads |-> {}]
  /\ calls = 0

(***************************************************************************)
(* A thread enters a method.                                               *)
(***************************************************************************)
Enter(t, step, i, o) ==
  /\ At(t, "idle")
  /\ calls < MaxCalls
  /\ calls' = calls + 1
  /\ Begin(t, step, i, o, {})
  /\ UNCHANGED <<inVars, outVars>>

\* connectToPin: of either pin; the output pin's forwards to the input pin's.
CallConnect(t, i, o) == CanConnect(i, o) /\ Enter(t, "connect", i, o)

\* disconnectFromPin: of either pin; nothing requires the two to be connected.
CallDisconnect(t, i, o) == Enter(t, "disconnect", i, o)

\* disconnectAllPins, moveProducerFromIndex:toIndex:, readProducers and readData
\* of an input pin.
CallInput(t, i) == \E step \in {"clear", "move", "gather", "read"} : Enter(t, step, i, None)

\* disconnectAllPins and performSignal: of an output pin.
CallOutput(t, o) == \E step \in {"clearOut", "signal"} : Enter(t, step, None, o)

\* postNotificationName: runs on the main queue and the caller waits for it
\* (waitUntilFinished:YES), which needs the main thread back in its run loop.
Notified(t) == t = Main \/ At(Main, "idle")

\* Faulty variant: the lock is not waited for.
NeverWaits(i) == TRUE

\* OSSpinLockLock(&producersLock) gets the lock
Free(i) == ~producersLock[i]

(***************************************************************************)
(* JMXInputPin connectToPin:                                               *)
(***************************************************************************)
\* Faulty variant: multiple is not looked at.
NeverReplaces(i) == FALSE

\* [producers count] && !multiple
Replaces(i) == Linked(i) # {} /\ i \notin Multiple

ConnectLock(t) ==
  LET i == in[t] IN
  /\ At(t, "connect")
  /\ Free(i)
  /\ producersLock' = [producersLock EXCEPT ![i] = TRUE]
  /\ Goto(t, IF Replaces(i) THEN "evict" ELSE "attach")
  /\ UNCHANGED <<producers, passiveCount, inConnected, outVars, calls>>

\* Faulty variants: the receiver is kept; the flag is cleared whoever is left.
DetachKeepsReceiver(i, o) ==
  /\ ~receiversLock[o]
  /\ outConnected' = [outConnected EXCEPT ![o] = @ /\ receivers[o] \ {i} # {}]
  /\ UNCHANGED <<receivers, receiversLock>>

DetachClearsFlag(i, o) ==
  /\ ~receiversLock[o]
  /\ receivers' = [receivers EXCEPT ![o] = @ \ {i}]
  /\ outConnected' = [outConnected EXCEPT ![o] = FALSE]
  /\ UNCHANGED receiversLock

\* detachObject: of output pin o for receiver i
DetachObject(i, o) ==
  /\ ~receiversLock[o]
  /\ receivers' = [receivers EXCEPT ![o] = @ \ {i}]
  /\ outConnected' = [outConnected EXCEPT ![o] = @ /\ receivers[o] \ {i} # {}]
  /\ UNCHANGED receiversLock

\* [producer detachObject:self] of the producer that is replaced
Evict(t) ==
  /\ At(t, "evict")
  /\ \E p \in Linked(in[t]) : DetachObject(in[t], p)
  /\ Goto(t, "evicted")
  /\ UNCHANGED <<inVars, calls>>

\* the disconnect notification, then passiveProducersCount-- and removeObjectAtIndex:0
Evicted(t) ==
  LET i == in[t] IN
  /\ At(t, "evicted")
  /\ Notified(t)
  /\ \E p \in Linked(i) :
       /\ passiveCount' = [passiveCount EXCEPT ![i] = IF Passive(p) THEN @ - 1 ELSE @]
       /\ producers' = [producers EXCEPT ![i][p] = @ - 1]
  /\ Goto(t, "attach")
  /\ UNCHANGED <<producersLock, inConnected, outVars, calls>>

\* Faulty variant: receivers is changed without receiversLock.
AttachUnlocked(t) ==
  /\ At(t, "attach")
  /\ receivers' = [receivers EXCEPT ![out[t]] = @ \cup {in[t]}]
  /\ Goto(t, "attached")
  /\ UNCHANGED <<inVars, receiversLock, outConnected, calls>>

\* attachObject:withSelector: up to the unlock of receiversLock
Attach(t) ==
  LET i == in[t]
      o == out[t] IN
  /\ At(t, "attach")
  /\ ~receiversLock[o]
  /\ receivers' = [receivers EXCEPT ![o] = @ \cup {i}]
  /\ Goto(t, "attached")
  /\ UNCHANGED <<inVars, receiversLock, outConnected, calls>>

\* the rest of attachObject:withSelector: and the bookkeeping of the input pin, which
\* other threads can only observe in the order producers, then passiveProducersCount
Attached(t) ==
  LET i == in[t]
      o == out[t] IN
  /\ At(t, "attached")
  /\ outConnected' = [outConnected EXCEPT ![o] = TRUE]
  /\ producers' = [producers EXCEPT ![i][o] = @ + 1]
  /\ inConnected' = [inConnected EXCEPT ![i] = TRUE]
  /\ passiveCount' = [passiveCount EXCEPT ![i] = IF Passive(o) THEN @ + 1 ELSE @]
  /\ Goto(t, "connecting")
  /\ UNCHANGED <<producersLock, receivers, receiversLock, calls>>

\* return [super connectToPin:destinationPin] posts the notification and returns:
\* the OSSpinLockUnlock two lines below is not reached
Connected(t) ==
  LET i == in[t] IN
  /\ At(t, "connecting")
  /\ Notified(t)
  /\ producersLock' = [producersLock EXCEPT ![i] = i \notin Repaired]
  /\ Return(t)
  /\ UNCHANGED <<producers, passiveCount, inConnected, outVars, calls>>

(***************************************************************************)
(* JMXInputPin disconnectFromPin:                                          *)
(***************************************************************************)
DisconnectLock(t) ==
  LET i == in[t] IN
  /\ At(t, "disconnect")
  /\ Free(i)
  /\ producersLock' = [producersLock EXCEPT ![i] = TRUE]
  /\ producers' = [producers EXCEPT ![i][out[t]] = 0]
  /\ Goto(t, "detach")
  /\ UNCHANGED <<passiveCount, inConnected, outVars, calls>>

Detach(t) ==
  /\ At(t, "detach")
  /\ DetachObject(in[t], out[t])
  /\ Goto(t, "detached")
  /\ UNCHANGED <<inVars, calls>>

DisconnectUnlock(t) ==
  LET i == in[t] IN
  /\ At(t, "detached")
  /\ passiveCount' = [passiveCount EXCEPT ![i] = IF Passive(out[t]) THEN @ - 1 ELSE @]
  /\ inConnected' = [inConnected EXCEPT ![i] = @ /\ Linked(i) # {}]
  /\ producersLock' = [producersLock EXCEPT ![i] = FALSE]
  /\ Goto(t, "disconnecting")
  /\ UNCHANGED <<producers, outVars, calls>>

\* the notification; disconnectAllPins of an output pin goes on with its next receiver
Disconnected(t) ==
  /\ At(t, "disconnecting")
  /\ Notified(t)
  /\ IF todo[t] = {}
     THEN Return(t)
     ELSE \E i \in todo[t] : Begin(t, "disconnect", i, out[t], todo[t] \ {i})
  /\ UNCHANGED <<inVars, outVars, calls>>

(***************************************************************************)
(* disconnectAllPins.  The input pin calls disconnectFromPin: with         *)
(* producersLock in hand; that call then spins on the same lock, so "nested" *)
(* has no step.  The output pin copies its receivers under receiversLock.  *)
(***************************************************************************)
DisconnectAllInput(t) ==
  LET i == in[t] IN
  /\ At(t, "clear")
  /\ Free(i)
  /\ IF Linked(i) = {}
     THEN /\ passiveCount' = [passiveCount EXCEPT ![i] = 0]
          /\ Return(t)
          /\ UNCHANGED producersLock
     ELSE /\ producersLock' = [producersLock EXCEPT ![i] = TRUE]
          /\ Goto(t, "nested")
          /\ UNCHANGED passiveCount
  /\ UNCHANGED <<producers, inConnected, outVars, calls>>

\* Faulty variant: the two pins are swapped in the call.
DisconnectAllSwapped(t) ==
  LET o == out[t] IN
  /\ At(t, "clearOut")
  /\ ~receiversLock[o]
  /\ IF receivers[o] = {}
     THEN Return(t)
     ELSE \E i \in receivers[o] : Begin(t, "disconnect", o, i, receivers[o] \ {i})
  /\ UNCHANGED <<inVars, outVars, calls>>

DisconnectAllOutput(t) ==
  LET o == out[t] IN
  /\ At(t, "clearOut")
  /\ ~receiversLock[o]
  /\ IF receivers[o] = {}
     THEN Return(t)
     ELSE \E i \in receivers[o] : Begin(t, "disconnect", i, o, receivers[o] \ {i})
  /\ UNCHANGED <<inVars, outVars, calls>>

(***************************************************************************)
(* The other users of the locks.  moveProducerFromIndex:toIndex: returns   *)
(* with the lock taken when it moved something.                            *)
(***************************************************************************)
MoveProducer(t) ==
  LET i == in[t] IN
  /\ At(t, "move")
  /\ Free(i)
  /\ \/ UNCHANGED producersLock              \* dst is past the end
     \/ /\ Linked(i) # {}
        /\ producersLock' = [producersLock EXCEPT ![i] = TRUE]
  /\ Return(t)
  /\ UNCHANGED <<producers, passiveCount, inConnected, outVars, calls>>

\* Faulty variant: the unlock is forgotten.
GatherKeepsLock(t) ==
  /\ At(t, "gather")
  /\ Free(in[t])
  /\ producersLock' = [producersLock EXCEPT ![in[t]] = TRUE]
  /\ Return(t)
  /\ UNCHANGED <<producers, passiveCount, inConnected, outVars, calls>>

\* readProducers: lock, read every producer, unlock
ReadProducers(t) ==
  /\ At(t, "gather")
  /\ Free(in[t])
  /\ Return(t)
  /\ UNCHANGED <<inVars, outVars, calls>>

\* readData takes no lock: it tests passiveProducersCount ...
ReadData(t) ==
  /\ At(t, "read")
  /\ IF passiveCount[in[t]] # 0 THEN Goto(t, "fetch") ELSE Return(t)
  /\ UNCHANGED <<inVars, outVars, calls>>

\* ... and then takes producers[0], which raises NSRangeException when there is none
FetchProducer(t) ==
  /\ At(t, "fetch")
  /\ IF Linked(in[t]) = {} THEN Goto(t, "crashed") ELSE Return(t)
  /\ UNCHANGED <<inVars, outVars, calls>>

\* performSignal: holds receiversLock while it delivers to every receiver
SignalLock(t) ==
  LET o == out[t] IN
  /\ At(t, "signal")
  /\ ~receiversLock[o]
  /\ receiversLock' = [receiversLock EXCEPT ![o] = TRUE]
  /\ Goto(t, "fanOut")
  /\ UNCHANGED <<inVars, receivers, outConnected, calls>>

\* Faulty variant: the unlock is forgotten.
SignalKeepsLock(t) ==
  /\ At(t, "fanOut")
  /\ Return(t)
  /\ UNCHANGED <<inVars, outVars, calls>>

SignalUnlock(t) ==
  /\ At(t, "fanOut")
  /\ receiversLock' = [receiversLock EXCEPT ![out[t]] = FALSE]
  /\ Return(t)
  /\ UNCHANGED <<inVars, receivers, outConnected, calls>>

-----------------------------------------------------------------------------
Call(t) ==
  \/ \E i \in InputPins, o \in OutputPins : CallConnect(t, i, o)
  \/ \E i \in InputPins, o \in OutputPins : CallDisconnect(t, i, o)
  \/ \E i \in InputPins : CallInput(t, i)
  \/ \E o \in OutputPins : CallOutput(t, o)

Step(t) ==
  \/ ConnectLock(t) \/ Evict(t) \/ Evicted(t) \/ Attach(t) \/ Attached(t) \/ Connected(t)
  \/ DisconnectLock(t) \/ Detach(t) \/ DisconnectUnlock(t) \/ Disconnected(t)
  \/ DisconnectAllInput(t) \/ DisconnectAllOutput(t)
  \/ MoveProducer(t) \/ ReadProducers(t) \/ ReadData(t) \/ FetchProducer(t)
  \/ SignalLock(t) \/ SignalUnlock(t)

Next == \E t \in Threads : Call(t) \/ Step(t)

Spec == Init /\ [][Next]_vars

\* Every thread keeps running; nothing obliges anybody to make a call.  A spin lock is
\* not fair, but a step that is possible again and again is taken in the end.
FairSpec == Spec /\ \A t \in Threads : SF_vars(Step(t))
-----------------------------------------------------------------------------
(***************************************************************************)
(* Properties.                                                             *)
(***************************************************************************)
\* Type invariant of the state of JMXInputPin, JMXOutputPin and the callers.
TypeOK ==
  /\ producers \in [InputPins -> [OutputPins -> Nat]]
  /\ passiveCount \in [InputPins -> Int]
  /\ producersLock \in [InputPins -> BOOLEAN]
  /\ inConnected \in [InputPins -> BOOLEAN]
  /\ receivers \in [OutputPins -> SUBSET InputPins]
  /\ receiversLock \in [OutputPins -> BOOLEAN]
  /\ outConnected \in [OutputPins -> BOOLEAN]
  /\ pc \in [Threads -> Steps]
  /\ in \in [Threads -> InputPins \cup {None}]
  /\ out \in [Threads -> OutputPins \cup {None}]
  /\ todo \in [Threads -> SUBSET InputPins]
  /\ calls \in 0 .. MaxCalls

\* The steps between OSSpinLockLock and OSSpinLockUnlock of producersLock.
Holding == {"evict", "evicted", "attach", "attached", "connecting",
            "detach", "detached", "nested"}
Holds(t, i) == in[t] = i /\ pc[t] \in Holding

\* Two threads are never inside the critical sections of one input pin at once, whatever
\* mix of connects, disconnects, moves and reads they run.
MutualExclusion == \A t, u \in Threads, i \in InputPins : Holds(t, i) /\ Holds(u, i) => t = u

\* A lock nobody works under has been abandoned by connectToPin: or
\* moveProducerFromIndex:toIndex:, which happens to a connected pin only: a pin that was
\* never connected can always be locked.
AbandonedOnlyWhenConnected ==
  \A i \in InputPins :
    producersLock[i] /\ (\A t \in Threads : ~Holds(t, i)) => Linked(i) # {}

\* The two ends of a link agree: o is among the producers of i exactly when i is among the
\* receivers of o, except while the thread that holds producersLock is between the two
\* updates.
Unsettled(i, o) ==
  \E t \in Threads : /\ in[t] = i
                     /\ \/ pc[t] \in {"attached", "detach"} /\ out[t] = o
                        \/ pc[t] = "evicted" /\ o \in Linked(i)

LinkAgreement ==
  \A i \in InputPins, o \in OutputPins :
    Unsettled(i, o) \/ (i \in receivers[o] <=> o \in Linked(i))

\* A pin that does not allow multiple connections has at most one producer: connecting a
\* second one replaces the first.
SingleProducer ==
  \A i \in InputPins \ Multiple, o, p \in OutputPins :
    /\ producers[i][o] <= 1
    /\ {o, p} \subseteq Linked(i) => o = p

\* The connected flag of either kind of pin tells whether it has a link, except while a
\* thread is between the update of the links and the update of the flag.
FlagAgreement ==
  /\ \A i \in InputPins :
       \/ inConnected[i] <=> Linked(i) # {}
       \/ \E t \in Threads : in[t] = i /\ pc[t] \in {"attach", "attached", "detach", "detached"}
  /\ \A o \in OutputPins :
       \/ outConnected[o] <=> receivers[o] # {}
       \/ \E t \in Threads : out[t] = o /\ pc[t] = "attached"

\* The receivers of an output pin do not change while performSignal: walks them: nobody is
\* attached or detached in the middle of a fan-out.
StableFanOut ==
  [][\A o \in OutputPins : receiversLock[o] => receivers'[o] = receivers[o]]_vars

\* performSignal: always comes to its end, however many other threads spin for ever on a
\* producersLock or wait for a main thread that spins: receiversLock is never kept.
SignalsReturn == \A t \in Threads : At(t, "signal") ~> At(t, "idle")

\* JMXPin.h:373-378: connectToPin: makes the connection and returns YES, or returns NO.
ConnectReturns == \A t \in Threads : At(t, "connect") ~> At(t, "idle")

\* JMXInputPin.h:64-68: disconnecting a pin that is not connected does nothing, so reading
\* the input pin afterwards still works.
StrayDisconnectHarmless == \A t \in Threads : ~At(t, "crashed")
=============================================================================
