---------------------------- MODULE ProxyPins ----------------------------
(***************************************************************************)
(* The proxy pins of an entity (core/JMXEntity.mm, core/JMXProxyPin.m).    *)
(*                                                                         *)
(* A script exports pins of the entities it has made: its own entity, the  *)
(* host, gets a proxy for each of them.  A proxy does not retain the real  *)
(* pin.  Instead the main thread registers the host as an observer of the  *)
(* notifications JMXPinUnregistered and JMXPinDestroyed of the real pin,   *)
(* and the host drops the proxy when one of them is posted.  All           *)
(* notifications are posted on the main thread: other threads queue the    *)
(* call there and wait for it, except after proxyInputPin:, which does not *)
(* wait.  The main thread itself does not queue but acts at once.          *)
(*                                                                         *)
(* The GUI learns of proxies from notifyPinAdded: and notifyPinRemoved:.   *)
(* Left out: the host's own pins, the end of the host, pins without an     *)
(* entity, the set proxyPins, which nothing reads, and what the proxies    *)
(* forward.                                                                *)
(***************************************************************************)
EXTENDS Integers, Sequences, FiniteSets

CONSTANTS Pins,      \* pins of the entities a script has made
          Proxies,   \* the proxies that may be made
          Workers,   \* threads other than the main thread
          Main,      \* the main thread
          None       \* no pin, no proxy

Threads == Workers \cup {Main}

ProxyAssumption ==
  /\ Main \notin Workers
  /\ None \notin Pins \cup Proxies
  /\ Pins \cap Proxies = {}
  /\ IsFiniteSet(Proxies)

ASSUME ProxyAssumption

VARIABLES registered,  \* the pins that are registered with their entities
          freed,       \* the pins that have been deallocated
          realPin,     \* realPin[x] of the proxies that have been made, or None
          children,    \* the proxies among the children of the host
          place,       \* place[x]: how many proxies had been made before x.  Children are
                       \*   appended, so this is their order
          observers,   \* observers[p]: how often the host observes pin p
          mainQueue,   \* the calls that wait for the main thread
          pc,          \* pc[w]: where worker w stands
          arg,         \* arg[w]: the pin or the proxy it is busy with
          shown,       \* the proxies the GUI shows
          removals,    \* removals[x]: how often the removal of x was announced
          disturbed,   \* history: pins that had two proxies at once, or a proxy that
                       \*   was removed or outlived the pin ahead of its addProxyPin:
          overlapped   \* history: proxies two threads have removed at once

pins    == <<registered, freed>>
host    == <<realPin, children, place, observers>>
control == <<pc, arg>>
gui     == <<shown, removals>>
history == <<disturbed, overlapped>>
vars    == <<pins, host, mainQueue, control, gui, history>>

\* The calls on the main thread, and for which worker
Call(op, what, w) == [op |-> op, what |-> what, for |-> w]
Ops == {"addProxyPin", "notifyProxyRemoved", "removeObservers",
        "notifyPinRemoved", "notifyRelease"}

Steps == {"idle", "queueAdd", "notify", "askObservers", "observers", "detachProxy",
          "detachPin", "dealloc", "free"}

ProxiesOf(p)    == {x \in children : realPin[x] = p}
Detach(gone)    == children' = children \ gone
Busy(what)      == {w \in Workers : pc[w] # "idle" /\ arg[w] = what}
Adding(x)       == \E w \in Busy(x) : pc[w] = "queueAdd"
AddQueued(x)    == \E i \in 1 .. Len(mainQueue) : mainQueue[i] = Call("addProxyPin", x, Main)
AddPending(x)   == Adding(x) \/ AddQueued(x)
Enter(w, step, what) == /\ pc' = [pc EXCEPT ![w] = step]
                        /\ arg' = [arg EXCEPT ![w] = what]
Queue(op, what, w)   == mainQueue' = Append(mainQueue, Call(op, what, w))

Init ==
  /\ registered = Pins /\ freed = {}
  /\ realPin = [x \in Proxies |-> None]
  /\ children = {}
  /\ place = [x \in Proxies |-> 0]
  /\ observers = [p \in Pins |-> 0]
  /\ mainQueue = << >>
  /\ pc = [w \in Workers |-> "idle"] /\ arg = [w \in Workers |-> None]
  /\ shown = {} /\ removals = [x \in Proxies |-> 0]
  /\ disturbed = {} /\ overlapped = {}

(***************************************************************************)
(* proxyInputPin:withLabel:, proxyOutputPin:withLabel:.  The caller has a  *)
(* reference to the pin until the call returns.                            *)
(***************************************************************************)
Made == {x \in Proxies : realPin[x] # None}

\* Faulty variant: the proxy does not know its pin.
AddChildWithoutPin(x, p) ==
  /\ realPin[x] = None
  /\ p \notin freed /\ \A w \in Busy(p) : pc[w] \notin {"dealloc", "free"}
  /\ children' = children \cup {x}
  /\ UNCHANGED <<realPin, place, disturbed>>

AddChild(x, p) ==
  /\ realPin[x] = None
  /\ p \notin freed /\ \A w \in Busy(p) : pc[w] \notin {"dealloc", "free"}
  /\ realPin' = [realPin EXCEPT ![x] = p]
  /\ children' = children \cup {x}
  /\ place' = [place EXCEPT ![x] = Cardinality(Made)]
  /\ disturbed' = IF \E y \in Proxies : realPin[y] = p /\ (y \in children \/ Busy(y) # {})
                    THEN disturbed \cup {p} ELSE disturbed

ProxyPin(w, x, p) ==
  /\ pc[w] = "idle"
  /\ AddChild(x, p)
  /\ Enter(w, "queueAdd", x)
  /\ UNCHANGED <<pins, observers, mainQueue, gui, overlapped>>

QueueAdd(w) ==
  /\ pc[w] = "queueAdd"
  /\ Queue("addProxyPin", arg[w], Main)
  /\ Enter(w, "idle", None)
  /\ UNCHANGED <<pins, host, gui, history>>

ProxyPinOnMain(x, p) ==
  /\ AddChild(x, p)
  /\ Queue("addProxyPin", x, Main)
  /\ UNCHANGED <<pins, observers, control, gui, overlapped>>

(***************************************************************************)
(* What the main thread does                                               *)
(***************************************************************************)
\* Faulty variant: the GUI is not told.
AnnounceNothing(gone) == UNCHANGED gui

\* notifyPinRemoved: of the host, for the proxies gone
Announce(gone) ==
  /\ shown' = shown \ gone
  /\ removals' = [x \in Proxies |-> removals[x] + IF x \in gone THEN 1 ELSE 0]

\* removeObserver:name:object: takes every registration for the pin
StopObserving(p) == observers' = [observers EXCEPT ![p] = 0]

\* The first n proxies of p, in the order of the children.
FirstProxies(p, n) ==
  {x \in ProxiesOf(p) : Cardinality({y \in ProxiesOf(p) : place[y] < place[x]}) < n}

\* A notification about p is posted.  proxiedPinDestroyed: drops the first proxy
\* of p and all registrations; whether it runs again for the registrations it has
\* taken away is up to the notification center.
Post(p) ==
  IF observers[p] = 0
    THEN UNCHANGED <<children, observers, gui, overlapped>>
    ELSE \E times \in 1 .. observers[p] :
           LET gone == FirstProxies(p, times)
           IN  /\ Detach(gone)
               /\ Announce(gone)
               /\ StopObserving(p)
               /\ overlapped' = overlapped \cup {x \in gone : Busy(x) # {}}

\* performSelectorOnMainThread: the next call of the queue
Perform(op) == /\ mainQueue # << >>
               /\ Head(mainQueue).op = op
               /\ mainQueue' = Tail(mainQueue)

\* the worker that waits for the call goes on
Wake(step) == /\ pc' = [pc EXCEPT ![Head(mainQueue).for] = step]
              /\ UNCHANGED arg

\* addProxyPin: announces the proxy and observes the pin
AddProxyPin ==
  LET x == Head(mainQueue).what IN
  /\ Perform("addProxyPin")
  /\ shown' = shown \cup {x}
  /\ observers' = [observers EXCEPT ![realPin[x]] = @ + 1]
  /\ UNCHANGED <<pins, realPin, children, place, control, removals, history>>

\* notifyPinRemoved: for a proxy
NotifyProxyRemoved ==
  /\ Perform("notifyProxyRemoved")
  /\ Announce({Head(mainQueue).what})
  /\ Wake("askObservers")
  /\ UNCHANGED <<pins, host, history>>

\* Faulty variant: the host goes on observing the pin.
RemoveNoObservers ==
  /\ Perform("removeObservers")
  /\ Wake("detachProxy")
  /\ UNCHANGED <<pins, host, gui, history>>

\* removeObservers:
RemoveObservers ==
  /\ Perform("removeObservers")
  /\ StopObserving(realPin[Head(mainQueue).what])
  /\ Wake("detachProxy")
  /\ UNCHANGED <<pins, realPin, children, place, gui, history>>

\* notifyPinRemoved: for a real pin posts JMXPinUnregistered
NotifyPinRemoved ==
  /\ Perform("notifyPinRemoved")
  /\ Post(Head(mainQueue).what)
  /\ Wake("detachPin")
  /\ UNCHANGED <<pins, realPin, place, disturbed>>

\* Faulty variant: only the end of a registration is posted, not that of the pin.
ReleaseSilently ==
  /\ Perform("notifyRelease")
  /\ Wake("free")
  /\ UNCHANGED <<pins, host, gui, history>>

\* notifyRelease of the pin posts JMXPinDestroyed
NotifyRelease ==
  /\ Perform("notifyRelease")
  /\ Post(Head(mainQueue).what)
  /\ Wake("free")
  /\ UNCHANGED <<pins, realPin, place, disturbed>>

(***************************************************************************)
(* unregisterPin: of the host, for a proxy                                 *)
(***************************************************************************)
UnregisterProxy(w, x) ==
  /\ pc[w] = "idle" /\ x \in children
  /\ Enter(w, "notify", x)
  /\ Queue("notifyProxyRemoved", x, w)
  /\ overlapped' = IF Busy(x) = {} THEN overlapped ELSE overlapped \cup {x}
  /\ disturbed' = IF Adding(x) THEN disturbed \cup {realPin[x]} ELSE disturbed
  /\ UNCHANGED <<pins, host, gui>>

AskRemoveObservers(w) ==
  /\ pc[w] = "askObservers"
  /\ Enter(w, "observers", arg[w])
  /\ Queue("removeObservers", arg[w], w)
  /\ UNCHANGED <<pins, host, gui, history>>

DetachProxy(w) ==
  /\ pc[w] = "detachProxy"
  /\ Detach({arg[w]})
  /\ Enter(w, "idle", None)
  /\ UNCHANGED <<pins, realPin, place, observers, mainQueue, gui, history>>

\* Faulty variant: the proxy stays among the children.
UnregisterOnMainKeepsChild(x) ==
  /\ x \in children
  /\ Announce({x})
  /\ StopObserving(realPin[x])
  /\ disturbed' = IF AddPending(x) THEN disturbed \cup {realPin[x]} ELSE disturbed
  /\ overlapped' = IF Busy(x) = {} THEN overlapped ELSE overlapped \cup {x}
  /\ UNCHANGED <<pins, realPin, children, place, mainQueue, control>>

\* on the main thread nothing is queued
UnregisterProxyOnMain(x) ==
  /\ x \in children
  /\ Announce({x})
  /\ StopObserving(realPin[x])
  /\ Detach({x})
  /\ disturbed' = IF AddPending(x) THEN disturbed \cup {realPin[x]} ELSE disturbed
  /\ overlapped' = IF Busy(x) = {} THEN overlapped ELSE overlapped \cup {x}
  /\ UNCHANGED <<pins, realPin, place, mainQueue, control>>

(***************************************************************************)
(* unregisterPin: of the entity of a real pin                              *)
(***************************************************************************)
UnregisterPin(w, p) ==
  /\ pc[w] = "idle" /\ p \in registered
  /\ Enter(w, "notify", p)
  /\ Queue("notifyPinRemoved", p, w)
  /\ UNCHANGED <<pins, host, gui, history>>

DetachPin(w) ==
  /\ pc[w] = "detachPin"
  /\ registered' = registered \ {arg[w]}
  /\ Enter(w, "idle", None)
  /\ UNCHANGED <<freed, host, mainQueue, gui, history>>

UnregisterPinOnMain(p) ==
  /\ p \in registered
  /\ Post(p)
  /\ registered' = registered \ {p}
  /\ UNCHANGED <<freed, realPin, place, mainQueue, control, disturbed>>

(***************************************************************************)
(* dealloc of a real pin, on the thread that drops the last reference      *)
(***************************************************************************)
\* no entity, and no call in progress, has a reference to p
Unreferenced(p) ==
  /\ p \notin registered \cup freed
  /\ Busy(p) = {} /\ \A x \in Proxies : realPin[x] = p => ~Adding(x)

Dealloc(w, p) ==
  /\ pc[w] = "idle"
  /\ Unreferenced(p)
  /\ Enter(w, "dealloc", p)
  /\ Queue("notifyRelease", p, w)
  /\ UNCHANGED <<pins, host, gui, history>>

Free(w) ==
  /\ pc[w] = "free"
  /\ freed' = freed \cup {arg[w]}
  /\ Enter(w, "idle", None)
  /\ UNCHANGED <<registered, host, mainQueue, gui, history>>

DeallocOnMain(p) ==
  /\ Unreferenced(p)
  /\ Post(p)
  /\ freed' = freed \cup {p}
  /\ disturbed' = IF \E x \in Proxies : realPin[x] = p /\ AddPending(x)
                    THEN disturbed \cup {p} ELSE disturbed
  /\ UNCHANGED <<registered, realPin, place, mainQueue, control>>

-----------------------------------------------------------------------------
MainStep ==
  \/ AddProxyPin \/ NotifyProxyRemoved \/ RemoveObservers \/ NotifyPinRemoved \/ NotifyRelease
  \/ \E x \in Proxies : UnregisterProxyOnMain(x)
  \/ \E p \in Pins : UnregisterPinOnMain(p) \/ DeallocOnMain(p)
  \/ \E x \in Proxies, p \in Pins : ProxyPinOnMain(x, p)

WorkerStep(w) ==
  \/ \E x \in Proxies, p \in Pins : ProxyPin(w, x, p)
  \/ QueueAdd(w)
  \/ \E x \in Proxies : UnregisterProxy(w, x)
  \/ \E p \in Pins : UnregisterPin(w, p) \/ Dealloc(w, p)
  \/ AskRemoveObservers(w) \/ DetachProxy(w) \/ DetachPin(w) \/ Free(w)

Next ==
  \/ MainStep
  \/ \E w \in Workers : WorkerStep(w)

Spec == Init /\ [][Next]_vars

(***************************************************************************)
(* Properties                                                              *)
(***************************************************************************)
Calls == [op : Ops, what : Pins \cup Proxies, for : Threads]

\* The types of the variables.
TypeOK ==
  /\ registered \subseteq Pins /\ freed \subseteq Pins \ registered
  /\ realPin \in [Proxies -> Pins \cup {None}]
  /\ children \subseteq Made /\ place \in [Proxies -> Nat]
  /\ observers \in [Pins -> 0 .. Cardinality(Proxies)]
  /\ mainQueue \in Seq(Calls)
  /\ pc \in [Workers -> Steps] /\ arg \in [Workers -> Pins \cup Proxies \cup {None}]
  /\ shown \subseteq Proxies /\ removals \in [Proxies -> Nat]
  /\ disturbed \subseteq Pins /\ overlapped \subseteq Proxies

Quiet == mainQueue = << >> /\ \A w \in Workers : pc[w] = "idle"

\* A proxy in the host stands for a pin that exists, although it does not retain
\* it: whichever threads unregister and release the pin, the proxy is dropped
\* before the pin is freed.  The exceptions are the ways in which the host observes
\* too late or not any more: two proxies of one pin, a proxy or a pin that goes
\* ahead of the addProxyPin: in the queue, and a proxy that is being unregistered.
NoDanglingProxy ==
  \A x \in children :
    realPin[x] \in freed => realPin[x] \in disturbed \/ Busy(x) # {}

\* The observers and the proxies agree once the main thread has caught up, under
\* the same exceptions: no proxy is left without an observer that would drop it,
\* and no observation is left without a proxy.
ObservedIffProxied ==
  Quiet => \A p \in Pins \ disturbed : observers[p] = Cardinality(ProxiesOf(p))

\* The GUI shows the proxies the host has, under the same exceptions: a proxy that
\* is dropped, by its label or by the end of its pin, on any thread, disappears,
\* and none comes back.
GuiAgrees ==
  Quiet => \A x \in Proxies : realPin[x] \notin disturbed =>
             (x \in shown <=> x \in children)

\* The removal of a proxy is announced once, although unregisterPin: and the end
\* of the real pin both announce it, unless two threads remove it at once.
RemovedOnce == \A x \in Proxies : removals[x] > 1 => x \in overlapped
=============================================================================
