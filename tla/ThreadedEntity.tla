-------------------------- MODULE ThreadedEntity --------------------------
(***************************************************************************)
(* Starting and stopping the thread of a threaded entity                   *)
(* (core/JMXThreadedEntity.mm, setActive: of core/JMXEntity.mm).           *)
(*                                                                         *)
(* A JMXThreadedEntity registers itself in the private data of the entity  *)
(* it wraps.  setActive: of the entity looks it up there and starts or     *)
(* stops its thread, the worker.  setActive: is called by client threads   *)
(* (the GUI, scripts, signal threads through the active pin) and by the    *)
(* workers themselves: with YES when they begin, with NO when they end,    *)
(* and with NO in the tick of a movie that has ended.  Only the flag and   *)
(* the private data are locked, each for itself.                           *)
(*                                                                         *)
(* The threads are numbered in the order in which they are allocated.      *)
(* Left out: what a tick does otherwise, the pace of the ticks, and        *)
(* setActive: of the proxy, which calls start or stop of the entity when   *)
(* its flag differs: a call its clients may also make directly.            *)
(***************************************************************************)
EXTENDS Integers, FiniteSets

CONSTANTS Clients,     \* the threads that activate and deactivate the entity
          MaxWorkers,  \* bound of the model: threads allocated altogether
          MaxCalls     \* bound of the model: calls the clients make altogether

Workers == 1 .. MaxWorkers
Threads == Clients \cup Workers
Nil     == 0

ThreadedAssumption ==
  /\ Clients \cap Workers = {}
  /\ MaxWorkers \in Nat \ {0}
  /\ MaxCalls \in Nat

ASSUME ThreadedAssumption

VARIABLES active,      \* active of the entity
          registered,  \* is the threaded entity in the private data of the entity
          worker,      \* worker: the current NSThread, or Nil
          quit,        \* quit
          cancelled,   \* cancelled[n]: isCancelled of thread n
          refs,        \* refs[n]: retain count of thread n
          created,     \* number of threads allocated so far
          pc,          \* pc[t]: where thread t stands
          arg,         \* arg[t]: the argument of the setActive: t executes
          ret,         \* ret[t]: where t goes on after it
          calls,       \* number of calls the clients have made
          requested,   \* the argument of the latest of them
          collided     \* have two threads been inside startThread or stopThread at once

entVars == <<active, registered>>
thVars  == <<worker, quit, cancelled, refs, created>>
ctlVars == <<pc, arg, ret>>
history == <<calls, requested, collided>>
vars    == <<entVars, thVars, ctlVars, history>>

StartSteps == {"register", "create", "launch", "resetQuit"}
StopSteps  == {"cancel", "release", "clear", "unregister"}
CallSteps  == {"set", "lookup", "startThread", "stopThread"} \cup StartSteps \cup StopSteps
Steps      == CallSteps \cup {"idle", "none", "allocated", "begin", "loop", "exit", "done"}

At(t, step)   == pc[t] = step
Goto(t, step) == /\ pc' = [pc EXCEPT ![t] = step]
                 /\ UNCHANGED <<arg, ret>>
Return(t)     == Goto(t, ret[t])

\* t calls setActive: of the entity with value and goes on at step afterwards
SetActive(t, value, step) ==
  /\ pc'  = [pc EXCEPT ![t] = "set"]
  /\ arg' = [arg EXCEPT ![t] = value]
  /\ ret' = [ret EXCEPT ![t] = step]

\* t enters the body of startThread or stopThread
Enter(t, step) ==
  /\ Goto(t, step)
  /\ collided' = (collided \/ \E u \in Threads \ {t} : pc[u] \in StartSteps \cup StopSteps)
  /\ UNCHANGED <<calls, requested>>

\* initWithEntity: has set the entity active and started the first thread
Init ==
  /\ active = TRUE /\ registered = TRUE
  /\ worker = 1 /\ created = 1 /\ quit = FALSE
  /\ cancelled = [n \in Workers |-> FALSE]
  /\ refs = [n \in Workers |-> IF n = 1 THEN 2 ELSE 0]
  /\ pc   = [t \in Threads |-> CASE t \in Clients -> "idle"
                                 [] t = 1         -> "begin"
                                 [] OTHER         -> "none"]
  /\ arg  = [t \in Threads |-> TRUE]
  /\ ret  = [t \in Threads |-> "idle"]
  /\ calls = 0 /\ requested = TRUE /\ collided = FALSE

(***************************************************************************)
(* setActive: of the entity.                                               *)
(***************************************************************************)
Call(t, value) ==
  /\ At(t, "idle")
  /\ calls < MaxCalls
  /\ calls' = calls + 1
  /\ requested' = value
  /\ SetActive(t, value, "idle")
  /\ UNCHANGED <<entVars, thVars, collided>>

\* @synchronized(activeOut): the flag
SetFlag(t) ==
  /\ At(t, "set")
  /\ active' = arg[t]
  /\ Goto(t, "lookup")
  /\ UNCHANGED <<registered, thVars, history>>

\* privateDataForKey:@"threadedEntity"
Lookup(t) ==
  /\ At(t, "lookup")
  /\ IF registered THEN Goto(t, IF arg[t] THEN "startThread" ELSE "stopThread") ELSE Return(t)
  /\ UNCHANGED <<entVars, thVars, history>>

(***************************************************************************)
(* startThread                                                             *)
(***************************************************************************)
\* if (!worker)
StartThread(t) ==
  /\ At(t, "startThread")
  /\ \/ worker = Nil /\ Enter(t, "register")
     \/ worker # Nil /\ Return(t) /\ UNCHANGED history
  /\ UNCHANGED <<entVars, thVars>>

Register(t) ==
  /\ At(t, "register")
  /\ registered' = TRUE
  /\ Goto(t, "create")
  /\ UNCHANGED <<active, thVars, history>>

\* worker = [[NSThread alloc] initWithTarget:...]
Create(t) ==
  LET n == created + 1 IN
  /\ At(t, "create")
  /\ n \in Workers
  /\ created' = n
  /\ worker' = n
  /\ refs' = [refs EXCEPT ![n] = 1]
  /\ pc' = [pc EXCEPT ![t] = "launch", ![n] = "allocated"]
  /\ UNCHANGED <<entVars, quit, cancelled, arg, ret, history>>

\* [worker start]: a running thread retains itself
Launch(t) ==
  /\ At(t, "launch")
  /\ IF worker # Nil /\ pc[worker] = "allocated"
     THEN /\ pc' = [pc EXCEPT ![t] = "resetQuit", ![worker] = "begin"]
          /\ refs' = [refs EXCEPT ![worker] = @ + 1]
          /\ UNCHANGED <<arg, ret>>
     ELSE Goto(t, "resetQuit") /\ UNCHANGED refs
  /\ UNCHANGED <<entVars, worker, quit, cancelled, created, history>>

ResetQuit(t) ==
  /\ At(t, "resetQuit")
  /\ quit' = FALSE
  /\ Return(t)
  /\ UNCHANGED <<entVars, worker, cancelled, refs, created, history>>

(***************************************************************************)
(* stopThread                                                              *)
(***************************************************************************)
\* if (worker)
StopThread(t) ==
  /\ At(t, "stopThread")
  /\ \/ worker # Nil /\ Enter(t, "cancel")
     \/ worker = Nil /\ Return(t) /\ UNCHANGED history
  /\ UNCHANGED <<entVars, thVars>>

\* Faulty variant: the thread is not cancelled.
CancelNothing(t) ==
  /\ At(t, "cancel")
  /\ quit' = TRUE
  /\ Goto(t, "release")
  /\ UNCHANGED <<entVars, worker, cancelled, refs, created, history>>

\* quit = YES; [worker cancel]; a message to nil does nothing
Cancel(t) ==
  /\ At(t, "cancel")
  /\ quit' = TRUE
  /\ cancelled' = IF worker = Nil THEN cancelled ELSE [cancelled EXCEPT ![worker] = TRUE]
  /\ Goto(t, "release")
  /\ UNCHANGED <<entVars, worker, refs, created, history>>

\* Faulty variant: the retain of the worker variable is never given back.
ReleaseNothing(t) ==
  /\ At(t, "release")
  /\ Goto(t, "clear")
  /\ UNCHANGED <<entVars, thVars, history>>

\* [worker release]
Release(t) ==
  /\ At(t, "release")
  /\ refs' = IF worker = Nil THEN refs ELSE [refs EXCEPT ![worker] = @ - 1]
  /\ Goto(t, "clear")
  /\ UNCHANGED <<entVars, worker, quit, cancelled, created, history>>

\* worker = nil
Clear(t) ==
  /\ At(t, "clear")
  /\ worker' = Nil
  /\ Goto(t, "unregister")
  /\ UNCHANGED <<entVars, quit, cancelled, refs, created, history>>

\* Faulty variant: the threaded entity stays registered.
UnregisterNothing(t) ==
  /\ At(t, "unregister")
  /\ Return(t)
  /\ UNCHANGED <<entVars, thVars, history>>

\* removePrivateDataForKey:@"threadedEntity"
Unregister(t) ==
  /\ At(t, "unregister")
  /\ registered' = FALSE
  /\ Return(t)
  /\ UNCHANGED <<active, thVars, history>>

(***************************************************************************)
(* run of a worker.                                                        *)
(***************************************************************************)
Begin(n) ==
  /\ At(n, "begin")
  /\ SetActive(n, TRUE, "loop")
  /\ UNCHANGED <<entVars, thVars, history>>

\* a tick that deactivates the entity: its movie has ended and is not repeated
TickStops(n) ==
  /\ At(n, "loop")
  /\ ~cancelled[n]
  /\ SetActive(n, FALSE, "loop")
  /\ UNCHANGED <<entVars, thVars, history>>

\* Faulty variant: a worker ends inside setActive: and is never released.
EndLeaks(n) ==
  /\ At(n, "loop")
  /\ cancelled[n]
  /\ SetActive(n, FALSE, "done")
  /\ UNCHANGED <<entVars, thVars, history>>

\* Faulty variant: the end of a worker does not deactivate the entity.
EndSilently(n) ==
  /\ At(n, "loop")
  /\ cancelled[n]
  /\ Goto(n, "exit")
  /\ UNCHANGED <<entVars, thVars, history>>

\* while (![currentThread isCancelled]) is left
End(n) ==
  /\ At(n, "loop")
  /\ cancelled[n]
  /\ SetActive(n, FALSE, "exit")
  /\ UNCHANGED <<entVars, thVars, history>>

\* the thread releases itself
Exit(n) ==
  /\ At(n, "exit")
  /\ refs' = [refs EXCEPT ![n] = @ - 1]
  /\ Goto(n, "done")
  /\ UNCHANGED <<entVars, worker, quit, cancelled, created, history>>

-----------------------------------------------------------------------------
CallStep(t) ==
  \/ SetFlag(t) \/ Lookup(t)
  \/ StartThread(t) \/ Register(t) \/ Create(t) \/ Launch(t) \/ ResetQuit(t)
  \/ StopThread(t) \/ Cancel(t) \/ Release(t) \/ Clear(t) \/ Unregister(t)

RunStep(n) == Begin(n) \/ End(n) \/ Exit(n)

Next ==
  \/ \E t \in Clients, value \in BOOLEAN : Call(t, value)
  \/ \E t \in Threads : CallStep(t)
  \/ \E n \in Workers : RunStep(n) \/ TickStops(n)

Spec == Init /\ [][Next]_vars

\* Every thread runs on; nobody has to call, and no tick has to stop.
FairSpec ==
  /\ Spec
  /\ \A t \in Threads : WF_vars(CallStep(t))
  /\ \A n \in Workers : WF_vars(RunStep(n))
-----------------------------------------------------------------------------
(***************************************************************************)
(* Properties.                                                             *)
(***************************************************************************)
\* Type invariant of the entity, its thread and the threads that call setActive:.
TypeOK ==
  /\ active \in BOOLEAN /\ registered \in BOOLEAN /\ quit \in BOOLEAN
  /\ worker \in 0 .. created
  /\ cancelled \in [Workers -> BOOLEAN]
  /\ refs \in [Workers -> Int]
  /\ created \in Workers
  /\ pc \in [Threads -> Steps]
  /\ arg \in [Threads -> BOOLEAN]
  /\ ret \in [Threads -> {"idle", "loop", "exit"}]
  /\ calls \in 0 .. MaxCalls
  /\ requested \in BOOLEAN
  /\ collided \in BOOLEAN

Live(n)    == pc[n] \in CallSteps \cup {"begin", "loop", "exit"}
Ticking(n) == Live(n) /\ ~cancelled[n]
Inside     == {t \in Threads : pc[t] \in StartSteps \cup StopSteps}
OneClient  == \A s, t \in Clients : s = t
Settled    == \A t \in Threads : pc[t] \notin CallSteps

\* Unless two threads were inside startThread or stopThread at once, each NSThread has one
\* retain for the worker variable that holds it and one for running.
RefsBalance ==
  \A n \in 1 .. created :
    collided \/ refs[n] = (IF worker = n /\ \A t \in Threads : ~At(t, "clear") THEN 1 ELSE 0)
                        + (IF Live(n) THEN 1 ELSE 0)

\* Under the same condition a thread that goes on ticking can be stopped: it is the worker and
\* the entity finds its threaded entity.
TickingIsStoppable ==
  ~collided /\ Inside = {} =>
    /\ \A n \in Workers : Ticking(n) => worker = n /\ registered
    /\ registered <=> worker # Nil

\* Under the same condition, when the last request of the only client was to deactivate and no
\* call is running, a thread that ticks is followed by one that is about to end, whose end stops
\* it.  (The requests of several clients may be carried out in another order.)
StopReachesAll ==
  OneClient /\ ~collided /\ Settled /\ ~requested =>
    \A n \in Workers : Ticking(n) => \E m \in Workers : Live(m) /\ cancelled[m]

\* Under the same condition a thread ticks for an active entity.
TickingIsActive ==
  ~collided /\ Settled => \A n \in Workers : Ticking(n) /\ At(n, "loop") => active

Crowded == created = MaxWorkers /\ \E t \in Threads : At(t, "create")
Asleep  == \A t \in Clients : At(t, "idle")
Stopped == \A n \in Workers : ~Live(n)

\* If the clients end with a request to deactivate, then in the end no thread runs and the
\* entity is not active, unless two threads were inside startThread or stopThread at once (or
\* the model has run out of threads).
StopsInTheEnd ==
  <>[](~requested /\ Asleep) => <>[](Stopped /\ ~active) \/ <>(collided \/ Crowded)

\* JMXThreadedEntity.h:71-72, start: "start the thread".
StartStarts ==
  \A t \in Clients :
    At(t, "set") /\ arg[t] ~> ~requested \/ \E n \in Workers : Ticking(n)

\* JMXThreadedEntity.h:77-78, stop: "stop the thread".
StopStops == <>[](~requested /\ Asleep) => <>[]Stopped \/ <>Crowded
=============================================================================
