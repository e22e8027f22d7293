--------------------------- MODULE ScriptTimers ---------------------------
(***************************************************************************)
(* The timers of a script (core/JMXScript.mm, core/JMXScriptTimer.mm).     *)
(*                                                                         *)
(* Threads run JavaScript with the v8 Locker in hand: the threads that     *)
(* execute the script, the thread of node's loop and the threads that call *)
(* stop.  setTimeout, setInterval and addToRunLoop add timers to the set   *)
(* runloopTimers, clearTimeout, clearInterval, removeFromRunLoop and       *)
(* clearAllTimers take them out, each under the monitor of the object      *)
(* timersThread.  That thread scans the set about 120 times a second,      *)
(* under the monitor, and fires the timers that are due, which takes the   *)
(* Locker.  A callback may call all of these functions itself, because     *)
(* both locks are recursive; if it changes the set, the enumeration raises *)
(* an exception as soon as it goes on, and the scan is given up.           *)
(*                                                                         *)
(* A timer is a name.  One that is over and that nobody is busy with any   *)
(* more lends its name to the next, so scripts never run out of timers;    *)
(* only how many there are at once is bounded.                             *)
(*                                                                         *)
(* Scripts in an endless loop, the clearing of the global object by stop   *)
(* and a second stop are left out: after stop no script runs.  Timers are  *)
(* not in a run loop: only timersThread fires them.                        *)
(***************************************************************************)
EXTENDS Integers, FiniteSets

CONSTANTS Scripts,       \* the threads that run scripts and call stop
          TimersThread,  \* timersThread
          OneShots,      \* timers setTimeout makes
          Repeating,     \* timers setInterval and addToRunLoop make
          Nobody,        \* the owner of a free lock
          NoTimer        \* what a thread is busy with that is busy with no timer

Timers  == OneShots \cup Repeating
Threads == Scripts \cup {TimersThread}

ScriptAssumption ==
  /\ TimersThread \notin Scripts
  /\ Nobody \notin Threads
  /\ OneShots \cap Repeating = {}
  /\ NoTimer \notin Timers

ASSUME ScriptAssumption

VARIABLES locker,     \* the thread that holds the v8 Locker, or Nobody
          monitor,    \* the thread inside @synchronized(timersThread), or Nobody
          listed,     \* runloopTimers
          valid,      \* the timers whose NSTimer isValid
          due,        \* the timers whose fireDate has come
          cancelled,  \* isCancelled of timersThread
          disposed,   \* has stop disposed of the context
          pc,         \* pc[t]: where thread t stands
          timer,      \* timer[t]: the timer it is busy with, or NoTimer
          todo,       \* the rest of the enumeration of runloopTimers
          toRemove,   \* toRemove
          mutated,    \* has the set changed during the enumeration
          fired,      \* history: the timers of setTimeout that have fired
          cleared     \* history: the timers that scripts and stop have cleared

sets    == <<listed, valid, due>>
scanner == <<todo, toRemove, mutated>>
ending  == <<cancelled, disposed>>
history == <<fired, cleared>>
control == <<pc, timer>>
vars    == <<locker, monitor, sets, scanner, ending, history, control>>

MonitorSteps == {"add", "remove", "clearAll", "cancel", "clearTimers"}
ScriptSteps  == {"idle", "run", "invalidate", "dispose", "stopped"} \cup MonitorSteps
TimerSteps   == {"top", "enter", "scan", "fire", "callback", "asleep", "sweep", "exit"}

At(t, step)      == pc[t] = step
GotoFor(t, step, x) == /\ pc' = [pc EXCEPT ![t] = step]
                       /\ timer' = [timer EXCEPT ![t] = x]
Goto(t, step)    == GotoFor(t, step, NoTimer)
GoOn(t, step)    == GotoFor(t, step, timer[t])
Free(lock)       == lock = Nobody
Stopping         == \E s \in Scripts : pc[s] \in {"cancel", "clearTimers", "dispose"}

\* startWithEntity: has started timersThread
Init ==
  /\ locker = Nobody /\ monitor = Nobody
  /\ listed = {} /\ valid = {} /\ due = {}
  /\ cancelled = FALSE /\ disposed = FALSE
  /\ pc = [t \in Threads |-> IF t = TimersThread THEN "top" ELSE "idle"]
  /\ timer = [t \in Threads |-> NoTimer]
  /\ todo = {} /\ toRemove = {} /\ mutated = FALSE
  /\ fired = {} /\ cleared = {}

\* time passes: the fireDate of x comes
Elapse(x) ==
  /\ x \in valid \ due
  /\ due' = due \cup {x}
  /\ UNCHANGED <<locker, monitor, listed, valid, scanner, ending, history, control>>

(***************************************************************************)
(* Running a script: execCode:, runScript:, execFunction:, nodejsRun:.     *)
(* Between Leave and Enter a script may also be in sleep(), which gives    *)
(* the Locker away.                                                        *)
(***************************************************************************)
Enter(s) ==
  /\ At(s, "idle") /\ Free(locker) /\ ~disposed
  /\ locker' = s
  /\ Goto(s, "run")
  /\ UNCHANGED <<monitor, sets, scanner, ending, history>>

Leave(s) ==
  /\ At(s, "run")
  /\ locker' = Nobody
  /\ Goto(s, "idle")
  /\ UNCHANGED <<monitor, sets, scanner, ending, history>>

\* x is in the set, can fire, or is what a thread or the scan is about
InUse(x) == x \in listed \cup valid \cup todo \cup toRemove \cup {timer[t] : t \in Threads}

\* a new timer: its fireDate is to come, and its history is its own
Make(x) ==
  /\ ~InUse(x)
  /\ valid' = valid \cup {x}
  /\ due' = due \ {x}
  /\ fired' = fired \ {x} /\ cleared' = cleared \ {x}

\* setTimeout, setInterval, addToRunLoop: a new timer ...
SetTimeout(s, x) ==
  /\ At(s, "run")
  /\ Make(x)
  /\ GotoFor(s, "add", x)
  /\ UNCHANGED <<locker, monitor, listed, scanner, ending>>

\* Faulty variant: addRunloopTimer: leaves the method with the monitor.
AddKeepsMonitor(s) ==
  /\ At(s, "add") /\ Free(monitor)
  /\ listed' = listed \cup {timer[s]}
  /\ monitor' = s
  /\ Goto(s, "run")
  /\ UNCHANGED <<locker, valid, due, scanner, ending, history>>

\* ... and addRunloopTimer:
AddRunloopTimer(s) ==
  /\ At(s, "add") /\ Free(monitor)
  /\ listed' = listed \cup {timer[s]}
  /\ Goto(s, "run")
  /\ UNCHANGED <<locker, monitor, valid, due, scanner, ending, history>>

\* clearTimeout, removeFromRunLoop: containsObject: without the monitor ...
ClearTimeout(s, x) ==
  /\ At(s, "run")
  /\ x \in listed
  /\ GotoFor(s, "remove", x)
  /\ UNCHANGED <<locker, monitor, sets, scanner, ending, history>>

\* Faulty variant: the timer is taken out without the monitor.
RemoveUnlocked(s) ==
  /\ At(s, "remove")
  /\ listed' = listed \ {timer[s]}
  /\ GoOn(s, "invalidate")
  /\ UNCHANGED <<locker, monitor, valid, due, scanner, ending, history>>

\* ... removeRunloopTimer: ...
RemoveRunloopTimer(s) ==
  /\ At(s, "remove") /\ Free(monitor)
  /\ listed' = listed \ {timer[s]}
  /\ GoOn(s, "invalidate")
  /\ UNCHANGED <<locker, monitor, valid, due, scanner, ending, history>>

\* Faulty variant: clearTimeout only takes the timer out of the set.
InvalidateNothing(s) ==
  /\ At(s, "invalidate")
  /\ cleared' = cleared \cup {timer[s]}
  /\ Goto(s, "run")
  /\ UNCHANGED <<locker, monitor, sets, scanner, ending, fired>>

\* ... and invalidate, without the monitor again
Invalidate(s) ==
  /\ At(s, "invalidate")
  /\ valid' = valid \ {timer[s]}
  /\ cleared' = cleared \cup {timer[s]}
  /\ Goto(s, "run")
  /\ UNCHANGED <<locker, monitor, listed, due, scanner, ending, fired>>

ClearAllTimers(s) ==
  /\ At(s, "run")
  /\ Goto(s, "clearAll")
  /\ UNCHANGED <<locker, monitor, sets, scanner, ending, history>>

\* the critical section of clearTimers
InvalidateAll ==
  /\ valid' = valid \ listed
  /\ cleared' = cleared \cup listed
  /\ listed' = {}

\* clearTimers, called by clearAllTimers and by stop
ClearTimers(s, step, next) ==
  /\ At(s, step) /\ Free(monitor)
  /\ InvalidateAll
  /\ Goto(s, next)
  /\ UNCHANGED <<locker, monitor, due, scanner, ending, fired>>

(***************************************************************************)
(* stop, called by resetContext of the entity on any thread                *)
(***************************************************************************)
Stop(s) ==
  /\ ~Stopping /\ ~disposed
  /\ At(s, "run") \/ (At(s, "idle") /\ Free(locker))
  /\ locker' = s
  /\ Goto(s, "cancel")
  /\ UNCHANGED <<monitor, sets, scanner, ending, history>>

\* Faulty variant: the context is gone while timersThread is scanning.
StopAtOnce(s) ==
  /\ At(s, "cancel")
  /\ cancelled' = TRUE /\ disposed' = TRUE
  /\ locker' = Nobody
  /\ Goto(s, "stopped")
  /\ UNCHANGED <<monitor, sets, scanner, history>>

Cancel(s) ==
  /\ At(s, "cancel") /\ Free(monitor)
  /\ cancelled' = TRUE
  /\ Goto(s, "clearTimers")
  /\ UNCHANGED <<locker, monitor, sets, scanner, disposed, history>>

Dispose(s) ==
  /\ At(s, "dispose")
  /\ disposed' = TRUE
  /\ locker' = Nobody
  /\ Goto(s, "stopped")
  /\ UNCHANGED <<monitor, sets, scanner, cancelled, history>>

(***************************************************************************)
(* jsRunTimers                                                             *)
(***************************************************************************)
T == TimersThread

\* while (![[NSThread currentThread] isCancelled])
Top ==
  /\ At(T, "top")
  /\ Goto(T, IF cancelled THEN "exit" ELSE "enter")
  /\ UNCHANGED <<locker, monitor, sets, scanner, ending, history>>

\* @synchronized(timersThread), for (... in runloopTimers)
BeginScan ==
  /\ At(T, "enter") /\ Free(monitor)
  /\ monitor' = T
  /\ todo' = listed /\ toRemove' = {} /\ mutated' = FALSE
  /\ Goto(T, "scan")
  /\ UNCHANGED <<locker, sets, ending, history>>

\* Faulty variant: the caller of the loop does not know of the exception.
GiveUpForEver ==
  /\ At(T, "scan") /\ mutated /\ todo # {}
  /\ monitor' = Nobody
  /\ todo' = {} /\ toRemove' = {} /\ mutated' = FALSE
  /\ Goto(T, "exit")
  /\ UNCHANGED <<locker, sets, ending, history>>

\* the enumeration goes on although the set has changed: the exception leaves
\* the monitor and is caught outside of it
GiveUp ==
  /\ At(T, "scan") /\ mutated /\ todo # {}
  /\ monitor' = Nobody
  /\ todo' = {} /\ toRemove' = {} /\ mutated' = FALSE
  /\ Goto(T, "top")
  /\ UNCHANGED <<locker, sets, ending, history>>

\* the body of the loop, for a timer that is not fired ...
Skip(x) ==
  /\ At(T, "scan") /\ ~mutated
  /\ x \in todo
  /\ x \notin valid \/ x \notin due
  /\ todo' = todo \ {x}
  /\ toRemove' = IF x \in valid THEN toRemove ELSE toRemove \cup {x}
  /\ UNCHANGED <<locker, monitor, sets, mutated, ending, history, control>>

\* ... and for one that is
Choose(x) ==
  /\ At(T, "scan") /\ ~mutated
  /\ x \in todo \cap valid \cap due
  /\ todo' = todo \ {x}
  /\ GotoFor(T, "fire", x)
  /\ UNCHANGED <<locker, monitor, sets, toRemove, mutated, ending, history>>

\* JSRunTimer: takes the Locker
Fire ==
  /\ At(T, "fire") /\ Free(locker)
  /\ locker' = T
  /\ fired' = fired \cup ({timer[T]} \cap OneShots)
  /\ GoOn(T, "callback")
  /\ UNCHANGED <<monitor, sets, scanner, ending, cleared>>

\* Faulty variant: the scan keeps the monitor.
SweepKeepsMonitor ==
  /\ At(T, "scan") /\ todo = {}
  /\ listed' = listed \ toRemove
  /\ toRemove' = {} /\ mutated' = FALSE
  /\ Goto(T, "top")
  /\ UNCHANGED <<locker, monitor, valid, due, todo, ending, history>>

\* for (... in toRemove) removeRunloopTimer:
Sweep ==
  /\ At(T, "scan") /\ todo = {}
  /\ listed' = listed \ toRemove
  /\ monitor' = Nobody
  /\ toRemove' = {} /\ mutated' = FALSE
  /\ Goto(T, "top")
  /\ UNCHANGED <<locker, valid, due, todo, ending, history>>

-----------------------------------------------------------------------------
(***************************************************************************)
(* What a callback does: timersThread holds both locks, so each of the     *)
(* functions is one step.                                                  *)
(***************************************************************************)
InCallback == At(T, "callback") /\ UNCHANGED <<locker, monitor, todo, toRemove, control>>

CallbackSets(x) ==
  /\ InCallback /\ ~disposed
  /\ Make(x)
  /\ listed' = listed \cup {x}
  /\ mutated' = TRUE
  /\ UNCHANGED ending

CallbackClears(x) ==
  /\ InCallback /\ ~disposed
  /\ x \in listed
  /\ listed' = listed \ {x}
  /\ valid' = valid \ {x}
  /\ cleared' = cleared \cup {x}
  /\ mutated' = TRUE
  /\ UNCHANGED <<due, ending, fired>>

CallbackClearsAll ==
  /\ InCallback /\ ~disposed
  /\ InvalidateAll
  /\ mutated' = (mutated \/ listed # {})
  /\ UNCHANGED <<due, ending, fired>>

\* the script deactivates its own entity
CallbackStops ==
  /\ InCallback /\ ~disposed /\ ~Stopping
  /\ InvalidateAll
  /\ cancelled' = TRUE /\ disposed' = TRUE
  /\ mutated' = (mutated \/ listed # {})
  /\ UNCHANGED <<due, fired>>

\* sleep() in a callback: the Locker is given away, the monitor is not
CallbackSleeps ==
  /\ At(T, "callback") /\ ~disposed
  /\ locker' = Nobody
  /\ GoOn(T, "asleep")
  /\ UNCHANGED <<monitor, sets, scanner, ending, history>>

CallbackWakes ==
  /\ At(T, "asleep") /\ Free(locker)
  /\ locker' = T
  /\ GoOn(T, "callback")
  /\ UNCHANGED <<monitor, sets, scanner, ending, history>>

\* Faulty variant: only one-shots that return nothing are invalidated.
ReturnsValid(threw, true) ==
  LET x       == timer[T]
      removes == threw \/ (x \in OneShots /\ ~true)
  IN  /\ At(T, "callback")
      /\ valid' = IF removes THEN valid \ {x} ELSE valid
      /\ listed' = IF removes THEN listed \ {x} ELSE listed
      /\ mutated' = (mutated \/ listed' # listed)
      /\ due' = IF x \in OneShots THEN due ELSE due \ {x}
      /\ locker' = Nobody
      /\ Goto(T, "scan")
      /\ UNCHANGED <<monitor, todo, toRemove, ending, history>>

\* The end of JSRunTimer: a timer whose function throws, and a one-shot whose
\* function does not return true, is invalidated and removed.  NSTimer
\* invalidates a one-shot that has fired in any case.  A repeating timer gets
\* its next fireDate (that of one that is not valid any more is never read).
Returns(threw, true) ==
  LET x       == timer[T]
      oneShot == x \in OneShots
      removes == threw \/ (oneShot /\ ~true)
  IN  /\ At(T, "callback")
      /\ valid' = IF removes \/ oneShot THEN valid \ {x} ELSE valid
      /\ listed' = IF removes THEN listed \ {x} ELSE listed
      /\ mutated' = (mutated \/ listed' # listed)
      /\ due' = due \ {x}
      /\ locker' = Nobody
      /\ Goto(T, "scan")
      /\ UNCHANGED <<monitor, todo, toRemove, ending, history>>

-----------------------------------------------------------------------------
CallbackEnds == Returns(TRUE, FALSE) \/ Returns(FALSE, TRUE) \/ Returns(FALSE, FALSE)

CallbackCalls ==
  \/ \E x \in Timers : CallbackSets(x) \/ CallbackClears(x)
  \/ CallbackClearsAll \/ CallbackStops \/ CallbackSleeps

Scan == \E x \in Timers : Skip(x) \/ Choose(x)

\* the steps for which thread s needs the monitor, and the others it goes on to
WaitStep(s) ==
  \/ AddRunloopTimer(s) \/ RemoveRunloopTimer(s) \/ Cancel(s)
  \/ ClearTimers(s, "clearAll", "run") \/ ClearTimers(s, "clearTimers", "dispose")
LastStep(s) == Invalidate(s) \/ Dispose(s)

ScriptCalls(s) ==
  \/ \E x \in Timers : SetTimeout(s, x) \/ ClearTimeout(s, x)
  \/ ClearAllTimers(s) \/ Stop(s)

Next ==
  \/ \E x \in Timers : Elapse(x)
  \/ \E s \in Scripts : Enter(s) \/ Leave(s) \/ ScriptCalls(s) \/ WaitStep(s) \/ LastStep(s)
  \/ Top \/ BeginScan \/ Scan \/ GiveUp \/ Sweep
  \/ Fire \/ CallbackCalls \/ CallbackWakes \/ CallbackEnds

Spec == Init /\ [][Next]_vars

\* Threads go on, a lock that is free again and again is got in the end, and
\* scripts and callbacks end.
Fairness ==
  /\ WF_vars(Top \/ Scan \/ GiveUp \/ Sweep)
  /\ SF_vars(BeginScan) /\ SF_vars(Fire) /\ SF_vars(CallbackWakes) /\ SF_vars(CallbackEnds)
  /\ \A s \in Scripts : SF_vars(Leave(s)) /\ SF_vars(WaitStep(s)) /\ WF_vars(LastStep(s))

FairSpec == Spec /\ Fairness

(***************************************************************************)
(* Properties                                                              *)
(***************************************************************************)
\* The types of the variables.
TypeOK ==
  /\ locker \in Threads \cup {Nobody} /\ monitor \in {T, Nobody}
  /\ listed \subseteq Timers /\ valid \subseteq Timers /\ due \subseteq Timers
  /\ cancelled \in BOOLEAN /\ disposed \in BOOLEAN
  /\ pc[T] \in TimerSteps /\ \A s \in Scripts : pc[s] \in ScriptSteps
  /\ timer \in [Threads -> Timers \cup {NoTimer}]
  /\ todo \subseteq Timers /\ toRemove \subseteq Timers /\ mutated \in BOOLEAN
  /\ fired \subseteq OneShots /\ cleared \subseteq Timers

\* A timer that can still fire is in runloopTimers, so that timersThread finds
\* it and stop ends it, except between the two halves of setTimeout and of
\* clearTimeout.
ValidIsListed ==
  \A x \in valid \ listed :
    \E s \in Scripts : timer[s] = x /\ pc[s] \in {"add", "invalidate"}

\* The start of a callback of the timer x
Starts(x) == At(T, "fire") /\ pc'[T] = "callback" /\ x = timer[T]

\* A timer of setTimeout fires once, although it removes itself from the set
\* that is being enumerated, the scan is given up and begun again, and a
\* function that returns true leaves the timer in the set.
OneShotFiresOnce == [][\A x \in fired : ~Starts(x)]_vars

\* No callback starts of a timer that clearTimeout or clearAllTimers has
\* returned for, even if timersThread was scanning the set at the time or the
\* callback of another timer has cleared it.
ClearedNeverFires == [][\A x \in cleared : ~Starts(x)]_vars

\* No callback starts after stop has disposed of the context.
StoppedStaysQuiet == [][disposed => \A x \in Timers : ~Starts(x)]_vars

\* timersThread keeps the monitor while it waits for the Locker, and the owner
\* of the Locker waits for the monitor: neither goes on, for ever.
Stuck ==
  /\ monitor = T /\ pc[T] \in {"fire", "asleep"}
  /\ \E s \in Scripts : locker = s /\ pc[s] \in MonitorSteps

\* The enumeration is given up before it has come to x.
PassesOver(x) == GiveUp /\ x \in todo

\* A timer that is due fires (a repeating one gets a new fireDate, a one-shot
\* is no longer valid), unless it is cleared, timersThread is cancelled or the
\* two locks are stuck, and unless scans are given up for ever before its turn:
\* each time another due timer comes first and changes the set, be it that its
\* callback sets or clears timers or that it is a one-shot and takes itself
\* out.  The code can starve a timer in that way, and in no other: scans that
\* are given up now and then, or after its turn, only delay it.
DueTimersFire ==
  \A x \in Timers :
    \/ x \in due \cap valid ~> x \notin due \/ x \notin valid \/ cancelled \/ Stuck
    \/ []<><<PassesOver(x)>>_vars

\* stop has been called and has not come to its end
CallsStop == \E s \in Scripts : pc[s] \in {"cancel", "clearTimers"}

\* stop comes to its end, unless the two locks are stuck: this is the one way
\* in which the threads can wait for each other.
StopReturnsOrSticks == CallsStop ~> disposed \/ Stuck

\* "stop the execution of this JS context and reclaim all persistent instances
\* created while the context running" (JMXScript.h:80): stop comes to its end.
StopReturns == CallsStop ~> disposed
=============================================================================
