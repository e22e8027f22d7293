------------------------- MODULE ScriptTimers_proofs -------------------------
(***************************************************************************)
(* Proofs about ScriptTimers, for any number of script threads and any     *)
(* timers.                                                                 *)
(***************************************************************************)
EXTENDS ScriptTimers, TLAPS

-----------------------------------------------------------------------------
(***************************************************************************)
(* The inductive invariant.                                                *)
(***************************************************************************)
\* Types, and that a thread that is busy with a timer knows which.
Typed ==
  /\ TypeOK
  /\ pc \in [Threads -> ScriptSteps \cup TimerSteps]
  /\ \A s \in Scripts : pc[s] \in {"add", "remove", "invalidate"} => timer[s] \in Timers
  /\ pc[T] \in {"fire", "callback", "asleep"} => timer[T] \in Timers

Scanning  == pc[T] \in {"scan", "fire", "callback", "asleep"}
Outside(s) == pc[s] \in {"idle", "stopped"}

\* Who is where has which lock.
Locked ==
  /\ monitor = T <=> Scanning
  /\ locker = T <=> pc[T] = "callback"
  /\ \A s \in Scripts : Outside(s) <=> locker # s

\* A timer a script is about to list, or has taken out, is not in the set.
Unlisted ==
  \A s \in Scripts :
    /\ pc[s] = "add" => timer[s] \notin listed \cup cleared
    /\ pc[s] = "invalidate" => timer[s] \notin listed

ClearedUnlisted == cleared \cap listed = {}

\* As long as the enumeration has not noticed a change it is about the set as
\* it is, and the timer that fires is in the set.
Enumerated ==
  /\ Scanning /\ ~mutated => todo \subseteq listed
  /\ toRemove \cap valid = {}
  /\ pc[T] = "fire" => timer[T] \in listed

\* A one-shot that has fired is invalid, unless its callback is still running.
Spent ==
  /\ pc[T] = "fire" => timer[T] \notin fired
  /\ \A x \in fired \cap valid : pc[T] \in {"callback", "asleep"} /\ timer[T] = x

\* Once stop has cleared the timers, nothing is left that could fire.
Ended ==
  /\ disposed \/ (\E s \in Scripts : pc[s] = "dispose") => listed = {} /\ pc[T] # "fire"
  /\ disposed => \A s \in Scripts : Outside(s)

IInv == /\ Typed /\ Locked /\ Unlisted /\ ClearedUnlisted /\ Enumerated /\ Spent /\ Ended
        /\ ValidIsListed

USE ScriptAssumption DEF ScriptAssumption, Threads, Timers, T, Scanning, Outside,
    ScriptSteps, TimerSteps, MonitorSteps

LEMMA InitIInv == Init => IInv
<1> SUFFICES ASSUME Init PROVE IInv
  OBVIOUS
<1>1. Typed
  BY DEF Init, Typed, TypeOK
<1>2. Locked
  BY DEF Init, Locked
<1>3. Unlisted /\ ClearedUnlisted /\ Enumerated /\ Spent /\ Ended /\ ValidIsListed
  BY DEF Init, Unlisted, ClearedUnlisted, Enumerated, Spent, Ended, ValidIsListed
<1> QED BY <1>1, <1>2, <1>3 DEF IInv

-----------------------------------------------------------------------------
(***************************************************************************)
(* Steps of the scripts.                                                   *)
(***************************************************************************)
LEMMA EnterKeeps ==
  ASSUME IInv, NEW s \in Scripts, Enter(s)
  PROVE  IInv'
<1> USE DEF IInv, Typed, Enter, At, Goto, GotoFor, Free, sets, scanner, ending, history
<1>1. Typed'
  BY DEF TypeOK
<1>2. Locked'
  BY DEF Locked
<1>3. Unlisted' /\ ClearedUnlisted'
  BY DEF Unlisted, ClearedUnlisted
<1>4. Enumerated'
  BY DEF Enumerated
<1>5. Spent'
  BY DEF Spent
<1>6. Ended'
  BY DEF Ended
<1>7. ValidIsListed'
  BY DEF ValidIsListed
<1> QED BY <1>1, <1>2, <1>3, <1>4, <1>5, <1>6, <1>7

LEMMA LeaveKeeps ==
  ASSUME IInv, NEW s \in Scripts, Leave(s)
  PROVE  IInv'
<1> USE DEF IInv, Typed, Leave, At, Goto, GotoFor, sets, scanner, ending, history
<1>1. Typed'
  BY DEF TypeOK
<1>2. Locked'
  BY DEF Locked
<1>3. Unlisted' /\ ClearedUnlisted'
  BY DEF Unlisted, ClearedUnlisted
<1>4. Enumerated'
  BY DEF Enumerated
<1>5. Spent'
  BY DEF Spent
<1>6. Ended'
  BY DEF Ended
<1>7. ValidIsListed'
  BY DEF ValidIsListed
<1> QED BY <1>1, <1>2, <1>3, <1>4, <1>5, <1>6, <1>7

LEMMA SetTimeoutKeeps ==
  ASSUME IInv, NEW s \in Scripts, NEW x \in Timers, SetTimeout(s, x)
  PROVE  IInv'
<1> USE DEF IInv, Typed, SetTimeout, Make, InUse, At, GotoFor, scanner, ending
<1>1. Typed'
  BY DEF TypeOK
<1>2. Locked'
  BY DEF Locked
<1>3. Unlisted' /\ ClearedUnlisted'
  BY DEF Unlisted, ClearedUnlisted, TypeOK
<1>4. Enumerated'
  BY DEF Enumerated
<1>5. Spent'
  BY DEF Spent, TypeOK
<1>6. Ended'
  BY DEF Ended
<1>7. ValidIsListed'
  BY DEF TypeOK, ValidIsListed
<1> QED BY <1>1, <1>2, <1>3, <1>4, <1>5, <1>6, <1>7

LEMMA AddKeeps ==
  ASSUME IInv, NEW s \in Scripts, AddRunloopTimer(s)
  PROVE  IInv'
<1> USE DEF IInv, Typed, AddRunloopTimer, At, Goto, GotoFor, scanner, ending, history
<1>1. Typed'
  BY DEF TypeOK
<1>2. Locked'
  BY DEF Locked
<1>3. Unlisted' /\ ClearedUnlisted'
  BY DEF Locked, Unlisted, ClearedUnlisted
<1>4. Enumerated'
  BY DEF Enumerated
<1>5. Spent'
  BY DEF Spent
<1>6. Ended'
  BY DEF Locked, Ended
<1>7. ValidIsListed'
  BY DEF ValidIsListed
<1> QED BY <1>1, <1>2, <1>3, <1>4, <1>5, <1>6, <1>7

LEMMA ClearTimeoutKeeps ==
  ASSUME IInv, NEW s \in Scripts, NEW x \in Timers, ClearTimeout(s, x)
  PROVE  IInv'
<1> USE DEF IInv, Typed, ClearTimeout, At, GotoFor, sets, scanner, ending, history
<1>1. Typed'
  BY DEF TypeOK
<1>2. Locked'
  BY DEF Locked
<1>3. Unlisted' /\ ClearedUnlisted'
  BY DEF Unlisted, ClearedUnlisted
<1>4. Enumerated'
  BY DEF Enumerated
<1>5. Spent'
  BY DEF Spent
<1>6. Ended'
  BY DEF Ended
<1>7. ValidIsListed'
  BY DEF ValidIsListed
<1> QED BY <1>1, <1>2, <1>3, <1>4, <1>5, <1>6, <1>7

LEMMA RemoveKeeps ==
  ASSUME IInv, NEW s \in Scripts, RemoveRunloopTimer(s)
  PROVE  IInv'
<1> USE DEF IInv, Typed, RemoveRunloopTimer, At, GotoFor, GoOn, Free, scanner, ending, history
<1>1. Typed'
  BY DEF TypeOK
<1>2. Locked'
  BY DEF Locked
<1>3. Unlisted' /\ ClearedUnlisted'
  BY DEF Unlisted, ClearedUnlisted
<1>4. Enumerated'
  BY DEF Locked, Enumerated
<1>5. Spent'
  BY DEF Spent
<1>6. Ended'
  BY DEF Ended
<1>7. ValidIsListed'
  BY DEF ValidIsListed
<1> QED BY <1>1, <1>2, <1>3, <1>4, <1>5, <1>6, <1>7

LEMMA InvalidateKeeps ==
  ASSUME IInv, NEW s \in Scripts, Invalidate(s)
  PROVE  IInv'
<1> USE DEF IInv, Typed, Invalidate, At, Goto, GotoFor, scanner, ending
<1>1. Typed'
  BY DEF TypeOK
<1>2. Locked'
  BY DEF Locked
<1>3. Unlisted' /\ ClearedUnlisted'
  BY DEF Locked, Unlisted, ClearedUnlisted
<1>4. Enumerated'
  BY DEF Enumerated
<1>5. Spent'
  BY DEF Spent
<1>6. Ended'
  BY DEF Ended
<1>7. ValidIsListed'
  BY DEF ValidIsListed
<1> QED BY <1>1, <1>2, <1>3, <1>4, <1>5, <1>6, <1>7

LEMMA ClearAllKeeps ==
  ASSUME IInv, NEW s \in Scripts, ClearAllTimers(s)
  PROVE  IInv'
<1> USE DEF IInv, Typed, ClearAllTimers, At, Goto, GotoFor, sets, scanner, ending, history
<1>1. Typed'
  BY DEF TypeOK
<1>2. Locked'
  BY DEF Locked
<1>3. Unlisted' /\ ClearedUnlisted'
  BY DEF Unlisted, ClearedUnlisted
<1>4. Enumerated'
  BY DEF Enumerated
<1>5. Spent'
  BY DEF Spent
<1>6. Ended'
  BY DEF Ended
<1>7. ValidIsListed'
  BY DEF ValidIsListed
<1> QED BY <1>1, <1>2, <1>3, <1>4, <1>5, <1>6, <1>7

LEMMA StopKeeps ==
  ASSUME IInv, NEW s \in Scripts, Stop(s)
  PROVE  IInv'
<1> USE DEF IInv, Typed, Stop, At, Goto, GotoFor, Free, sets, scanner, ending, history
<1>1. Typed'
  BY DEF TypeOK
<1>2. Locked'
  BY DEF Locked
<1>3. Unlisted' /\ ClearedUnlisted'
  BY DEF Unlisted, ClearedUnlisted
<1>4. Enumerated'
  BY DEF Enumerated
<1>5. Spent'
  BY DEF Spent
<1>6. Ended'
  BY DEF Ended
<1>7. ValidIsListed'
  BY DEF ValidIsListed
<1> QED BY <1>1, <1>2, <1>3, <1>4, <1>5, <1>6, <1>7

LEMMA CancelKeeps ==
  ASSUME IInv, NEW s \in Scripts, Cancel(s)
  PROVE  IInv'
<1> USE DEF IInv, Typed, Cancel, At, Goto, GotoFor, sets, scanner, history
<1>1. Typed'
  BY DEF TypeOK
<1>2. Locked'
  BY DEF Locked
<1>3. Unlisted' /\ ClearedUnlisted'
  BY DEF Unlisted, ClearedUnlisted
<1>4. Enumerated'
  BY DEF Enumerated
<1>5. Spent'
  BY DEF Spent
<1>6. Ended'
  BY DEF Ended
<1>7. ValidIsListed'
  BY DEF ValidIsListed
<1> QED BY <1>1, <1>2, <1>3, <1>4, <1>5, <1>6, <1>7

LEMMA DisposeKeeps ==
  ASSUME IInv, NEW s \in Scripts, Dispose(s)
  PROVE  IInv'
<1> USE DEF IInv, Typed, Dispose, At, Goto, GotoFor, sets, scanner, history
<1>1. Typed'
  BY DEF TypeOK
<1>2. Locked'
  BY DEF Locked
<1>3. Unlisted' /\ ClearedUnlisted'
  BY DEF Unlisted, ClearedUnlisted
<1>4. Enumerated'
  BY DEF Enumerated
<1>5. Spent'
  BY DEF Spent
<1>6. Ended'
  BY DEF Locked, Ended
<1>7. ValidIsListed'
  BY DEF ValidIsListed
<1> QED BY <1>1, <1>2, <1>3, <1>4, <1>5, <1>6, <1>7

LEMMA ClearTimersKeeps ==
  ASSUME IInv, NEW s \in Scripts, NEW step, NEW next,
         <<step, next>> \in {<<"clearAll", "run">>, <<"clearTimers", "dispose">>},
         ClearTimers(s, step, next)
  PROVE  IInv'
<1> USE DEF IInv, Typed, ClearTimers, InvalidateAll, At, Goto, GotoFor, Free, scanner, ending
<1>1. Typed'
  BY DEF TypeOK
<1>2. Locked'
  BY DEF Locked
<1>3. Unlisted' /\ ClearedUnlisted'
  BY DEF Unlisted, ClearedUnlisted
<1>4. Enumerated'
  BY DEF Locked, Enumerated
<1>5. Spent'
  BY DEF Spent
<1>6. Ended'
  BY DEF Locked, Ended
<1>7. ValidIsListed'
  BY DEF ValidIsListed
<1> QED BY <1>1, <1>2, <1>3, <1>4, <1>5, <1>6, <1>7

-----------------------------------------------------------------------------
(***************************************************************************)
(* Steps of timersThread and of time.                                      *)
(***************************************************************************)
LEMMA ElapseKeeps ==
  ASSUME IInv, NEW x \in Timers, Elapse(x)
  PROVE  IInv'
<1> USE DEF IInv, Typed, Elapse, scanner, ending, history, control
<1>1. Typed'
  BY DEF TypeOK
<1>2. Locked'
  BY DEF Locked
<1>3. Unlisted' /\ ClearedUnlisted'
  BY DEF Unlisted, ClearedUnlisted
<1>4. Enumerated'
  BY DEF Enumerated
<1>5. Spent'
  BY DEF Spent
<1>6. Ended'
  BY DEF Ended
<1>7. ValidIsListed'
  BY DEF ValidIsListed
<1> QED BY <1>1, <1>2, <1>3, <1>4, <1>5, <1>6, <1>7

LEMMA TopKeeps ==
  ASSUME IInv, Top
  PROVE  IInv'
<1> USE DEF IInv, Typed, Top, At, Goto, GotoFor, sets, scanner, ending, history
<1>1. Typed'
  BY DEF TypeOK
<1>2. Locked'
  BY DEF Locked
<1>3. Unlisted' /\ ClearedUnlisted'
  BY DEF Unlisted, ClearedUnlisted
<1>4. Enumerated'
  BY DEF Enumerated
<1>5. Spent'
  BY DEF Spent
<1>6. Ended'
  BY DEF Ended
<1>7. ValidIsListed'
  BY DEF ValidIsListed
<1> QED BY <1>1, <1>2, <1>3, <1>4, <1>5, <1>6, <1>7

LEMMA BeginScanKeeps ==
  ASSUME IInv, BeginScan
  PROVE  IInv'
<1> USE DEF IInv, Typed, BeginScan, At, Goto, GotoFor, sets, ending, history
<1>1. Typed'
  BY DEF TypeOK
<1>2. Locked'
  BY DEF Locked
<1>3. Unlisted' /\ ClearedUnlisted'
  BY DEF Unlisted, ClearedUnlisted
<1>4. Enumerated'
  BY DEF Enumerated
<1>5. Spent'
  BY DEF Spent
<1>6. Ended'
  BY DEF Ended
<1>7. ValidIsListed'
  BY DEF ValidIsListed
<1> QED BY <1>1, <1>2, <1>3, <1>4, <1>5, <1>6, <1>7

LEMMA GiveUpKeeps ==
  ASSUME IInv, GiveUp
  PROVE  IInv'
<1> USE DEF IInv, Typed, GiveUp, At, Goto, GotoFor, sets, ending, history
<1>1. Typed'
  BY DEF TypeOK
<1>2. Locked'
  BY DEF Locked
<1>3. Unlisted' /\ ClearedUnlisted'
  BY DEF Unlisted, ClearedUnlisted
<1>4. Enumerated'
  BY DEF Enumerated
<1>5. Spent'
  BY DEF Spent
<1>6. Ended'
  BY DEF Ended
<1>7. ValidIsListed'
  BY DEF ValidIsListed
<1> QED BY <1>1, <1>2, <1>3, <1>4, <1>5, <1>6, <1>7

LEMMA SkipKeeps ==
  ASSUME IInv, NEW x \in Timers, Skip(x)
  PROVE  IInv'
<1> USE DEF IInv, Typed, Skip, sets, ending, history, control
<1>1. Typed'
  BY DEF TypeOK
<1>2. Locked'
  BY DEF Locked
<1>3. Unlisted' /\ ClearedUnlisted'
  BY DEF Unlisted, ClearedUnlisted
<1>4. Enumerated'
  BY DEF Enumerated
<1>5. Spent'
  BY DEF Spent
<1>6. Ended'
  BY DEF Ended
<1>7. ValidIsListed'
  BY DEF ValidIsListed
<1> QED BY <1>1, <1>2, <1>3, <1>4, <1>5, <1>6, <1>7

LEMMA ChooseKeeps ==
  ASSUME IInv, NEW x \in Timers, Choose(x)
  PROVE  IInv'
<1> USE DEF IInv, Typed, Choose, At, GotoFor, sets, ending, history
<1>1. Typed'
  BY DEF TypeOK
<1>2. Locked'
  BY DEF Locked
<1>3. Unlisted' /\ ClearedUnlisted'
  BY DEF Unlisted, ClearedUnlisted
<1>4. Enumerated'
  BY DEF Enumerated, TypeOK
<1>5. Spent'
  BY DEF Spent, TypeOK
<1>6. Ended'
  BY DEF Enumerated, Ended
<1>7. ValidIsListed'
  BY DEF ValidIsListed
<1> QED BY <1>1, <1>2, <1>3, <1>4, <1>5, <1>6, <1>7

LEMMA FireKeeps ==
  ASSUME IInv, Fire
  PROVE  IInv'
<1> USE DEF IInv, Typed, Fire, At, GotoFor, GoOn, Free, sets, scanner, ending
<1>1. Typed'
  BY DEF TypeOK
<1>2. Locked'
  BY DEF Locked
<1>3. Unlisted' /\ ClearedUnlisted'
  BY DEF Unlisted, ClearedUnlisted
<1>4. Enumerated'
  BY DEF Enumerated
<1>5. Spent'
  BY DEF Spent
<1>6. Ended'
  BY DEF Ended
<1>7. ValidIsListed'
  BY DEF ValidIsListed
<1> QED BY <1>1, <1>2, <1>3, <1>4, <1>5, <1>6, <1>7

LEMMA SweepKeeps ==
  ASSUME IInv, Sweep
  PROVE  IInv'
<1> USE DEF IInv, Typed, Sweep, At, Goto, GotoFor, ending, history
<1>1. Typed'
  BY DEF TypeOK
<1>2. Locked'
  BY DEF Locked
<1>3. Unlisted' /\ ClearedUnlisted'
  BY DEF Unlisted, ClearedUnlisted
<1>4. Enumerated'
  BY DEF Enumerated
<1>5. Spent'
  BY DEF Spent
<1>6. Ended'
  BY DEF Ended
<1>7. ValidIsListed'
  BY DEF Enumerated, ValidIsListed
<1> QED BY <1>1, <1>2, <1>3, <1>4, <1>5, <1>6, <1>7

LEMMA SetsKeeps ==
  ASSUME IInv, NEW x \in Timers, CallbackSets(x)
  PROVE  IInv'
<1> USE DEF IInv, Typed, CallbackSets, Make, InUse, InCallback, At, ending, control
<1>1. Typed'
  BY DEF TypeOK
<1>2. Locked'
  BY DEF Locked
<1>3. Unlisted' /\ ClearedUnlisted'
  BY DEF Unlisted, ClearedUnlisted, TypeOK
<1>4. Enumerated'
  BY DEF Enumerated
<1>5. Spent'
  BY DEF Spent, TypeOK
<1>6. Ended'
  BY DEF Locked, Ended
<1>7. ValidIsListed'
  BY DEF ValidIsListed
<1> QED BY <1>1, <1>2, <1>3, <1>4, <1>5, <1>6, <1>7

LEMMA ClearsKeeps ==
  ASSUME IInv, NEW x \in Timers, CallbackClears(x)
  PROVE  IInv'
<1> USE DEF IInv, Typed, CallbackClears, InCallback, At, ending, control
<1>1. Typed'
  BY DEF TypeOK
<1>2. Locked'
  BY DEF Locked
<1>3. Unlisted' /\ ClearedUnlisted'
  BY DEF Unlisted, ClearedUnlisted
<1>4. Enumerated'
  BY DEF Enumerated
<1>5. Spent'
  BY DEF Spent
<1>6. Ended'
  BY DEF Ended
<1>7. ValidIsListed'
  BY DEF ValidIsListed
<1> QED BY <1>1, <1>2, <1>3, <1>4, <1>5, <1>6, <1>7

LEMMA ClearsAllKeeps ==
  ASSUME IInv, CallbackClearsAll
  PROVE  IInv'
<1> USE DEF IInv, Typed, CallbackClearsAll, InCallback, InvalidateAll, At, ending, control
<1>1. Typed'
  BY DEF TypeOK
<1>2. Locked'
  BY DEF Locked
<1>3. Unlisted' /\ ClearedUnlisted'
  BY DEF Unlisted, ClearedUnlisted
<1>4. Enumerated'
  BY DEF Enumerated
<1>5. Spent'
  BY DEF Spent
<1>6. Ended'
  BY DEF Ended
<1>7. ValidIsListed'
  BY DEF ValidIsListed
<1> QED BY <1>1, <1>2, <1>3, <1>4, <1>5, <1>6, <1>7

LEMMA StopsKeeps ==
  ASSUME IInv, CallbackStops
  PROVE  IInv'
<1> USE DEF IInv, Typed, CallbackStops, InCallback, InvalidateAll, At, control
<1>1. Typed'
  BY DEF TypeOK
<1>2. Locked'
  BY DEF Locked
<1>3. Unlisted' /\ ClearedUnlisted'
  BY DEF Unlisted, ClearedUnlisted
<1>4. Enumerated'
  BY DEF Enumerated
<1>5. Spent'
  BY DEF Spent
<1>6. Ended'
  BY DEF Locked, Ended
<1>7. ValidIsListed'
  BY DEF ValidIsListed
<1> QED BY <1>1, <1>2, <1>3, <1>4, <1>5, <1>6, <1>7

LEMMA SleepsKeeps ==
  ASSUME IInv, CallbackSleeps
  PROVE  IInv'
<1> USE DEF IInv, Typed, CallbackSleeps, At, GotoFor, GoOn, sets, scanner, ending, history
<1>1. Typed'
  BY DEF TypeOK
<1>2. Locked'
  BY DEF Locked
<1>3. Unlisted' /\ ClearedUnlisted'
  BY DEF Unlisted, ClearedUnlisted
<1>4. Enumerated'
  BY DEF Enumerated
<1>5. Spent'
  BY DEF Spent
<1>6. Ended'
  BY DEF Ended
<1>7. ValidIsListed'
  BY DEF ValidIsListed
<1> QED BY <1>1, <1>2, <1>3, <1>4, <1>5, <1>6, <1>7

LEMMA WakesKeeps ==
  ASSUME IInv, CallbackWakes
  PROVE  IInv'
<1> USE DEF IInv, Typed, CallbackWakes, At, GotoFor, GoOn, Free, sets, scanner, ending, history
<1>1. Typed'
  BY DEF TypeOK
<1>2. Locked'
  BY DEF Locked
<1>3. Unlisted' /\ ClearedUnlisted'
  BY DEF Unlisted, ClearedUnlisted
<1>4. Enumerated'
  BY DEF Enumerated
<1>5. Spent'
  BY DEF Spent
<1>6. Ended'
  BY DEF Ended
<1>7. ValidIsListed'
  BY DEF ValidIsListed
<1> QED BY <1>1, <1>2, <1>3, <1>4, <1>5, <1>6, <1>7

LEMMA ReturnsKeeps ==
  ASSUME IInv, NEW threw \in BOOLEAN, NEW true \in BOOLEAN, Returns(threw, true)
  PROVE  IInv'
<1> USE DEF IInv, Typed, Returns, At, Goto, GotoFor, ending, history
<1>1. Typed'
  BY DEF TypeOK
<1>2. Locked'
  BY DEF Locked
<1>3. Unlisted' /\ ClearedUnlisted'
  BY DEF Unlisted, ClearedUnlisted, TypeOK
<1>4. Enumerated'
  BY DEF Enumerated
<1>5. Spent'
  BY DEF Spent, TypeOK
<1>6. Ended'
  BY DEF Ended
<1>7. ValidIsListed'
  BY DEF ValidIsListed
<1> QED BY <1>1, <1>2, <1>3, <1>4, <1>5, <1>6, <1>7

-----------------------------------------------------------------------------
(***************************************************************************)
(* The invariant, and what follows from it.                                *)
(***************************************************************************)
LEMMA StutterKeeps ==
  ASSUME IInv, UNCHANGED vars
  PROVE  IInv'
BY DEF vars, sets, scanner, ending, history, control, IInv, Typed, TypeOK, Locked, Unlisted,
   ClearedUnlisted, Enumerated, Spent, Ended, ValidIsListed

LEMMA NextIInv == IInv /\ [Next]_vars => IInv'
<1> SUFFICES ASSUME IInv, Next PROVE IInv'
  BY StutterKeeps
<1>1. CASE \E x \in Timers : Elapse(x)
  BY <1>1, ElapseKeeps
<1>2. ASSUME NEW s \in Scripts, Enter(s) \/ Leave(s) \/ LastStep(s)
      PROVE  IInv'
  BY <1>2, EnterKeeps, LeaveKeeps, InvalidateKeeps, DisposeKeeps DEF LastStep
<1>3. ASSUME NEW s \in Scripts, ScriptCalls(s)
      PROVE  IInv'
  BY <1>3, SetTimeoutKeeps, ClearTimeoutKeeps, ClearAllKeeps, StopKeeps DEF ScriptCalls
<1>4. ASSUME NEW s \in Scripts, WaitStep(s)
      PROVE  IInv'
  <2>1. CASE ClearTimers(s, "clearAll", "run")
    BY <2>1, ClearTimersKeeps
  <2>2. CASE ClearTimers(s, "clearTimers", "dispose")
    BY <2>2, ClearTimersKeeps
  <2> QED BY <1>4, <2>1, <2>2, AddKeeps, RemoveKeeps, CancelKeeps DEF WaitStep
<1>5. CASE Top \/ BeginScan \/ Scan \/ GiveUp \/ Sweep
  BY <1>5, TopKeeps, BeginScanKeeps, SkipKeeps, ChooseKeeps, GiveUpKeeps, SweepKeeps DEF Scan
<1>6. CASE Fire \/ CallbackWakes \/ CallbackEnds
  BY <1>6, FireKeeps, WakesKeeps, ReturnsKeeps DEF CallbackEnds
<1>7. CASE CallbackCalls
  BY <1>7, SetsKeeps, ClearsKeeps, ClearsAllKeeps, StopsKeeps, SleepsKeeps DEF CallbackCalls
<1> QED BY <1>1, <1>2, <1>3, <1>4, <1>5, <1>6, <1>7 DEF Next

LEMMA Invariant == Spec => []IInv
BY InitIInv, NextIInv, PTL DEF Spec

\* The types of the variables.
THEOREM TypeCorrect == Spec => []TypeOK
<1>1. IInv => TypeOK
  BY DEF IInv, Typed
<1> QED BY <1>1, Invariant, PTL

\* A timer that can still fire is in the set the timers thread scans and stop
\* clears, except between the two halves of setTimeout and of clearTimeout.
THEOREM ValidTimersAreListed == Spec => []ValidIsListed
<1>1. IInv => ValidIsListed
  BY DEF IInv
<1> QED BY <1>1, Invariant, PTL

\* A timer of setTimeout fires once.
THEOREM OneShotsFireOnce == Spec => OneShotFiresOnce
<1>1. ASSUME IInv, [Next]_vars
      PROVE  [\A x \in fired : ~Starts(x)]_vars
  BY <1>1 DEF IInv, Spent, Starts, At
<1> QED BY <1>1, Invariant, PTL DEF Spec, OneShotFiresOnce

\* A timer that a script has cleared starts no callback any more.
THEOREM ClearedTimersStaySilent == Spec => ClearedNeverFires
<1>1. ASSUME IInv, [Next]_vars
      PROVE  [\A x \in cleared : ~Starts(x)]_vars
  BY <1>1 DEF IInv, ClearedUnlisted, Enumerated, Starts, At
<1> QED BY <1>1, Invariant, PTL DEF Spec, ClearedNeverFires

\* No callback starts in a context that stop has disposed of.
THEOREM StopSilences == Spec => StoppedStaysQuiet
<1>1. ASSUME IInv, [Next]_vars
      PROVE  [disposed => \A x \in Timers : ~Starts(x)]_vars
  BY <1>1 DEF IInv, Ended, Starts, At
<1> QED BY <1>1, Invariant, PTL DEF Spec, StoppedStaysQuiet
=============================================================================
