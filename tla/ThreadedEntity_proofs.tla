------------------------- MODULE ThreadedEntity_proofs -------------------------
(***************************************************************************)
(* Proofs about ThreadedEntity, for any number of clients, threads and     *)
(* calls.                                                                  *)
(***************************************************************************)
EXTENDS ThreadedEntity, TLAPS

-----------------------------------------------------------------------------
(***************************************************************************)
(* The inductive invariant.                                                *)
(***************************************************************************)
\* Who can be where, and with which argument a thread is in startThread and stopThread.
Calling ==
  /\ \A t \in Clients : pc[t] \in CallSteps \cup {"idle"} /\ ret[t] = "idle"
  /\ \A n \in Workers :
       /\ pc[n] # "idle"
       /\ n > created <=> pc[n] = "none"
       /\ pc[n] \in CallSteps => ret[n] # "idle" /\ (ret[n] = "exit" => ~arg[n])
  /\ \A t \in Threads :
       /\ pc[t] \in StartSteps \cup {"startThread"} => arg[t]
       /\ pc[t] \in StopSteps \cup {"stopThread"} => ~arg[t]

\* What collided says.
OneInside == ~collided => \A t, u \in Inside : t = u

\* Up to a collision, the step of the thread inside tells what the variables are.
WorkerKnown ==
  ~collided =>
    /\ \A t \in Threads :
         /\ pc[t] \in {"register", "create", "unregister"} => worker = Nil
         /\ pc[t] \in {"launch", "resetQuit", "cancel", "release", "clear"} => worker # Nil
         /\ pc[t] \in {"release", "clear"} => cancelled[worker]
    /\ registered <=> worker # Nil \/ \E t \in Threads : pc[t] \in {"create", "unregister"}

\* Only the worker ticks.
WorkerTicks == ~collided => \A n \in Workers : Ticking(n) => worker = n

\* t is in a call that deactivates and has not come to cancel yet.
Stops(t) == ~arg[t] /\ pc[t] \in {"set", "lookup", "stopThread", "cancel"}

\* A thread that ticks has set the flag when it began, and if somebody has cleared the flag
\* since, he is on his way to stop the thread.
Begun(n) == ~At(n, "begin") /\ ~(At(n, "set") /\ arg[n])
ActiveOrStopping ==
  ~collided => \A n \in Workers : Ticking(n) /\ Begun(n) /\ ~active =>
                 \E t \in Threads : Stops(t) /\ ~At(t, "set")

\* Worker m is cancelled and has not yet come to cancel the current thread at its end.
WillStop(m) ==
  /\ Live(m) /\ cancelled[m]
  /\ \/ pc[m] \in {"begin", "loop"}
     \/ pc[m] \in CallSteps /\ ret[m] = "loop"
     \/ Stops(m)

\* The only client executes its last request, and after a request to deactivate a thread that
\* ticks will be stopped, by the client or by another worker.
StopOnItsWay ==
  OneClient =>
    /\ \A t \in Clients : pc[t] \in CallSteps => arg[t] = requested
    /\ ~collided /\ ~requested =>
         \A n \in Workers : Ticking(n) =>
           (\E t \in Clients : Stops(t)) \/ \E m \in Workers : WillStop(m)

IInv == /\ TypeOK /\ Calling /\ OneInside /\ WorkerKnown /\ WorkerTicks /\ RefsBalance
        /\ ActiveOrStopping /\ StopOnItsWay

USE ThreadedAssumption DEF ThreadedAssumption, Workers, Threads, Nil, StartSteps, StopSteps,
    CallSteps, Inside

LEMMA InitIInv == Init => IInv
<1> SUFFICES ASSUME Init PROVE IInv
  OBVIOUS
<1> USE DEF Init
<1>1. TypeOK
  <2>1. pc \in [Threads -> Steps]
    BY DEF Steps
  <2>2. refs \in [Workers -> Int] /\ cancelled \in [Workers -> BOOLEAN]
    OBVIOUS
  <2>3. arg \in [Threads -> BOOLEAN] /\ ret \in [Threads -> {"idle", "loop", "exit"}]
    OBVIOUS
  <2>4. created \in Workers /\ worker \in 0 .. created /\ calls \in 0 .. MaxCalls
    OBVIOUS
  <2>5. {active, registered, quit, requested, collided} \subseteq BOOLEAN
    OBVIOUS
  <2> HIDE DEF Init
  <2> QED BY <2>1, <2>2, <2>3, <2>4, <2>5 DEF TypeOK
<1>2. Calling
  BY DEF Calling
<1>3. OneInside
  BY DEF OneInside
<1>4. WorkerKnown
  BY DEF WorkerKnown
<1>5. WorkerTicks
  BY DEF WorkerTicks, Ticking, Live
<1>6. RefsBalance
  BY DEF RefsBalance, Live, At
<1>7. ActiveOrStopping
  BY DEF ActiveOrStopping
<1>8. StopOnItsWay
  BY DEF StopOnItsWay
<1> QED BY <1>1, <1>2, <1>3, <1>4, <1>5, <1>6, <1>7, <1>8 DEF IInv

\* RefsBalance is about refs, worker, who lives and who stands at clear.
LEMMA RefsStand ==
  ASSUME IInv, UNCHANGED <<refs, worker, created>>, collided => collided',
         \A n \in Workers : Live(n)' <=> Live(n),
         \A t \in Threads : At(t, "clear")' <=> At(t, "clear")
  PROVE  RefsBalance'
<1>1. (\A t \in Threads : ~At(t, "clear"))' <=> \A t \in Threads : ~At(t, "clear")
  OBVIOUS
<1>2. \A n \in 1 .. created : n \in Workers
  BY DEF IInv, TypeOK
<1> QED BY <1>1, <1>2 DEF IInv, RefsBalance

-----------------------------------------------------------------------------
(***************************************************************************)
(* Steps of setActive:                                                     *)
(***************************************************************************)
LEMMA CallKeeps ==
  ASSUME IInv, NEW t \in Clients, NEW value \in BOOLEAN, Call(t, value)
  PROVE  IInv'
<1> USE DEF IInv, Call, At, Goto, entVars, thVars, history, SetActive
<1>1. TypeOK'
  BY DEF TypeOK, Steps
<1>2. Calling'
  BY DEF Calling
<1>3. OneInside'
  BY DEF OneInside
<1>4. WorkerKnown'
  BY DEF WorkerKnown
<1>5. WorkerTicks'
  BY DEF WorkerTicks, Ticking, Live
<1>6. RefsBalance'
  BY DEF Calling, RefsBalance, Live, TypeOK
<1>7. ActiveOrStopping'
  BY DEF Calling, OneInside, ActiveOrStopping, Begun, Stops, Ticking, Live
<1>8. StopOnItsWay'
  BY DEF StopOnItsWay, OneClient, Stops, TypeOK
<1> QED BY <1>1, <1>2, <1>3, <1>4, <1>5, <1>6, <1>7, <1>8

LEMMA SetFlagKeeps ==
  ASSUME IInv, NEW t \in Threads, SetFlag(t)
  PROVE  IInv'
<1> USE DEF IInv, SetFlag, At, Goto, entVars, thVars, history
<1>1. TypeOK'
  BY DEF TypeOK, Steps
<1>2. Calling'
  BY DEF Calling
<1>3. OneInside'
  BY DEF OneInside
<1>4. WorkerKnown'
  BY DEF WorkerKnown
<1>5. WorkerTicks'
  BY DEF WorkerTicks, Ticking, Live
<1>6. RefsBalance'
  <2>1. \A n \in Workers : Live(n)' <=> Live(n)
    BY DEF Live
  <2>2. \A u \in Threads : At(u, "clear")' <=> At(u, "clear")
    OBVIOUS
  <2> QED BY <2>1, <2>2, RefsStand
<1>7. ActiveOrStopping'
  BY DEF ActiveOrStopping, Stops, TypeOK
<1>8. StopOnItsWay'
  BY DEF StopOnItsWay, WillStop, Stops, Ticking, Live
<1> QED BY <1>1, <1>2, <1>3, <1>4, <1>5, <1>6, <1>7, <1>8

\* t finds nothing to do and goes back to its caller.
LEMMA ReturnKeeps ==
  ASSUME IInv, NEW t \in Threads, pc[t] \in {"lookup", "startThread", "stopThread"},
         Return(t), UNCHANGED <<entVars, thVars, history>>,
         Stops(t) /\ ~collided => worker = Nil
  PROVE  IInv'
<1> USE DEF IInv, At, Goto, entVars, thVars, history, Return
<1>0. /\ pc'[t] = ret[t] /\ ret[t] \in {"idle", "loop", "exit"}
      /\ \A u \in Threads : u # t => pc'[u] = pc[u]
  BY DEF TypeOK
<1>1. TypeOK'
  BY <1>0 DEF TypeOK, Steps
<1>2. Calling'
  BY <1>0 DEF Calling
<1>3. OneInside'
  BY <1>0 DEF OneInside
<1>4. WorkerKnown'
  BY <1>0 DEF WorkerKnown
<1>5. WorkerTicks'
  BY <1>0 DEF WorkerTicks, Ticking, Live
<1>6. RefsBalance'
  <2>1. \A n \in Workers : Live(n)' <=> Live(n)
    BY DEF Calling, Live, TypeOK
  <2>2. \A u \in Threads : At(u, "clear")' <=> At(u, "clear")
    BY DEF TypeOK
  <2> QED BY <2>1, <2>2, RefsStand
<1>7. ActiveOrStopping'
  BY <1>0 DEF WorkerTicks, ActiveOrStopping, Begun, Stops, Ticking, Live
<1>8. StopOnItsWay'
  <2>1. OneClient => \A u \in Clients : pc'[u] \in CallSteps => arg'[u] = requested'
    BY <1>0 DEF StopOnItsWay
  <2>2. ASSUME OneClient, ~collided, ~requested, NEW m \in Workers, Ticking(m)'
        PROVE  (\E u \in Clients : Stops(u)') \/ \E k \in Workers : WillStop(k)'
    <3>1. Ticking(m) /\ worker = m
      BY <1>0, <2>2 DEF WorkerTicks, Ticking, Live
    <3>2. ~Stops(t)
      BY <2>2, <3>1
    <3>3. ASSUME NEW u \in Clients, Stops(u) PROVE Stops(u)'
      BY <1>0, <3>2, <3>3 DEF Stops
    <3>4. ASSUME NEW k \in Workers, WillStop(k) PROVE WillStop(k)'
      BY <1>0, <3>2, <3>4 DEF WillStop, Stops, Live
    <3> QED BY <2>2, <3>1, <3>3, <3>4 DEF StopOnItsWay
  <2> QED BY <2>1, <2>2 DEF StopOnItsWay
<1> QED BY <1>1, <1>2, <1>3, <1>4, <1>5, <1>6, <1>7, <1>8

LEMMA LookupFinds ==
  ASSUME IInv, NEW t \in Threads, At(t, "lookup"), registered,
         Goto(t, IF arg[t] THEN "startThread" ELSE "stopThread"),
         UNCHANGED <<entVars, thVars, history>>
  PROVE  IInv'
<1> USE DEF IInv, At, Goto, entVars, thVars, history
<1>1. TypeOK'
  BY DEF TypeOK, Steps
<1>2. Calling'
  BY DEF Calling
<1>3. OneInside'
  BY DEF OneInside
<1>4. WorkerKnown'
  BY DEF WorkerKnown
<1>5. WorkerTicks'
  BY DEF WorkerTicks, Ticking, Live
<1>6. RefsBalance'
  <2>1. \A n \in Workers : Live(n)' <=> Live(n)
    BY DEF Live
  <2>2. \A u \in Threads : At(u, "clear")' <=> At(u, "clear")
    OBVIOUS
  <2> QED BY <2>1, <2>2, RefsStand
<1>7. ActiveOrStopping'
  BY DEF ActiveOrStopping, Begun, Stops, Ticking, Live
<1>8. StopOnItsWay'
  BY DEF Calling, OneInside, WorkerKnown, WorkerTicks, StopOnItsWay, WillStop, Stops, Ticking, Live
<1> QED BY <1>1, <1>2, <1>3, <1>4, <1>5, <1>6, <1>7, <1>8

LEMMA LookupKeeps ==
  ASSUME IInv, NEW t \in Threads, Lookup(t)
  PROVE  IInv'
<1>1. CASE registered
  BY <1>1, LookupFinds DEF Lookup
<1>2. CASE ~registered
  <2>1. ~collided => worker = Nil
    BY <1>2 DEF IInv, WorkerKnown
  <2> QED BY <1>2, <2>1, ReturnKeeps DEF Lookup, At
<1> QED BY <1>1, <1>2

-----------------------------------------------------------------------------
(***************************************************************************)
(* Steps of startThread.                                                   *)
(***************************************************************************)
LEMMA EnterStartKeeps ==
  ASSUME IInv, NEW t \in Threads, At(t, "startThread"), worker = Nil, Enter(t, "register"),
         UNCHANGED <<entVars, thVars>>
  PROVE  IInv'
<1> USE DEF IInv, At, Goto, entVars, thVars, history, Enter
<1>1. TypeOK'
  BY DEF TypeOK, Steps
<1>2. Calling'
  BY DEF Calling
<1>3. OneInside'
  BY DEF OneInside, TypeOK
<1>4. WorkerKnown'
  BY DEF WorkerKnown, TypeOK
<1>5. WorkerTicks'
  BY DEF WorkerTicks, Ticking, Live, TypeOK
<1>6. RefsBalance'
  <2>1. \A n \in Workers : Live(n)' <=> Live(n)
    BY DEF Live
  <2>2. \A u \in Threads : At(u, "clear")' <=> At(u, "clear")
    OBVIOUS
  <2> QED BY <2>1, <2>2, RefsStand
<1>7. ActiveOrStopping'
  BY DEF WorkerTicks, ActiveOrStopping, Ticking, Live, TypeOK
<1>8. StopOnItsWay'
  BY DEF StopOnItsWay, WillStop, Stops, Ticking, Live, TypeOK
<1> QED BY <1>1, <1>2, <1>3, <1>4, <1>5, <1>6, <1>7, <1>8

LEMMA StartThreadKeeps ==
  ASSUME IInv, NEW t \in Threads, StartThread(t)
  PROVE  IInv'
<1>1. ~Stops(t)
  BY DEF StartThread, At, Stops
<1> QED BY <1>1, EnterStartKeeps, ReturnKeeps DEF StartThread, At

LEMMA RegisterKeeps ==
  ASSUME IInv, NEW t \in Threads, Register(t)
  PROVE  IInv'
<1> USE DEF IInv, Register, At, Goto, entVars, thVars, history
<1>1. TypeOK'
  BY DEF TypeOK, Steps
<1>2. Calling'
  BY DEF Calling
<1>3. OneInside'
  BY DEF OneInside
<1>4. WorkerKnown'
  BY DEF WorkerKnown, TypeOK
<1>5. WorkerTicks'
  BY DEF WorkerTicks, Ticking, Live
<1>6. RefsBalance'
  <2>1. \A n \in Workers : Live(n)' <=> Live(n)
    BY DEF Live
  <2>2. \A u \in Threads : At(u, "clear")' <=> At(u, "clear")
    OBVIOUS
  <2> QED BY <2>1, <2>2, RefsStand
<1>7. ActiveOrStopping'
  BY DEF WorkerKnown, WorkerTicks, ActiveOrStopping, Ticking, Live
<1>8. StopOnItsWay'
  BY DEF StopOnItsWay, WillStop, Stops, Ticking, Live
<1> QED BY <1>1, <1>2, <1>3, <1>4, <1>5, <1>6, <1>7, <1>8

LEMMA CreateKeeps ==
  ASSUME IInv, NEW t \in Threads, Create(t)
  PROVE  IInv'
<1> USE DEF IInv, Create, At, Goto, entVars, thVars, history
<1>0. /\ created + 1 \in Workers /\ created + 1 > created
      /\ pc[t] = "create" /\ pc[created + 1] = "none" /\ t # created + 1
      /\ pc'[t] = "launch" /\ pc'[created + 1] = "allocated"
      /\ \A u \in Threads : u # t /\ u # created + 1 => pc'[u] = pc[u]
  BY DEF Calling, TypeOK
<1>1. TypeOK'
  BY <1>0 DEF TypeOK, Steps
<1>2. Calling'
  <2>1. \A m \in Workers : m > created' <=> m > created /\ m # created + 1
    BY <1>0 DEF TypeOK
  <2>2. \A m \in Workers : m > created' <=> pc'[m] = "none"
    BY <1>0, <2>1 DEF Calling
  <2>3. \A m \in Workers : m # created + 1 /\ m # t => pc'[m] = pc[m]
    BY <1>0
  <2>4. arg' = arg /\ ret' = ret /\ arg[t]
    BY <1>0 DEF Calling
  <2>5. pc'[created + 1] = "allocated" /\ pc'[t] = "launch" /\ created + 1 \in Workers
    BY <1>0
  <2>6. \A u \in Clients : u # created + 1
    BY <1>0
  <2>7. \A u \in Threads : u # created + 1 /\ u # t => pc'[u] = pc[u]
    BY <1>0
  <2> HIDE DEF Create, At
  <2>8. \A u \in Clients : pc'[u] \in CallSteps \cup {"idle"} /\ ret'[u] = "idle"
    BY <2>4, <2>5, <2>6, <2>7 DEF Calling
  <2>9. \A m \in Workers :
          /\ pc'[m] # "idle"
          /\ pc'[m] \in CallSteps => ret'[m] # "idle" /\ (ret'[m] = "exit" => ~arg'[m])
    BY <1>0, <2>4, <2>5, <2>7 DEF Calling
  <2>10. \A u \in Threads :
           /\ pc'[u] \in StartSteps \cup {"startThread"} => arg'[u]
           /\ pc'[u] \in StopSteps \cup {"stopThread"} => ~arg'[u]
    BY <2>4, <2>5, <2>7 DEF Calling
  <2> QED BY <2>2, <2>8, <2>9, <2>10 DEF Calling
<1>3. OneInside'
  BY <1>0 DEF Calling, OneInside
<1>4. WorkerKnown'
  BY <1>0 DEF OneInside, WorkerKnown, TypeOK
<1>5. WorkerTicks'
  <2>1. \A m \in Workers : Live(m)' <=> Live(m)
    BY <1>0 DEF Live
  <2>2. collided \/ \A m \in Workers : ~Ticking(m)
    BY <1>0 DEF WorkerKnown, WorkerTicks
  <2> QED BY <2>1, <2>2 DEF WorkerTicks, Ticking
<1>6. RefsBalance'
  <2>1. \A m \in Workers : Live(m)' <=> Live(m)
    BY <1>0 DEF Live
  <2>2. collided \/ \A u \in Threads : ~At(u, "clear") /\ ~At(u, "clear")'
    BY <1>0 DEF OneInside, TypeOK
  <2>3. collided \/ worker = Nil
    BY <1>0 DEF WorkerKnown
  <2>4. worker' = created' /\ created' = created + 1 /\ refs' = [refs EXCEPT ![created + 1] = 1]
    OBVIOUS
  <2>5. ~Live(created + 1)
    BY <1>0 DEF Live
  <2> HIDE DEF Live
  <2> QED BY <1>0, <2>1, <2>2, <2>3, <2>4, <2>5 DEF RefsBalance, TypeOK
<1>7. ActiveOrStopping'
  BY <1>0 DEF Calling, OneInside, WorkerKnown, WorkerTicks, ActiveOrStopping, Begun, Stops, Ticking, Live, TypeOK
<1>8. StopOnItsWay'
  BY <1>0 DEF Calling, StopOnItsWay, WillStop, Stops, Ticking, Live, TypeOK
<1> QED BY <1>1, <1>2, <1>3, <1>4, <1>5, <1>6, <1>7, <1>8

LEMMA LaunchStarts ==
  ASSUME IInv, NEW t \in Threads, At(t, "launch"), worker # Nil, pc[worker] = "allocated",
         pc' = [pc EXCEPT ![t] = "resetQuit", ![worker] = "begin"],
         refs' = [refs EXCEPT ![worker] = @ + 1], UNCHANGED <<arg, ret>>,
         UNCHANGED <<entVars, worker, quit, cancelled, created, history>>
  PROVE  IInv'
<1> USE DEF IInv, At, Goto, entVars, thVars, history
<1>0. /\ worker \in Workers /\ worker # t /\ refs[worker] \in Int
      /\ pc[t] = "launch" /\ pc[worker] = "allocated"
      /\ pc'[t] = "resetQuit" /\ pc'[worker] = "begin"
      /\ \A u \in Threads : u # t /\ u # worker => pc'[u] = pc[u]
  BY DEF TypeOK
<1>1. TypeOK'
  <2>1. pc' \in [Threads -> Steps]
    BY DEF TypeOK, Steps
  <2>2. refs' \in [Workers -> Int]
    BY <1>0 DEF TypeOK
  <2> QED BY <2>1, <2>2 DEF TypeOK
<1>2. Calling'
  <2>1. arg' = arg /\ ret' = ret /\ created' = created /\ arg[t]
    BY <1>0 DEF Calling
  <2> HIDE DEF At
  <2> QED BY <1>0, <2>1 DEF Calling
<1>3. OneInside'
  BY <1>0 DEF OneInside
<1>4. WorkerKnown'
  BY <1>0 DEF WorkerKnown
<1>5. WorkerTicks'
  BY <1>0 DEF WorkerTicks, Ticking, Live
<1>6. RefsBalance'
  <2>1. \A m \in Workers : Live(m)' <=> (Live(m) \/ m = worker)
    BY <1>0 DEF Live
  <2>2. \A u \in Threads : At(u, "clear")' <=> At(u, "clear")
    BY <1>0
  <2>3. ~Live(worker)
    BY <1>0 DEF Live
  <2> HIDE DEF Live, At
  <2> QED BY <1>0, <2>1, <2>2, <2>3 DEF RefsBalance, TypeOK
<1>7. ActiveOrStopping'
  <2>1. \A m \in Workers : Ticking(m)' => m = worker \/ Ticking(m)
    BY <1>0 DEF Ticking, Live
  <2>2. ~collided => \A m \in Workers : Ticking(m)' => m = worker
    BY <2>1 DEF WorkerTicks
  <2> QED BY <1>0, <2>2 DEF ActiveOrStopping, Begun
<1>8. StopOnItsWay'
  BY <1>0 DEF Calling, StopOnItsWay, WillStop, Stops, Ticking, Live, TypeOK
<1> QED BY <1>1, <1>2, <1>3, <1>4, <1>5, <1>6, <1>7, <1>8

LEMMA LaunchNothing ==
  ASSUME IInv, NEW t \in Threads, At(t, "launch"), Goto(t, "resetQuit"), UNCHANGED refs,
         UNCHANGED <<entVars, worker, quit, cancelled, created, history>>
  PROVE  IInv'
<1> USE DEF IInv, At, Goto, entVars, thVars, history
<1>1. TypeOK'
  BY DEF TypeOK, Steps
<1>2. Calling'
  BY DEF Calling
<1>3. OneInside'
  BY DEF OneInside
<1>4. WorkerKnown'
  BY DEF WorkerKnown
<1>5. WorkerTicks'
  BY DEF WorkerTicks, Ticking, Live
<1>6. RefsBalance'
  <2>1. \A n \in Workers : Live(n)' <=> Live(n)
    BY DEF Live
  <2>2. \A u \in Threads : At(u, "clear")' <=> At(u, "clear")
    OBVIOUS
  <2> QED BY <2>1, <2>2, RefsStand
<1>7. ActiveOrStopping'
  BY DEF WorkerTicks, ActiveOrStopping, Begun, Stops, Ticking, Live
<1>8. StopOnItsWay'
  BY DEF StopOnItsWay, WillStop, Stops, Ticking, Live
<1> QED BY <1>1, <1>2, <1>3, <1>4, <1>5, <1>6, <1>7, <1>8

LEMMA LaunchKeeps ==
  ASSUME IInv, NEW t \in Threads, Launch(t)
  PROVE  IInv'
<1>1. CASE worker # Nil /\ pc[worker] = "allocated"
  BY <1>1, LaunchStarts DEF Launch
<1>2. CASE ~(worker # Nil /\ pc[worker] = "allocated")
  BY <1>2, LaunchNothing DEF Launch
<1> QED BY <1>1, <1>2

LEMMA ResetQuitKeeps ==
  ASSUME IInv, NEW t \in Threads, ResetQuit(t)
  PROVE  IInv'
<1> USE DEF IInv, ResetQuit, At, Goto, entVars, thVars, history, Return
<1>1. TypeOK'
  BY DEF TypeOK, Steps
<1>2. Calling'
  BY DEF Calling, TypeOK
<1>3. OneInside'
  BY DEF OneInside
<1>4. WorkerKnown'
  BY DEF WorkerKnown, TypeOK
<1>5. WorkerTicks'
  BY DEF WorkerTicks, Ticking, Live
<1>6. RefsBalance'
  BY DEF Calling, WorkerKnown, RefsBalance, Live, TypeOK
<1>7. ActiveOrStopping'
  BY DEF ActiveOrStopping, Begun, Stops, Ticking, Live
<1>8. StopOnItsWay'
  BY DEF WorkerKnown, StopOnItsWay, WillStop, Stops, Ticking, Live
<1> QED BY <1>1, <1>2, <1>3, <1>4, <1>5, <1>6, <1>7, <1>8

-----------------------------------------------------------------------------
(***************************************************************************)
(* Steps of stopThread.                                                    *)
(***************************************************************************)
LEMMA EnterStopKeeps ==
  ASSUME IInv, NEW t \in Threads, At(t, "stopThread"), worker # Nil, Enter(t, "cancel"),
         UNCHANGED <<entVars, thVars>>
  PROVE  IInv'
<1> USE DEF IInv, At, Goto, entVars, thVars, history, Enter
<1>1. TypeOK'
  BY DEF TypeOK, Steps
<1>2. Calling'
  BY DEF Calling
<1>3. OneInside'
  BY DEF OneInside, TypeOK
<1>4. WorkerKnown'
  BY DEF WorkerKnown, TypeOK
<1>5. WorkerTicks'
  BY DEF WorkerTicks, Ticking, Live, TypeOK
<1>6. RefsBalance'
  <2>1. \A n \in Workers : Live(n)' <=> Live(n)
    BY DEF Live
  <2>2. \A u \in Threads : At(u, "clear")' <=> At(u, "clear")
    OBVIOUS
  <2> QED BY <2>1, <2>2, RefsStand
<1>7. ActiveOrStopping'
  BY DEF ActiveOrStopping, Begun, Stops, Ticking, Live, TypeOK
<1>8. StopOnItsWay'
  BY DEF StopOnItsWay, WillStop, Stops, Ticking, Live, TypeOK
<1> QED BY <1>1, <1>2, <1>3, <1>4, <1>5, <1>6, <1>7, <1>8

LEMMA StopThreadKeeps ==
  ASSUME IInv, NEW t \in Threads, StopThread(t)
  PROVE  IInv'
BY EnterStopKeeps, ReturnKeeps DEF StopThread, At

LEMMA CancelKeeps ==
  ASSUME IInv, NEW t \in Threads, Cancel(t)
  PROVE  IInv'
<1> USE DEF IInv, Cancel, At, Goto, entVars, thVars, history
<1>1. TypeOK'
  BY DEF TypeOK, Steps
<1>2. Calling'
  BY DEF Calling
<1>3. OneInside'
  BY DEF OneInside
<1>4. WorkerKnown'
  BY DEF WorkerKnown, TypeOK
<1>5. WorkerTicks'
  BY DEF WorkerTicks, Ticking, Live
<1>6. RefsBalance'
  BY DEF RefsBalance, Live
<1>7. ActiveOrStopping'
  BY DEF WorkerTicks, ActiveOrStopping, Ticking, Live, TypeOK
<1>8. StopOnItsWay'
  BY DEF WorkerTicks, StopOnItsWay, Ticking, Live, TypeOK
<1> QED BY <1>1, <1>2, <1>3, <1>4, <1>5, <1>6, <1>7, <1>8

LEMMA ReleaseKeeps ==
  ASSUME IInv, NEW t \in Threads, Release(t)
  PROVE  IInv'
<1> USE DEF IInv, Release, At, Goto, entVars, thVars, history
<1>1. TypeOK'
  BY DEF TypeOK, Steps
<1>2. Calling'
  BY DEF Calling
<1>3. OneInside'
  BY DEF OneInside
<1>4. WorkerKnown'
  BY DEF WorkerKnown
<1>5. WorkerTicks'
  BY DEF WorkerTicks, Ticking, Live
<1>6. RefsBalance'
  BY DEF Calling, OneInside, RefsBalance, Live, TypeOK
<1>7. ActiveOrStopping'
  BY DEF WorkerKnown, ActiveOrStopping, Begun, Stops, Ticking, Live
<1>8. StopOnItsWay'
  BY DEF StopOnItsWay, WillStop, Stops, Ticking, Live
<1> QED BY <1>1, <1>2, <1>3, <1>4, <1>5, <1>6, <1>7, <1>8

LEMMA ClearKeeps ==
  ASSUME IInv, NEW t \in Threads, Clear(t)
  PROVE  IInv'
<1> USE DEF IInv, Clear, At, Goto, entVars, thVars, history
<1>1. TypeOK'
  BY DEF TypeOK, Steps
<1>2. Calling'
  BY DEF Calling
<1>3. OneInside'
  BY DEF OneInside
<1>4. WorkerKnown'
  BY DEF OneInside, WorkerKnown, TypeOK
<1>5. WorkerTicks'
  BY DEF WorkerKnown, WorkerTicks, Ticking, Live
<1>6. RefsBalance'
  BY DEF RefsBalance, Live
<1>7. ActiveOrStopping'
  BY DEF ActiveOrStopping, Begun, Stops, Ticking, Live
<1>8. StopOnItsWay'
  BY DEF StopOnItsWay, WillStop, Stops, Ticking, Live
<1> QED BY <1>1, <1>2, <1>3, <1>4, <1>5, <1>6, <1>7, <1>8

LEMMA UnregisterKeeps ==
  ASSUME IInv, NEW t \in Threads, Unregister(t)
  PROVE  IInv'
<1> USE DEF IInv, Unregister, At, Goto, entVars, thVars, history, Return
<1>1. TypeOK'
  BY DEF TypeOK, Steps
<1>2. Calling'
  BY DEF Calling, TypeOK
<1>3. OneInside'
  BY DEF OneInside
<1>4. WorkerKnown'
  BY DEF Calling, OneInside, WorkerKnown, WorkerTicks, TypeOK
<1>5. WorkerTicks'
  BY DEF WorkerTicks, Ticking, Live
<1>6. RefsBalance'
  BY DEF Calling, RefsBalance, Live, TypeOK
<1>7. ActiveOrStopping'
  BY DEF ActiveOrStopping, Begun, Stops, Ticking, Live
<1>8. StopOnItsWay'
  BY DEF StopOnItsWay, WillStop, Stops, Ticking, Live
<1> QED BY <1>1, <1>2, <1>3, <1>4, <1>5, <1>6, <1>7, <1>8

-----------------------------------------------------------------------------
(***************************************************************************)
(* Steps of run.                                                           *)
(***************************************************************************)
LEMMA BeginKeeps ==
  ASSUME IInv, NEW n \in Workers, Begin(n)
  PROVE  IInv'
<1> USE DEF IInv, Begin, At, Goto, entVars, thVars, history, SetActive
<1>1. TypeOK'
  BY DEF TypeOK, Steps
<1>2. Calling'
  BY DEF Calling, TypeOK
<1>3. OneInside'
  BY DEF OneInside
<1>4. WorkerKnown'
  BY DEF WorkerKnown
<1>5. WorkerTicks'
  BY DEF WorkerTicks, Ticking, Live
<1>6. RefsBalance'
  BY DEF Calling, RefsBalance, Live
<1>7. ActiveOrStopping'
  BY DEF ActiveOrStopping, Begun, Stops, Ticking, Live, TypeOK
<1>8. StopOnItsWay'
  BY DEF Calling, StopOnItsWay, WillStop, Stops, Ticking, Live, TypeOK
<1> QED BY <1>1, <1>2, <1>3, <1>4, <1>5, <1>6, <1>7, <1>8

LEMMA TickStopsKeeps ==
  ASSUME IInv, NEW n \in Workers, TickStops(n)
  PROVE  IInv'
<1> USE DEF IInv, TickStops, At, Goto, entVars, thVars, history, SetActive
<1>1. TypeOK'
  BY DEF TypeOK, Steps
<1>2. Calling'
  BY DEF Calling, TypeOK
<1>3. OneInside'
  BY DEF OneInside
<1>4. WorkerKnown'
  BY DEF WorkerKnown
<1>5. WorkerTicks'
  BY DEF WorkerTicks, Ticking, Live
<1>6. RefsBalance'
  BY DEF RefsBalance, Live
<1>7. ActiveOrStopping'
  BY DEF ActiveOrStopping, Begun, Stops, Ticking, Live
<1>8. StopOnItsWay'
  BY DEF StopOnItsWay, WillStop, Stops, Ticking, Live, TypeOK
<1> QED BY <1>1, <1>2, <1>3, <1>4, <1>5, <1>6, <1>7, <1>8

LEMMA EndKeeps ==
  ASSUME IInv, NEW n \in Workers, End(n)
  PROVE  IInv'
<1> USE DEF IInv, End, At, Goto, entVars, thVars, history, SetActive
<1>1. TypeOK'
  BY DEF TypeOK, Steps
<1>2. Calling'
  BY DEF Calling, TypeOK
<1>3. OneInside'
  BY DEF OneInside
<1>4. WorkerKnown'
  BY DEF WorkerKnown
<1>5. WorkerTicks'
  BY DEF WorkerTicks, Ticking, Live
<1>6. RefsBalance'
  BY DEF Calling, OneInside, RefsBalance, Live
<1>7. ActiveOrStopping'
  <2>1. \A m \in Workers : Ticking(m)' => Ticking(m) /\ m # n /\ (Begun(m)' <=> Begun(m))
    BY DEF Ticking, Live, Begun
  <2>2. ~Stops(n) /\ \A u \in Threads : Stops(u) /\ ~At(u, "set") => (Stops(u) /\ ~At(u, "set"))'
    BY DEF Stops
  <2> QED BY <2>1, <2>2 DEF ActiveOrStopping
<1>8. StopOnItsWay'
  BY DEF Calling, StopOnItsWay, WillStop, Stops, Live, TypeOK
<1> QED BY <1>1, <1>2, <1>3, <1>4, <1>5, <1>6, <1>7, <1>8

LEMMA ExitKeeps ==
  ASSUME IInv, NEW n \in Workers, Exit(n)
  PROVE  IInv'
<1> USE DEF IInv, Exit, At, Goto, entVars, thVars, history
<1>1. TypeOK'
  BY DEF TypeOK, Steps
<1>2. Calling'
  BY DEF Calling
<1>3. OneInside'
  BY DEF OneInside
<1>4. WorkerKnown'
  BY DEF WorkerKnown
<1>5. WorkerTicks'
  BY DEF WorkerTicks, Ticking, Live
<1>6. RefsBalance'
  <2>1. \A m \in Workers : Live(m)' <=> Live(m) /\ m # n
    BY DEF Live, TypeOK
  <2>2. \A u \in Threads : At(u, "clear")' <=> At(u, "clear")
    OBVIOUS
  <2>3. Live(n) /\ refs' = [refs EXCEPT ![n] = @ - 1] /\ UNCHANGED <<worker, created, collided>>
    BY DEF Live
  <2> HIDE DEF Live, At, Exit
  <2> QED BY <2>1, <2>2, <2>3 DEF RefsBalance, TypeOK
<1>7. ActiveOrStopping'
  BY DEF ActiveOrStopping, Begun, Stops, Ticking, Live
<1>8. StopOnItsWay'
  BY DEF StopOnItsWay, WillStop, Stops, Ticking, Live
<1> QED BY <1>1, <1>2, <1>3, <1>4, <1>5, <1>6, <1>7, <1>8

-----------------------------------------------------------------------------
(***************************************************************************)
(* The invariant, and what follows from it.                                *)
(***************************************************************************)
LEMMA StutterKeeps ==
  ASSUME IInv, UNCHANGED vars
  PROVE  IInv'
BY DEF vars, entVars, thVars, ctlVars, history, IInv, TypeOK, Calling, OneInside, WorkerKnown,
   WorkerTicks, RefsBalance, ActiveOrStopping, StopOnItsWay, Ticking, Live, Begun, Stops, WillStop, At

LEMMA NextIInv == IInv /\ [Next]_vars => IInv'
<1> SUFFICES ASSUME IInv, Next PROVE IInv'
  BY StutterKeeps
<1>1. ASSUME NEW t \in Clients, NEW value \in BOOLEAN, Call(t, value)
      PROVE  IInv'
  BY <1>1, CallKeeps
<1>2. ASSUME NEW t \in Threads, CallStep(t)
      PROVE  IInv'
  BY <1>2, SetFlagKeeps, LookupKeeps, StartThreadKeeps, RegisterKeeps, CreateKeeps, LaunchKeeps,
     ResetQuitKeeps, StopThreadKeeps, CancelKeeps, ReleaseKeeps, ClearKeeps, UnregisterKeeps
     DEF CallStep
<1>3. ASSUME NEW n \in Workers, RunStep(n) \/ TickStops(n)
      PROVE  IInv'
  BY <1>3, BeginKeeps, EndKeeps, ExitKeeps, TickStopsKeeps DEF RunStep
<1> QED BY <1>1, <1>2, <1>3 DEF Next

LEMMA Invariant == Spec => []IInv
BY InitIInv, NextIInv, PTL DEF Spec

\* The entity's flags and worker, the retains of the threads and the steps of setActive:,
\* startThread, stopThread and run have the types they should have.
THEOREM TypeCorrect == Spec => []TypeOK
<1>1. IInv => TypeOK
  BY DEF IInv
<1> QED BY <1>1, Invariant, PTL

\* Up to a collision, an NSThread has one retain for the worker variable and one for running
\* (initWithTarget:, release and the thread's own retain): none leaks, none is released too often.
THEOREM RetainsAreBalanced == Spec => []RefsBalance
<1>1. IInv => RefsBalance
  BY DEF IInv
<1> QED BY <1>1, Invariant, PTL

\* Up to a collision, the only thread that ticks is the worker, which stopThread finds through
\* the entity's private data.
THEOREM TickingThreadsCanBeStopped == Spec => []TickingIsStoppable
<1>1. ASSUME IInv PROVE TickingIsStoppable
  BY <1>1 DEF IInv, TickingIsStoppable, WorkerKnown, WorkerTicks
<1> QED BY <1>1, Invariant, PTL

\* Up to a collision, a stop that comes while a thread begins or ends is not lost: when the only
\* client has asked last to deactivate and no setActive: is running, whatever still ticks is going
\* to be cancelled by a worker that ends.
THEOREM StopsAreNotLost == Spec => []StopReachesAll
<1>1. ASSUME IInv PROVE StopReachesAll
  BY <1>1 DEF IInv, StopReachesAll, StopOnItsWay, Settled, Stops, WillStop
<1> QED BY <1>1, Invariant, PTL

\* Up to a collision, no thread goes on ticking for an entity that is not active.
THEOREM TickingMeansActive == Spec => []TickingIsActive
<1>1. ASSUME IInv PROVE TickingIsActive
  BY <1>1 DEF IInv, TickingIsActive, ActiveOrStopping, Begun, Settled, Stops, At
<1> QED BY <1>1, Invariant, PTL
=============================================================================
