-------------------------- MODULE ProxyPins_proofs --------------------------
(***************************************************************************)
(* Proofs about ProxyPins, for any pins, proxies and threads.              *)
(***************************************************************************)
EXTENDS ProxyPins, FiniteSetTheorems, TLAPS

-----------------------------------------------------------------------------
(***************************************************************************)
(* The inductive invariant.                                                *)
(***************************************************************************)
\* The steps of unregisterPin: on a proxy: under way, after the announcement, after the host has
\* stopped observing.
GoingSteps == {"notify", "askObservers", "observers", "detachProxy"}
Going(x) == {w \in Workers : arg[w] = x /\ pc[w] \in GoingSteps}
Announced(x)  == \E w \in Workers : arg[w] = x /\ pc[w] \in GoingSteps \ {"notify"}
Unobserved(x) == \E w \in Workers : arg[w] = x /\ pc[w] = "detachProxy"

\* Pin p is being deallocated; it has been announced that it is.
Ending(p) == \E w \in Workers : arg[w] = p /\ pc[w] \in {"dealloc", "free"}
Ended(p)  == p \in freed \/ \E w \in Workers : arg[w] = p /\ pc[w] = "free"

\* What a worker is busy with.
Tasks ==
  \A w \in Workers :
    /\ pc[w] = "idle" <=> arg[w] = None
    /\ pc[w] \in {"queueAdd", "askObservers", "observers", "detachProxy"} => arg[w] \in Made
    /\ pc[w] = "notify" => arg[w] \in Made \cup Pins
    /\ pc[w] \in {"detachPin", "dealloc", "free"} => arg[w] \in Pins

\* Who waits for a call.
Awaited(c) ==
  /\ c.op = "addProxyPin" => c.for = Main /\ c.what \in Made
  /\ c.op # "addProxyPin" => c.for \in Workers /\ arg[c.for] = c.what
  /\ c.op = "notifyProxyRemoved" => pc[c.for] = "notify" /\ c.what \in Made
  /\ c.op = "notifyPinRemoved" => pc[c.for] = "notify" /\ c.what \in Pins
  /\ c.op = "removeObservers" => pc[c.for] = "observers"
  /\ c.op = "notifyRelease" => pc[c.for] = "dealloc"
Awaits == \A i \in 1 .. Len(mainQueue) : Awaited(mainQueue[i])

\* No call is queued twice.
CalledOnce ==
  /\ \A i, j \in 1 .. Len(mainQueue) :
       mainQueue[i].for = mainQueue[j].for /\ mainQueue[i].what = mainQueue[j].what => i = j
  /\ \A x \in Proxies : Adding(x) => ~AddQueued(x)
  /\ \A v, w \in Workers : pc[v] = "queueAdd" /\ pc[w] = "queueAdd" /\ arg[v] = arg[w] => v = w

\* addProxyPin: comes before what ends the proxy or its pin.
AddsFirst ==
  \A i, j \in 1 .. Len(mainQueue) :
    mainQueue[i].op = "addProxyPin" =>
      LET x == mainQueue[i].what IN
      /\ mainQueue[j].op = "notifyRelease" /\ mainQueue[j].what = realPin[x] => i < j
      /\ mainQueue[j].op = "notifyProxyRemoved" /\ mainQueue[j].what = x =>
           i < j \/ realPin[x] \in disturbed

\* A pin is deallocated when nothing refers to it, and no proxy of it is made any more.
Endings ==
  \A p \in Pins : p \in freed \/ Ending(p) =>
    p \notin registered /\ \A x \in Proxies : realPin[x] = p => ~Adding(x)

\* The proxies of a pin without a history.
Alive(x) == x \in children \/ Busy(x) # {}
Single(p) == \A x, y \in Proxies : realPin[x] = p /\ realPin[y] = p /\ Alive(x) /\ Alive(y) => x = y
Pending(p) ==
  \A x \in Proxies : realPin[x] = p /\ AddPending(x) =>
    x \in children /\ ~Announced(x) /\ (Adding(x) => Going(x) = {})
Observed(p) ==
  observers[p] = IF \E x \in ProxiesOf(p) : ~AddPending(x) /\ ~Unobserved(x) THEN 1 ELSE 0
Shown(p) ==
  \A x \in Proxies : realPin[x] = p =>
    (x \in shown <=> x \in children /\ ~AddPending(x) /\ ~Announced(x))
Dropped(p) ==
  Ended(p) => \A x \in Proxies : realPin[x] = p =>
                ~AddQueued(x) /\ (x \in children => Unobserved(x))
Undisturbed ==
  \A p \in Pins \ disturbed : Single(p) /\ Pending(p) /\ Observed(p) /\ Shown(p) /\ Dropped(p)

\* A proxy two threads never removed at once.
Removals ==
  \A x \in Proxies \ overlapped :
    /\ \A v, w \in Going(x) : v = w
    /\ Going(x) # {} => x \in children
    /\ removals[x] = IF x \in Made /\ (x \notin children \/ Announced(x)) THEN 1 ELSE 0

\* A proxy is observed once.
ObserversBound ==
  \A p \in Pins : observers[p] <= Cardinality({x \in Proxies : realPin[x] = p /\ ~AddPending(x)})

Kinds == shown \subseteq Made /\ \A x \in Proxies : realPin[x] = None => removals[x] = 0

IInv == /\ TypeOK /\ Kinds /\ Tasks /\ Awaits /\ CalledOnce /\ AddsFirst /\ Endings
        /\ Undisturbed /\ Removals /\ ObserversBound

USE ProxyAssumption DEF ProxyAssumption, Threads

-----------------------------------------------------------------------------
(***************************************************************************)
(* The main queue.                                                         *)
(***************************************************************************)
LEMMA AddIsCall ==
  ASSUME NEW c \in Calls
  PROVE  /\ c.op = "addProxyPin" /\ c.for = Main <=> c = Call("addProxyPin", c.what, Main)
         /\ \A x : c = Call("addProxyPin", x, Main) => c.what = x
BY DEF Calls, Call

LEMMA QueueType ==
  ASSUME IInv
  PROVE  /\ Len(mainQueue) \in Nat
         /\ \A i \in 1 .. Len(mainQueue) : mainQueue[i] \in Calls
BY DEF IInv, TypeOK

\* The worker an entry of the queue wakes.
LEMMA OneEntry ==
  ASSUME IInv, NEW i \in 1 .. Len(mainQueue), NEW j \in 1 .. Len(mainQueue),
         mainQueue[i].for = mainQueue[j].for, mainQueue[i].for # Main
  PROVE  i = j
<1>1. mainQueue[i].what = mainQueue[j].what
  BY DEF IInv, Awaits, Awaited
<1> QED BY <1>1 DEF IInv, CalledOnce

\* A worker a call is queued for waits for it.
LEMMA OnlyWaiting ==
  ASSUME IInv, NEW i \in 1 .. Len(mainQueue), mainQueue[i].for \in Workers
  PROVE  pc[mainQueue[i].for] \in {"notify", "observers", "dealloc"}
<1>1. mainQueue[i] \in Calls /\ Awaited(mainQueue[i])
  BY QueueType DEF IInv, Awaits
<1> QED BY <1>1 DEF Awaited, Calls, Ops

LEMMA AddQueuedAt ==
  ASSUME IInv, NEW x
  PROVE  AddQueued(x) <=> \E i \in 1 .. Len(mainQueue) : mainQueue[i].op = "addProxyPin" /\ mainQueue[i].what = x
<1>1. ASSUME NEW i \in 1 .. Len(mainQueue)
      PROVE  mainQueue[i] = Call("addProxyPin", x, Main) <=> mainQueue[i].op = "addProxyPin" /\ mainQueue[i].what = x
  <2>1. mainQueue[i] \in Calls
    BY QueueType
  <2>2. mainQueue[i].op = "addProxyPin" => mainQueue[i].for = Main
    BY DEF IInv, Awaits, Awaited
  <2> QED BY <2>1, <2>2, AddIsCall DEF Call
<1> QED BY <1>1 DEF AddQueued

\* What a step that takes the first call does to the queue.
Taken(c) ==
  /\ Len(mainQueue) > 0 /\ mainQueue[1] = c
  /\ Len(mainQueue') = Len(mainQueue) - 1
  /\ \A i \in 1 .. Len(mainQueue) - 1 : mainQueue'[i] = mainQueue[i + 1]

LEMMA PerformTakes ==
  ASSUME IInv, NEW op, Perform(op)
  PROVE  /\ Taken(Head(mainQueue)) /\ Head(mainQueue) \in Calls /\ Head(mainQueue).op = op
         /\ Awaited(Head(mainQueue)) /\ mainQueue' \in Seq(Calls)
<1>1. mainQueue \in Seq(Calls)
  BY DEF IInv, TypeOK
<1>2. Len(mainQueue) \in Nat \ {0}
  BY <1>1 DEF Perform
<1>3. Taken(Head(mainQueue)) /\ Head(mainQueue) \in Calls
  BY <1>1, <1>2 DEF Perform, Taken
<1>4. Awaited(mainQueue[1])
  BY <1>2 DEF IInv, Awaits
<1> QED BY <1>1, <1>3, <1>4 DEF Perform, Taken

\* What a step that queues a call does to the queue.
Queued(c) ==
  /\ Len(mainQueue') = Len(mainQueue) + 1
  /\ mainQueue'[Len(mainQueue) + 1] = c
  /\ \A i \in 1 .. Len(mainQueue) : mainQueue'[i] = mainQueue[i]

LEMMA QueueAppends ==
  ASSUME IInv, NEW op \in Ops, NEW what \in Pins \cup Proxies, NEW w \in Threads, Queue(op, what, w)
  PROVE  /\ Queued(Call(op, what, w)) /\ mainQueue' \in Seq(Calls)
         /\ Call(op, what, w) \in Calls
         /\ Call(op, what, w).op = op /\ Call(op, what, w).what = what /\ Call(op, what, w).for = w
<1> DEFINE c == Call(op, what, w)
<1>1. c \in Calls /\ c.op = op /\ c.what = what /\ c.for = w
  BY DEF Call, Calls
<1>2. mainQueue \in Seq(Calls) /\ mainQueue' = Append(mainQueue, c)
  BY DEF IInv, TypeOK, Queue
<1> HIDE DEF c
<1>3. Queued(c) /\ mainQueue' \in Seq(Calls)
  BY <1>1, <1>2 DEF Queued
<1> QED BY <1>1, <1>3 DEF c

\* The first call is taken and its worker, if there is one, goes on.
LEMMA TakenKeeps ==
  ASSUME IInv, NEW c \in Calls, Taken(c), mainQueue' \in Seq(Calls),
         UNCHANGED <<realPin, arg>>, disturbed \subseteq disturbed',
         \A u \in Workers \ {c.for} : pc'[u] = pc[u],
         \A u \in Workers : pc'[u] = "queueAdd" <=> pc[u] = "queueAdd"
  PROVE  /\ Awaits' /\ CalledOnce' /\ AddsFirst'
         /\ \A x \in Proxies : AddQueued(x)' <=> AddQueued(x) /\ ~(c.op = "addProxyPin" /\ c.what = x)
<1>1. /\ Len(mainQueue) \in Nat \ {0} /\ mainQueue[1] = c /\ Len(mainQueue') = Len(mainQueue) - 1
      /\ \A i \in 1 .. Len(mainQueue') :
           i + 1 \in 1 .. Len(mainQueue) /\ i + 1 # 1 /\ mainQueue'[i] = mainQueue[i + 1]
  BY QueueType DEF Taken
<1>2. Made' = Made
  BY DEF Made
<1>3. Awaits'
  <2> SUFFICES ASSUME NEW i \in 1 .. Len(mainQueue'), NEW e, e = mainQueue'[i] PROVE Awaited(e)'
    BY DEF Awaits
  <2>1. e = mainQueue[i + 1] /\ Awaited(e)
    BY <1>1 DEF IInv, Awaits
  <2>2. e.op # "addProxyPin" => e.for \in Workers /\ e.for # Main
    BY <2>1 DEF Awaited
  <2>3. e.op # "addProxyPin" => pc'[e.for] = pc[e.for]
    BY <1>1, <2>1, <2>2, OneEntry
  <2> QED BY <1>2, <2>1, <2>3 DEF Awaited
<1>4. ASSUME NEW x \in Proxies
      PROVE  /\ AddQueued(x)' <=> AddQueued(x) /\ ~(c.op = "addProxyPin" /\ c.what = x)
             /\ Adding(x)' <=> Adding(x)
  <2>1. AddQueued(x)' => AddQueued(x)
    BY <1>1 DEF AddQueued
  <2>2. AddQueued(x) /\ c # Call("addProxyPin", x, Main) => AddQueued(x)'
    <3> SUFFICES ASSUME NEW i \in 1 .. Len(mainQueue), mainQueue[i] = Call("addProxyPin", x, Main),
                        c # Call("addProxyPin", x, Main)
                 PROVE  AddQueued(x)'
      BY DEF AddQueued
    <3>1. i # 1
      BY <1>1
    <3>2. i - 1 \in 1 .. Len(mainQueue') /\ i - 1 + 1 = i
      BY <1>1, <3>1
    <3>3. mainQueue'[i - 1] = mainQueue[i]
      BY <1>1, <3>2
    <3> QED BY <3>2, <3>3 DEF AddQueued
  <2>3. c.op = "addProxyPin" => c.for = Main
    BY <1>1 DEF IInv, Awaits, Awaited
  <2>4. c = Call("addProxyPin", x, Main) <=> c.op = "addProxyPin" /\ c.what = x
    BY <2>3, AddIsCall
  <2>5. ASSUME c = Call("addProxyPin", x, Main), AddQueued(x)' PROVE FALSE
    <3>1. PICK i \in 1 .. Len(mainQueue') : mainQueue'[i] = Call("addProxyPin", x, Main)
      BY <2>5 DEF AddQueued
    <3>2. mainQueue[i + 1] = mainQueue[1]
      BY <1>1, <2>5, <3>1
    <3>3. 1 \in 1 .. Len(mainQueue) /\ i + 1 \in 1 .. Len(mainQueue) /\ i + 1 # 1
      BY <1>1
    <3> QED BY <3>2, <3>3 DEF IInv, CalledOnce
  <2>6. Adding(x)' <=> Adding(x)
    BY DEF Adding, Busy
  <2> QED BY <2>1, <2>2, <2>4, <2>5, <2>6
<1>5. CalledOnce'
  <2>1. (\A i, j \in 1 .. Len(mainQueue) :
           mainQueue[i].for = mainQueue[j].for /\ mainQueue[i].what = mainQueue[j].what => i = j)'
    <3> SUFFICES ASSUME NEW i \in 1 .. Len(mainQueue'), NEW j \in 1 .. Len(mainQueue'),
                        mainQueue'[i].for = mainQueue'[j].for, mainQueue'[i].what = mainQueue'[j].what
                 PROVE  i = j
      OBVIOUS
    <3>1. i + 1 = j + 1
      BY <1>1 DEF IInv, CalledOnce
    <3> QED BY <1>1, <3>1
  <2>2. \A x \in Proxies : Adding(x)' => ~AddQueued(x)'
    BY <1>4 DEF IInv, CalledOnce
  <2> QED BY <2>1, <2>2 DEF IInv, CalledOnce
<1>6. AddsFirst'
  <2> SUFFICES ASSUME NEW i \in 1 .. Len(mainQueue'), NEW j \in 1 .. Len(mainQueue'),
                      mainQueue'[i].op = "addProxyPin"
               PROVE  LET x == mainQueue'[i].what IN
                      /\ mainQueue'[j].op = "notifyRelease" /\ mainQueue'[j].what = realPin[x] => i < j
                      /\ mainQueue'[j].op = "notifyProxyRemoved" /\ mainQueue'[j].what = x =>
                           i < j \/ realPin[x] \in disturbed'
    BY DEF AddsFirst
  <2>1. /\ i + 1 \in 1 .. Len(mainQueue) /\ j + 1 \in 1 .. Len(mainQueue)
        /\ mainQueue'[i] = mainQueue[i + 1] /\ mainQueue'[j] = mainQueue[j + 1]
        /\ i + 1 < j + 1 => i < j
    BY <1>1
  <2> QED BY <2>1 DEF IInv, AddsFirst
<1> QED BY <1>3, <1>4, <1>5, <1>6

\* A call is queued for a worker that does not wait for one.
LEMMA QueuedKeeps ==
  ASSUME IInv, NEW c \in Calls, Queued(c), mainQueue' \in Seq(Calls), Awaited(c)',
         Made \subseteq Made', \A x \in Made : realPin'[x] = realPin[x],
         disturbed \subseteq disturbed',
         \A i \in 1 .. Len(mainQueue) : mainQueue[i].for = c.for => mainQueue[i].what # c.what,
         \A i \in 1 .. Len(mainQueue) : mainQueue[i].for \in Workers =>
           pc'[mainQueue[i].for] = pc[mainQueue[i].for] /\ arg'[mainQueue[i].for] = arg[mainQueue[i].for],
         c.op # "addProxyPin" =>
           \A u \in Workers : pc'[u] = "queueAdd" => pc[u] = "queueAdd" /\ arg'[u] = arg[u],
         c.op = "addProxyPin" =>
           /\ \A u \in Workers : pc'[u] = "queueAdd" => pc[u] = "queueAdd" /\ arg'[u] = arg[u] /\ arg[u] # c.what
           /\ \A i \in 1 .. Len(mainQueue) :
                /\ ~(mainQueue[i].op = "notifyRelease" /\ mainQueue[i].what = realPin'[c.what])
                /\ mainQueue[i].op = "notifyProxyRemoved" /\ mainQueue[i].what = c.what =>
                     realPin'[c.what] \in disturbed'
  PROVE  /\ Awaits' /\ CalledOnce' /\ AddsFirst'
         /\ \A x \in Proxies : AddQueued(x)' <=> AddQueued(x) \/ (c.op = "addProxyPin" /\ c.what = x)
<1> DEFINE n == Len(mainQueue)
<1>1. /\ n \in Nat /\ Len(mainQueue') = n + 1 /\ mainQueue'[n + 1] = c
      /\ \A i \in 1 .. n : mainQueue'[i] = mainQueue[i] /\ i < n + 1 /\ i \in 1 .. n + 1
      /\ \A i \in 1 .. n + 1 : i \in 1 .. n \/ i = n + 1
      /\ n + 1 \in 1 .. n + 1
  BY QueueType DEF Queued
<1> HIDE DEF n
<1>2. Awaits'
  <2> SUFFICES ASSUME NEW i \in 1 .. n + 1, NEW e, e = mainQueue'[i] PROVE Awaited(e)'
    BY <1>1 DEF Awaits
  <2>1. CASE i = n + 1
    <3>1. e = c
      BY <1>1, <2>1
    <3> QED BY <3>1
  <2>2. CASE i \in 1 .. n
    <3>1. e = mainQueue[i] /\ Awaited(e)
      BY <1>1, <2>2 DEF IInv, Awaits, n
    <3>2. e.op # "addProxyPin" => e.for \in Workers /\ pc'[e.for] = pc[e.for] /\ arg'[e.for] = arg[e.for]
      BY <2>2, <3>1 DEF Awaited, n
    <3> QED BY <3>1, <3>2 DEF Awaited
  <2> QED BY <1>1, <2>1, <2>2
<1>3. ASSUME NEW x \in Proxies
      PROVE  AddQueued(x)' <=> AddQueued(x) \/ (c.op = "addProxyPin" /\ c.what = x)
  <2>1. c.op = "addProxyPin" => c.for = Main
    BY DEF Awaited
  <2>2. c = Call("addProxyPin", x, Main) <=> c.op = "addProxyPin" /\ c.what = x
    BY <2>1, AddIsCall
  <2>3. AddQueued(x)' <=> \E i \in 1 .. n + 1 : mainQueue'[i] = Call("addProxyPin", x, Main)
    BY <1>1 DEF AddQueued
  <2>4. AddQueued(x) <=> \E i \in 1 .. n : mainQueue[i] = Call("addProxyPin", x, Main)
    BY DEF AddQueued, n
  <2> QED BY <1>1, <2>2, <2>3, <2>4
<1>4. CalledOnce'
  <2>1. (\A i, j \in 1 .. Len(mainQueue) :
           mainQueue[i].for = mainQueue[j].for /\ mainQueue[i].what = mainQueue[j].what => i = j)'
    <3> SUFFICES ASSUME NEW i \in 1 .. n + 1, NEW j \in 1 .. n + 1,
                        mainQueue'[i].for = mainQueue'[j].for, mainQueue'[i].what = mainQueue'[j].what
                 PROVE  i = j
      BY <1>1
    <3>1. CASE i \in 1 .. n /\ j \in 1 .. n
      BY <1>1, <3>1 DEF IInv, CalledOnce, n
    <3>2. CASE i \in 1 .. n /\ j = n + 1
      BY <1>1, <3>2 DEF n
    <3>3. CASE i = n + 1 /\ j \in 1 .. n
      BY <1>1, <3>3 DEF n
    <3>4. CASE i = n + 1 /\ j = n + 1
      BY <3>4
    <3> QED BY <1>1, <3>1, <3>2, <3>3, <3>4
  <2>2. \A x \in Proxies : Adding(x)' => Adding(x)
    BY DEF Adding, Busy
  <2>3. \A x \in Proxies : c.op = "addProxyPin" /\ c.what = x => ~Adding(x)'
    BY DEF Adding, Busy
  <2>4. \A x \in Proxies : Adding(x)' => ~AddQueued(x)'
    BY <1>3, <2>2, <2>3 DEF IInv, CalledOnce
  <2>5. \A u \in Workers : pc'[u] = "queueAdd" => pc[u] = "queueAdd" /\ arg'[u] = arg[u]
    OBVIOUS
  <2> QED BY <2>1, <2>4, <2>5 DEF IInv, CalledOnce
<1>5. AddsFirst'
  <2> SUFFICES ASSUME NEW i \in 1 .. n + 1, NEW j \in 1 .. n + 1, mainQueue'[i].op = "addProxyPin"
               PROVE  LET x == mainQueue'[i].what IN
                      /\ mainQueue'[j].op = "notifyRelease" /\ mainQueue'[j].what = realPin'[x] => i < j
                      /\ mainQueue'[j].op = "notifyProxyRemoved" /\ mainQueue'[j].what = x =>
                           i < j \/ realPin'[x] \in disturbed'
    BY <1>1 DEF AddsFirst
  <2>1. CASE i \in 1 .. n /\ j \in 1 .. n
    <3>1. mainQueue'[i] = mainQueue[i] /\ mainQueue'[j] = mainQueue[j]
      BY <1>1, <2>1
    <3>2. mainQueue[i].what \in Made
      BY <2>1, <3>1 DEF IInv, Awaits, Awaited, n
    <3> QED BY <2>1, <3>1, <3>2 DEF IInv, AddsFirst, n
  <2>2. CASE i \in 1 .. n /\ j = n + 1
    BY <1>1, <2>2
  <2>3. CASE i = n + 1 /\ j \in 1 .. n
    BY <1>1, <2>3 DEF n
  <2>4. CASE i = n + 1 /\ j = n + 1
    BY <1>1, <2>4
  <2> QED BY <1>1, <2>1, <2>2, <2>3, <2>4
<1> QED BY <1>2, <1>3, <1>4, <1>5

-----------------------------------------------------------------------------
(***************************************************************************)
(* The proxies.                                                            *)
(***************************************************************************)
\* The registrations for p and the proxies they are for.
Observing(p) == {x \in Proxies : realPin[x] = p /\ ~AddPending(x)}

LEMMA FiniteObserving ==
  ASSUME NEW p
  PROVE  /\ IsFiniteSet(Observing(p)) /\ Cardinality(Observing(p)) \in Nat
         /\ Cardinality(Observing(p)) <= Cardinality(Proxies) /\ Cardinality(Proxies) \in Nat
BY FS_Subset, FS_CardinalityType DEF Observing

LEMMA FiniteObservingNext ==
  ASSUME NEW p
  PROVE  /\ IsFiniteSet(Observing(p)') /\ Cardinality(Observing(p)') \in Nat
         /\ Cardinality(Observing(p)') <= Cardinality(Proxies) /\ Cardinality(Proxies) \in Nat
<1>1. Observing(p)' \in SUBSET Proxies
  BY DEF Observing
<1> QED BY <1>1, FS_Subset, FS_CardinalityType

LEMMA BoundStands ==
  ASSUME IInv, observers' \in [Pins -> Nat], \A p \in Pins : observers'[p] <= observers[p],
         \A x \in Made : realPin'[x] = realPin[x] /\ (AddPending(x)' => AddPending(x))
  PROVE  ObserversBound'
<1> SUFFICES ASSUME NEW p \in Pins PROVE observers'[p] <= Cardinality(Observing(p)')
  BY DEF ObserversBound, Observing
<1>1. Observing(p) \in SUBSET Observing(p)'
  BY DEF Observing, Made
<1>2. Cardinality(Observing(p)) <= Cardinality(Observing(p)')
  BY <1>1, FiniteObservingNext, FS_Subset
<1>3. observers[p] <= Cardinality(Observing(p))
  BY DEF IInv, ObserversBound, Observing
<1>4. observers[p] \in Nat
  BY FiniteObserving DEF IInv, TypeOK
<1> QED BY <1>2, <1>3, <1>4, FiniteObserving, FiniteObservingNext

\* With no history, what the host knows of a pin depends on these alone.
Kept(x) ==
  /\ Alive(x)' => Alive(x)
  /\ Adding(x)' => Adding(x)
  /\ AddPending(x)' <=> AddPending(x)
  /\ Announced(x)' <=> Announced(x)
  /\ Unobserved(x)' <=> Unobserved(x)
  /\ Going(x)' = Going(x)

\* A step that is not about proxies.
LEMMA ProxiesStand ==
  ASSUME IInv, UNCHANGED <<realPin, children, observers, shown, removals>>,
         disturbed \subseteq disturbed', overlapped \subseteq overlapped',
         \A x \in Proxies : Kept(x)
  PROVE  /\ \A p \in Pins \ disturbed' : Single(p)' /\ Pending(p)' /\ Observed(p)' /\ Shown(p)'
         /\ Kinds' /\ Removals' /\ ObserversBound'
<1> USE DEF Kept
<1>1. Made' = Made
  BY DEF Made
<1>2. ASSUME NEW p \in Pins \ disturbed'
      PROVE  Single(p)' /\ Pending(p)' /\ Observed(p)' /\ Shown(p)'
  <2>1. Single(p) /\ Pending(p) /\ Observed(p) /\ Shown(p)
    BY DEF IInv, Undisturbed
  <2>2. ProxiesOf(p)' = ProxiesOf(p) /\ ProxiesOf(p) \in SUBSET Proxies
    BY DEF ProxiesOf, IInv, TypeOK, Made
  <2>3. Single(p)'
    BY <2>1 DEF Single
  <2>4. Pending(p)'
    BY <2>1 DEF Pending
  <2>5. Observed(p)'
    BY <2>1, <2>2 DEF Observed
  <2>6. Shown(p)'
    BY <2>1 DEF Shown
  <2> QED BY <2>3, <2>4, <2>5, <2>6
<1>3. Kinds'
  BY <1>1 DEF IInv, Kinds
<1>4. Removals'
  BY <1>1 DEF IInv, Removals
<1>5. observers \in [Pins -> Nat]
  BY FiniteObserving DEF IInv, TypeOK
<1>6. ObserversBound'
  BY <1>5, BoundStands DEF Made
<1> QED BY <1>2, <1>3, <1>4, <1>6

\* The proxies a posted notification drops.
Gone == children \ children'

LEMMA PostDrops ==
  ASSUME IInv, NEW p \in Pins, Post(p)
  PROVE  /\ Gone \subseteq ProxiesOf(p) /\ children' = children \ Gone
         /\ shown' = shown \ Gone
         /\ \A x \in Proxies : removals'[x] = removals[x] + IF x \in Gone THEN 1 ELSE 0
         /\ removals' \in [Proxies -> Nat]
         /\ observers' = [observers EXCEPT ![p] = 0]
         /\ overlapped' = overlapped \cup {x \in Gone : Busy(x) # {}}
         /\ p \notin disturbed => (observers[p] = 0 /\ Gone = {}) \/ Gone = ProxiesOf(p)
<1>0. /\ removals \in [Proxies -> Nat] /\ observers \in [Pins -> 0 .. Cardinality(Proxies)]
      /\ place \in [Proxies -> Nat] /\ children \subseteq Proxies
  BY DEF IInv, TypeOK, Made
<1>1. CASE observers[p] = 0
  <2>1. UNCHANGED <<children, observers, gui, overlapped>>
    BY <1>1 DEF Post
  <2>2. Gone = {}
    BY <2>1 DEF Gone
  <2> QED BY <1>0, <1>1, <2>1, <2>2 DEF gui
<1>2. CASE observers[p] # 0
  <2> PICK times \in 1 .. observers[p] :
             LET gone == FirstProxies(p, times)
             IN  /\ Detach(gone)
                 /\ Announce(gone)
                 /\ StopObserving(p)
                 /\ overlapped' = overlapped \cup {x \in gone : Busy(x) # {}}
    BY <1>2 DEF Post
  <2> DEFINE gone == FirstProxies(p, times)
  <2>1. gone \subseteq ProxiesOf(p) /\ ProxiesOf(p) \subseteq children
    BY DEF FirstProxies, ProxiesOf
  <2>2. Gone = gone
    BY <2>1 DEF Gone, Detach
  <2>3. ASSUME p \notin disturbed PROVE gone = ProxiesOf(p)
    <3>1. ASSUME NEW x \in ProxiesOf(p) PROVE x \in gone
      <4>1. \A y \in ProxiesOf(p) : y = x
        BY <1>0, <2>3, <3>1 DEF IInv, Undisturbed, Single, Alive, ProxiesOf
      <4>2. place[x] \in Nat
        BY <1>0, <3>1 DEF ProxiesOf
      <4>3. {y \in ProxiesOf(p) : place[y] < place[x]} = {}
        BY <4>1, <4>2
      <4>4. Cardinality({y \in ProxiesOf(p) : place[y] < place[x]}) = 0
        BY <4>3, FS_EmptySet
      <4>5. 0 < times
        BY <1>0, FiniteObserving
      <4> QED BY <3>1, <4>4, <4>5 DEF FirstProxies
    <3> QED BY <2>1, <3>1
  <2>4. /\ children' = children \ gone /\ shown' = shown \ gone
        /\ removals' = [x \in Proxies |-> removals[x] + IF x \in gone THEN 1 ELSE 0]
        /\ observers' = [observers EXCEPT ![p] = 0]
        /\ overlapped' = overlapped \cup {x \in gone : Busy(x) # {}}
    BY DEF Detach, Announce, StopObserving
  <2> HIDE DEF gone
  <2> QED BY <1>0, <2>1, <2>2, <2>3, <2>4
<1> QED BY <1>1, <1>2

\* A notification about p is posted and nothing else happens to the proxies.
LEMMA PostKeeps ==
  ASSUME IInv, NEW p \in Pins, Post(p), UNCHANGED realPin, disturbed \subseteq disturbed',
         \A x \in Proxies : /\ Busy(x)' = Busy(x) /\ Going(x)' = Going(x)
                            /\ Adding(x)' <=> Adding(x)
                            /\ AddQueued(x)' <=> AddQueued(x)
                            /\ Announced(x)' <=> Announced(x)
                            /\ Unobserved(x)' <=> Unobserved(x)
  PROVE  /\ children' \subseteq Made' /\ observers' \in [Pins -> 0 .. Cardinality(Proxies)]
         /\ shown' \subseteq Proxies /\ removals' \in [Proxies -> Nat] /\ overlapped' \subseteq Proxies
         /\ \A q \in Pins \ disturbed' : Single(q)' /\ Pending(q)' /\ Observed(q)' /\ Shown(q)'
         /\ Kinds' /\ Removals' /\ ObserversBound'
         /\ children' \subseteq children
         /\ p \notin disturbed => \A x \in ProxiesOf(p)' : AddPending(x) \/ Unobserved(x)
<1>0. /\ removals \in [Proxies -> Nat] /\ observers \in [Pins -> 0 .. Cardinality(Proxies)]
      /\ children \subseteq Made /\ children \subseteq Proxies /\ overlapped \subseteq Proxies
      /\ shown \subseteq Proxies /\ Made' = Made /\ Cardinality(Proxies) \in Nat
  BY FiniteObserving DEF IInv, TypeOK, Made
<1>1. /\ Gone \subseteq ProxiesOf(p) /\ children' = children \ Gone /\ shown' = shown \ Gone
      /\ \A x \in Proxies : removals'[x] = removals[x] + IF x \in Gone THEN 1 ELSE 0
      /\ removals' \in [Proxies -> Nat]
      /\ observers' = [observers EXCEPT ![p] = 0]
      /\ overlapped' = overlapped \cup {x \in Gone : Busy(x) # {}}
      /\ p \notin disturbed => (observers[p] = 0 /\ Gone = {}) \/ Gone = ProxiesOf(p)
  BY PostDrops
<1>2. /\ \A q \in Pins \ {p} : ProxiesOf(q)' = ProxiesOf(q) /\ observers'[q] = observers[q]
      /\ ProxiesOf(p)' = ProxiesOf(p) \ Gone /\ observers'[p] = 0
      /\ \A x \in Gone : x \in children /\ realPin[x] = p
      /\ \A x \in Proxies : AddPending(x)' <=> AddPending(x)
  BY <1>0, <1>1 DEF ProxiesOf, AddPending
<1>3. ASSUME p \notin disturbed, NEW x \in ProxiesOf(p)' PROVE AddPending(x) \/ Unobserved(x)
  <2>1. x \in ProxiesOf(p) /\ observers[p] = 0
    BY <1>1, <1>2, <1>3
  <2> QED BY <1>3, <2>1 DEF IInv, Undisturbed, Observed
<1>4. ASSUME NEW q \in Pins \ disturbed'
      PROVE  Single(q)' /\ Pending(q)' /\ Observed(q)' /\ Shown(q)'
  <2>1. Single(q) /\ Pending(q) /\ Observed(q) /\ Shown(q)
    BY DEF IInv, Undisturbed
  <2>2. Single(q)'
    BY <1>1, <2>1 DEF Single, Alive
  <2>3. ASSUME NEW x \in Gone, q = p PROVE ~AddPending(x) /\ x \notin children'
    <3>1. Gone = ProxiesOf(p) /\ observers[p] # 0
      BY <1>1, <2>3, <1>4 DEF Post, Gone
    <3>2. PICK y \in ProxiesOf(p) : ~AddPending(y) /\ ~Unobserved(y)
      BY <2>1, <2>3, <3>1 DEF Observed
    <3>3. y = x
      BY <1>0, <2>1, <2>3, <3>1 DEF Single, Alive, ProxiesOf
    <3> QED BY <1>1, <3>2, <3>3
  <2>4. Pending(q)'
    BY <1>1, <1>2, <2>1, <2>3 DEF Pending
  <2>5. Observed(q)'
    <3>1. CASE q = p
      BY <1>2, <1>3, <1>4, <3>1 DEF Observed, ProxiesOf, Made, IInv, TypeOK
    <3>2. CASE q # p
      <4>1. ProxiesOf(q)' = ProxiesOf(q) /\ observers'[q] = observers[q] /\ ProxiesOf(q) \in SUBSET Proxies
        BY <1>0, <1>2, <3>2 DEF ProxiesOf
      <4> QED BY <1>2, <2>1, <4>1 DEF Observed
    <3> QED BY <3>1, <3>2
  <2>6. Shown(q)'
    BY <1>1, <1>2, <2>1 DEF Shown
  <2> QED BY <2>2, <2>4, <2>5, <2>6
<1>5. Kinds'
  BY <1>0, <1>1, <1>2 DEF IInv, Kinds, Made
<1>6. Removals'
  <2> SUFFICES ASSUME NEW x \in Proxies \ overlapped'
               PROVE  /\ \A v, w \in Going(x) : v = w
                      /\ Going(x) # {} => x \in children'
                      /\ removals'[x] = IF x \in Made /\ (x \notin children' \/ Announced(x)) THEN 1 ELSE 0
    BY <1>0 DEF Removals
  <2>1. /\ \A v, w \in Going(x) : v = w
        /\ Going(x) # {} => x \in children
        /\ removals[x] = IF x \in Made /\ (x \notin children \/ Announced(x)) THEN 1 ELSE 0
    BY <1>1 DEF IInv, Removals
  <2>2. x \in Gone => Going(x) = {} /\ ~Announced(x)
    <3>1. x \in Gone => Busy(x) = {}
      BY <1>1
    <3> QED BY <3>1 DEF Busy, Going, Announced, GoingSteps
  <2>3. CASE x \in Gone
    <3>1. removals[x] = 0 /\ x \in children /\ x \in Made
      BY <1>0, <1>2, <2>1, <2>2, <2>3
    <3> QED BY <1>1, <2>1, <2>2, <2>3, <3>1
  <2>4. CASE x \notin Gone
    <3>1. removals'[x] = removals[x] /\ (x \in children' <=> x \in children)
      BY <1>0, <1>1, <2>4
    <3> QED BY <2>1, <3>1
  <2> QED BY <2>3, <2>4
<1>7. ObserversBound'
  <2>1. observers' \in [Pins -> Nat] /\ \A q \in Pins : observers'[q] <= observers[q]
    BY <1>0, <1>1, <1>2
  <2>2. \A x \in Made : realPin'[x] = realPin[x] /\ (AddPending(x)' => AddPending(x))
    BY <1>2 DEF Made
  <2> QED BY <2>1, <2>2, BoundStands
<1>8. children' \subseteq Made' /\ shown' \subseteq Proxies /\ children' \subseteq children
  BY <1>0, <1>1
<1>9. overlapped' \subseteq Proxies
  <2>1. Gone \subseteq Proxies
    BY <1>0 DEF Gone
  <2> HIDE DEF Gone
  <2> QED BY <1>0, <1>1, <2>1
<1>10. observers' \in [Pins -> 0 .. Cardinality(Proxies)]
  BY <1>0, <1>1
<1> QED BY <1>1, <1>3, <1>4, <1>5, <1>6, <1>7, <1>8, <1>9, <1>10

\* What is left of a pin that has ended.
LEMMA DroppedStands ==
  ASSUME IInv, NEW p \in Pins \ disturbed', disturbed \subseteq disturbed', Ended(p)' => Ended(p),
         \A x \in Proxies : realPin'[x] = p =>
           /\ realPin[x] = p
           /\ AddQueued(x)' => AddPending(x)
           /\ x \in children' => x \in children /\ (Unobserved(x) => Unobserved(x)')
  PROVE  Dropped(p)'
<1> SUFFICES ASSUME Ended(p), NEW x \in Proxies, realPin'[x] = p
             PROVE  ~AddQueued(x)' /\ (x \in children' => Unobserved(x)')
  BY DEF Dropped
<1>1. Dropped(p)
  BY DEF IInv, Undisturbed
<1>2. ~Adding(x)
  BY DEF IInv, Endings, Ending, Ended
<1> QED BY <1>1, <1>2 DEF Dropped, AddPending

\* Nothing begins to end.
LEMMA EndingsStand ==
  ASSUME IInv, registered' \subseteq registered, UNCHANGED realPin,
         \A p \in Pins : p \in freed' \/ Ending(p)' => p \in freed \/ Ending(p),
         \A x \in Proxies : Adding(x)' => Adding(x)
  PROVE  Endings'
BY DEF IInv, Endings

LEMMA InitIInv == Init => IInv
<1> SUFFICES ASSUME Init PROVE IInv
  OBVIOUS
<1> USE DEF Init
<1>0. Made = {}
  BY DEF Made
<1>1. TypeOK
  <2>1. mainQueue \in Seq(Calls)
    OBVIOUS
  <2>2. observers \in [Pins -> 0 .. Cardinality(Proxies)]
    BY FS_CardinalityType
  <2> QED BY <1>0, <2>1, <2>2 DEF TypeOK, Steps
<1>2. Kinds
  BY DEF Kinds
<1>3. Tasks
  BY DEF Tasks
<1>4. Awaits /\ CalledOnce /\ AddsFirst
  BY DEF Awaits, CalledOnce, AddsFirst, Adding, Busy
<1>5. Endings
  BY DEF Endings, Ending
<1>6. Undisturbed
  BY DEF Undisturbed, Single, Pending, Observed, Shown, Dropped, Ended, ProxiesOf, Made
<1>7. Removals
  BY <1>0 DEF Removals, Going, GoingSteps
<1>8. ObserversBound
  <2> SUFFICES ASSUME NEW p \in Pins PROVE observers[p] <= Cardinality(Observing(p))
    BY DEF ObserversBound, Observing
  <2>1. observers[p] = 0 /\ Cardinality(Observing(p)) \in Nat
    BY FiniteObserving
  <2> QED BY <2>1
<1> QED BY <1>1, <1>2, <1>3, <1>4, <1>5, <1>6, <1>7, <1>8 DEF IInv

\* Every conjunct but the types has been seen to, and those of an undisturbed pin one by one.
LEMMA Together ==
  ASSUME TypeOK', Kinds', Tasks', Awaits', CalledOnce', AddsFirst', Endings', Removals', ObserversBound',
         \A p \in Pins \ disturbed' : Single(p)' /\ Pending(p)' /\ Observed(p)' /\ Shown(p)',
         \A p \in Pins \ disturbed' : Dropped(p)'
  PROVE  IInv'
BY DEF IInv, Undisturbed

-----------------------------------------------------------------------------
(***************************************************************************)
(* Steps of workers that change no proxy.                                  *)
(***************************************************************************)
LEMMA QueueAddKeeps ==
  ASSUME IInv, NEW w \in Workers, QueueAdd(w)
  PROVE  IInv'
<1> PICK x : x = arg[w]
  OBVIOUS
<1> PICK c : c = Call("addProxyPin", x, Main)
  OBVIOUS
<1>0. /\ pc[w] = "queueAdd" /\ pc'[w] = "idle" /\ arg'[w] = None /\ x \in Made /\ x \in Proxies
      /\ \A u \in Workers \ {w} : pc'[u] = pc[u] /\ arg'[u] = arg[u]
      /\ pc' \in [Workers -> Steps] /\ arg' \in [Workers -> Pins \cup Proxies \cup {None}]
      /\ UNCHANGED <<pins, host, gui, history>>
      /\ Queue("addProxyPin", x, Main)
  BY DEF QueueAdd, Enter, IInv, TypeOK, Tasks, Made, Steps
<1>1. /\ Queued(c) /\ mainQueue' \in Seq(Calls) /\ c \in Calls
      /\ c.op = "addProxyPin" /\ c.what = x /\ c.for = Main
  BY <1>0, QueueAppends DEF Ops
<1>2. Adding(x)
  BY <1>0 DEF Adding, Busy
<1> USE <1>0 DEF pins, host, gui, history
<1>3. /\ Awaits' /\ CalledOnce' /\ AddsFirst'
      /\ \A y \in Proxies : AddQueued(y)' <=> AddQueued(y) \/ x = y
  <2>1. Awaited(c)' /\ Made' = Made
    BY <1>1 DEF Awaited, Made
  <2>2. \A i \in 1 .. Len(mainQueue) : mainQueue[i].for = c.for => mainQueue[i].what # c.what
    BY <1>1, <1>2, AddQueuedAt DEF IInv, CalledOnce, Awaits, Awaited
  <2>3. \A i \in 1 .. Len(mainQueue) : mainQueue[i].for \in Workers =>
          pc'[mainQueue[i].for] = pc[mainQueue[i].for] /\ arg'[mainQueue[i].for] = arg[mainQueue[i].for]
    BY OnlyWaiting
  <2>4. \A u \in Workers : pc'[u] = "queueAdd" => pc[u] = "queueAdd" /\ arg'[u] = arg[u] /\ arg[u] # c.what
    BY <1>1 DEF IInv, CalledOnce
  <2>5. ASSUME NEW i \in 1 .. Len(mainQueue)
        PROVE  /\ ~(mainQueue[i].op = "notifyRelease" /\ mainQueue[i].what = realPin[x])
               /\ mainQueue[i].op = "notifyProxyRemoved" /\ mainQueue[i].what = x => realPin[x] \in disturbed
    <3>1. Awaited(mainQueue[i])
      BY DEF IInv, Awaits
    <3>2. realPin[x] \in Pins
      BY DEF IInv, TypeOK, Made
    <3>3. ~(mainQueue[i].op = "notifyRelease" /\ mainQueue[i].what = realPin[x])
      BY <1>2, <3>1, <3>2 DEF IInv, Endings, Ending, Awaited
    <3>4. ASSUME mainQueue[i].op = "notifyProxyRemoved", mainQueue[i].what = x, realPin[x] \notin disturbed
          PROVE  FALSE
      <4>1. Going(x) # {}
        BY <3>1, <3>4 DEF Awaited, Going, GoingSteps
      <4> QED BY <1>2, <3>2, <3>4, <4>1 DEF IInv, Undisturbed, Pending, AddPending
    <3> QED BY <3>3, <3>4
  <2> QED BY <1>1, <2>1, <2>2, <2>3, <2>4, <2>5, QueuedKeeps
<1>4. \A y \in Proxies : Kept(y)
  <2>1. \A y \in Proxies : Busy(y)' \subseteq Busy(y)
    BY DEF Busy
  <2>2. \A y \in Proxies : Adding(y) <=> Adding(y)' \/ y = x
    BY DEF Adding, Busy
  <2>3. \A y \in Proxies : Going(y)' = Going(y) /\ (Announced(y)' <=> Announced(y)) /\ (Unobserved(y)' <=> Unobserved(y))
    BY DEF Going, Announced, Unobserved, GoingSteps
  <2> QED BY <1>2, <1>3, <2>1, <2>2, <2>3 DEF Kept, Alive, AddPending
<1>5. TypeOK'
  BY <1>1 DEF IInv, TypeOK, Made
<1>6. Tasks'
  BY DEF IInv, Tasks, Made
<1>7. Endings'
  <2>1. \A p \in Pins : Ending(p)' => Ending(p)
    BY DEF Ending
  <2> QED BY <1>4, <2>1, EndingsStand DEF Kept
<1>8. \A p \in Pins \ disturbed' : Dropped(p)'
  <2> TAKE p \in Pins \ disturbed'
  <2>1. Ended(p)' => Ended(p)
    BY DEF Ended
  <2> QED BY <1>2, <1>3, <1>4, <2>1, DroppedStands DEF Kept, AddPending
<1> QED BY <1>3, <1>4, <1>5, <1>6, <1>7, <1>8, ProxiesStand, Together

\* A worker queues a call of its own.
LEMMA WorkerQueues ==
  ASSUME IInv, NEW w \in Workers, pc[w] \notin {"notify", "observers", "dealloc"}, pc'[w] # "queueAdd",
         NEW c \in Calls, c.for = w, c.op # "addProxyPin", Queued(c), mainQueue' \in Seq(Calls), Awaited(c)',
         \A u \in Workers \ {w} : pc'[u] = pc[u] /\ arg'[u] = arg[u],
         UNCHANGED realPin, disturbed \subseteq disturbed'
  PROVE  /\ Awaits' /\ CalledOnce' /\ AddsFirst'
         /\ \A x \in Proxies : AddQueued(x)' <=> AddQueued(x)
<1>1. \A i \in 1 .. Len(mainQueue) : mainQueue[i].for # w
  BY OnlyWaiting
<1>2. \A i \in 1 .. Len(mainQueue) : mainQueue[i].for \in Workers =>
        pc'[mainQueue[i].for] = pc[mainQueue[i].for] /\ arg'[mainQueue[i].for] = arg[mainQueue[i].for]
  BY <1>1
<1>3. \A u \in Workers : pc'[u] = "queueAdd" => pc[u] = "queueAdd" /\ arg'[u] = arg[u]
  OBVIOUS
<1>4. Made' = Made
  BY DEF Made
<1> QED BY <1>1, <1>2, <1>3, <1>4, QueuedKeeps

\* A worker that is not busy with a proxy is none of the proxies' business.
LEMMA PinTask ==
  ASSUME NEW w \in Workers, arg[w] \notin Proxies, arg'[w] \notin Proxies,
         \A u \in Workers \ {w} : pc'[u] = pc[u] /\ arg'[u] = arg[u]
  PROVE  \A x \in Proxies : /\ Busy(x)' = Busy(x) /\ Going(x)' = Going(x)
                            /\ Adding(x)' <=> Adding(x)
                            /\ Announced(x)' <=> Announced(x)
                            /\ Unobserved(x)' <=> Unobserved(x)
<1> SUFFICES ASSUME NEW x \in Proxies
             PROVE  /\ Busy(x)' = Busy(x) /\ Going(x)' = Going(x)
                    /\ Adding(x)' <=> Adding(x)
                    /\ Announced(x)' <=> Announced(x)
                    /\ Unobserved(x)' <=> Unobserved(x)
  OBVIOUS
<1>1. Busy(x)' = Busy(x)
  BY DEF Busy
<1>2. Going(x)' = Going(x)
  BY DEF Going, GoingSteps
<1>3. Adding(x)' <=> Adding(x)
  BY DEF Adding, Busy
<1>4. Announced(x)' <=> Announced(x)
  BY DEF Announced, GoingSteps
<1>5. Unobserved(x)' <=> Unobserved(x)
  BY DEF Unobserved
<1> QED BY <1>1, <1>2, <1>3, <1>4, <1>5

\* The queue rests; whoever waits for a call goes on waiting.
LEMMA QueueRests ==
  ASSUME IInv, UNCHANGED <<mainQueue, realPin>>, disturbed \subseteq disturbed',
         \A u \in Workers : pc[u] \in {"notify", "observers", "dealloc"} => pc'[u] = pc[u] /\ arg'[u] = arg[u],
         \A u \in Workers : pc'[u] = "queueAdd" => pc[u] = "queueAdd" /\ arg'[u] = arg[u]
  PROVE  /\ Awaits' /\ CalledOnce' /\ AddsFirst'
         /\ \A x \in Proxies : AddQueued(x)' <=> AddQueued(x)
<1>1. Awaits'
  <2> SUFFICES ASSUME NEW i \in 1 .. Len(mainQueue), NEW e, e = mainQueue[i] PROVE Awaited(e)'
    BY DEF Awaits
  <2>1. Awaited(e) /\ (e.for \in Workers => pc'[e.for] = pc[e.for] /\ arg'[e.for] = arg[e.for])
    BY OnlyWaiting DEF IInv, Awaits
  <2>2. Made' = Made
    BY DEF Made
  <2> QED BY <2>1, <2>2, QueueType DEF Awaited
<1>2. \A x \in Proxies : (AddQueued(x)' <=> AddQueued(x)) /\ (Adding(x)' => Adding(x))
  BY DEF AddQueued, Adding, Busy
<1>3. CalledOnce'
  BY <1>2 DEF IInv, CalledOnce
<1>4. AddsFirst'
  BY DEF IInv, AddsFirst
<1> QED BY <1>1, <1>2, <1>3, <1>4

LEMMA AskRemoveObserversKeeps ==
  ASSUME IInv, NEW w \in Workers, AskRemoveObservers(w)
  PROVE  IInv'
<1> PICK x : x = arg[w]
  OBVIOUS
<1> PICK c : c = Call("removeObservers", x, w)
  OBVIOUS
<1>0. /\ pc[w] = "askObservers" /\ pc'[w] = "observers" /\ arg'[w] = x /\ x \in Made /\ x \in Proxies
      /\ \A u \in Workers \ {w} : pc'[u] = pc[u] /\ arg'[u] = arg[u]
      /\ pc' \in [Workers -> Steps] /\ arg' \in [Workers -> Pins \cup Proxies \cup {None}]
      /\ UNCHANGED <<pins, host, gui, history>>
      /\ Queue("removeObservers", x, w)
  BY DEF AskRemoveObservers, Enter, IInv, TypeOK, Tasks, Made, Steps
<1>1. /\ Queued(c) /\ mainQueue' \in Seq(Calls) /\ c \in Calls
      /\ c.op = "removeObservers" /\ c.what = x /\ c.for = w
  BY <1>0, QueueAppends DEF Ops
<1> USE <1>0 DEF pins, host, gui, history
<1>3. /\ Awaits' /\ CalledOnce' /\ AddsFirst'
      /\ \A y \in Proxies : AddQueued(y)' <=> AddQueued(y)
  <2>1. Awaited(c)'
    BY <1>1 DEF Awaited
  <2> QED BY <1>1, <2>1, WorkerQueues
<1>4. \A y \in Proxies : Kept(y)
  <2>1. \A y \in Proxies : Busy(y)' = Busy(y)
    BY DEF Busy
  <2>2. \A y \in Proxies : Adding(y)' <=> Adding(y)
    BY <2>1 DEF Adding, Busy
  <2>3. \A y \in Proxies : Going(y)' = Going(y) /\ (Announced(y)' <=> Announced(y)) /\ (Unobserved(y)' <=> Unobserved(y))
    BY DEF Going, Announced, Unobserved, GoingSteps
  <2> QED BY <1>3, <2>1, <2>2, <2>3 DEF Kept, Alive, AddPending
<1>5. TypeOK'
  BY <1>1 DEF IInv, TypeOK, Made
<1>6. Tasks'
  BY DEF IInv, Tasks, Made
<1>7. Endings'
  <2>1. \A p \in Pins : Ending(p)' => Ending(p)
    BY DEF Ending
  <2> QED BY <1>4, <2>1, EndingsStand DEF Kept
<1>8. \A p \in Pins \ disturbed' : Dropped(p)'
  <2> TAKE p \in Pins \ disturbed'
  <2>1. Ended(p)' => Ended(p)
    BY DEF Ended
  <2> QED BY <1>3, <1>4, <2>1, DroppedStands DEF Kept, AddPending
<1> QED BY <1>3, <1>4, <1>5, <1>6, <1>7, <1>8, ProxiesStand, Together

LEMMA UnregisterPinKeeps ==
  ASSUME IInv, NEW w \in Workers, NEW p \in Pins, UnregisterPin(w, p)
  PROVE  IInv'
<1> PICK c : c = Call("notifyPinRemoved", p, w)
  OBVIOUS
<1>0. /\ pc[w] = "idle" /\ arg[w] = None /\ pc'[w] = "notify" /\ arg'[w] = p
      /\ \A u \in Workers \ {w} : pc'[u] = pc[u] /\ arg'[u] = arg[u]
      /\ pc' \in [Workers -> Steps] /\ arg' \in [Workers -> Pins \cup Proxies \cup {None}]
      /\ UNCHANGED <<pins, host, gui, history>>
      /\ Queue("notifyPinRemoved", p, w)
  BY DEF UnregisterPin, Enter, IInv, TypeOK, Tasks, Steps
<1>1. /\ Queued(c) /\ mainQueue' \in Seq(Calls) /\ c \in Calls
      /\ c.op = "notifyPinRemoved" /\ c.what = p /\ c.for = w
  BY <1>0, QueueAppends DEF Ops
<1> USE <1>0 DEF pins, host, gui, history
<1>2. /\ Awaits' /\ CalledOnce' /\ AddsFirst'
      /\ \A y \in Proxies : AddQueued(y)' <=> AddQueued(y)
  <2>1. Awaited(c)'
    BY <1>1 DEF Awaited
  <2> QED BY <1>1, <2>1, WorkerQueues
<1>3. \A y \in Proxies : Kept(y) /\ (Adding(y)' <=> Adding(y))
  BY <1>2, PinTask DEF Kept, Alive, AddPending
<1>4. TypeOK'
  BY <1>1 DEF IInv, TypeOK, Made
<1>5. Tasks'
  BY DEF IInv, Tasks, Made
<1>6. Endings'
  <2>1. \A q \in Pins : Ending(q)' => Ending(q)
    BY DEF Ending
  <2> QED BY <1>3, <2>1, EndingsStand
<1>7. \A q \in Pins \ disturbed' : Dropped(q)'
  <2> TAKE q \in Pins \ disturbed'
  <2>1. Ended(q)' => Ended(q)
    BY DEF Ended
  <2> QED BY <1>2, <1>3, <2>1, DroppedStands DEF Kept, AddPending
<1> QED BY <1>2, <1>3, <1>4, <1>5, <1>6, <1>7, ProxiesStand, Together

LEMMA DetachPinKeeps ==
  ASSUME IInv, NEW w \in Workers, DetachPin(w)
  PROVE  IInv'
<1>0. /\ pc[w] = "detachPin" /\ arg[w] \in Pins /\ pc'[w] = "idle" /\ arg'[w] = None
      /\ \A u \in Workers \ {w} : pc'[u] = pc[u] /\ arg'[u] = arg[u]
      /\ pc' \in [Workers -> Steps] /\ arg' \in [Workers -> Pins \cup Proxies \cup {None}]
      /\ registered' \subseteq registered
      /\ UNCHANGED <<freed, host, mainQueue, gui, history>>
  BY DEF DetachPin, Enter, IInv, TypeOK, Tasks, Steps
<1> USE <1>0 DEF host, gui, history
<1>2. /\ Awaits' /\ CalledOnce' /\ AddsFirst'
      /\ \A y \in Proxies : AddQueued(y)' <=> AddQueued(y)
  BY QueueRests
<1>3. \A y \in Proxies : Kept(y) /\ (Adding(y)' <=> Adding(y))
  BY <1>2, PinTask DEF Kept, Alive, AddPending
<1>4. TypeOK'
  BY DEF IInv, TypeOK, Made
<1>5. Tasks'
  BY DEF IInv, Tasks, Made
<1>6. Endings'
  <2>1. \A q \in Pins : Ending(q)' => Ending(q)
    BY DEF Ending
  <2> QED BY <1>3, <2>1, EndingsStand
<1>7. \A q \in Pins \ disturbed' : Dropped(q)'
  <2> TAKE q \in Pins \ disturbed'
  <2>1. Ended(q)' => Ended(q)
    BY DEF Ended
  <2> QED BY <1>2, <1>3, <2>1, DroppedStands DEF Kept, AddPending
<1> QED BY <1>2, <1>3, <1>4, <1>5, <1>6, <1>7, ProxiesStand, Together

LEMMA DeallocKeeps ==
  ASSUME IInv, NEW w \in Workers, NEW p \in Pins, Dealloc(w, p)
  PROVE  IInv'
<1> PICK c : c = Call("notifyRelease", p, w)
  OBVIOUS
<1>0. /\ pc[w] = "idle" /\ arg[w] = None /\ pc'[w] = "dealloc" /\ arg'[w] = p
      /\ Unreferenced(p)
      /\ \A u \in Workers \ {w} : pc'[u] = pc[u] /\ arg'[u] = arg[u]
      /\ pc' \in [Workers -> Steps] /\ arg' \in [Workers -> Pins \cup Proxies \cup {None}]
      /\ UNCHANGED <<pins, host, gui, history>>
      /\ Queue("notifyRelease", p, w)
  BY DEF Dealloc, Enter, IInv, TypeOK, Tasks, Steps
<1>1. /\ Queued(c) /\ mainQueue' \in Seq(Calls) /\ c \in Calls
      /\ c.op = "notifyRelease" /\ c.what = p /\ c.for = w
  BY <1>0, QueueAppends DEF Ops
<1> USE <1>0 DEF pins, host, gui, history
<1>2. /\ Awaits' /\ CalledOnce' /\ AddsFirst'
      /\ \A y \in Proxies : AddQueued(y)' <=> AddQueued(y)
  <2>1. Awaited(c)'
    BY <1>1 DEF Awaited
  <2> QED BY <1>1, <2>1, WorkerQueues
<1>3. \A y \in Proxies : Kept(y) /\ (Adding(y)' <=> Adding(y))
  BY <1>2, PinTask DEF Kept, Alive, AddPending
<1>4. TypeOK'
  BY <1>1 DEF IInv, TypeOK, Made
<1>5. Tasks'
  BY DEF IInv, Tasks, Made
<1>6. Endings'
  <2>1. \A q \in Pins \ {p} : Ending(q)' => Ending(q)
    BY DEF Ending
  <2>2. p \notin registered /\ \A x \in Proxies : realPin[x] = p => ~Adding(x)
    BY DEF Unreferenced
  <2> QED BY <1>3, <2>1, <2>2 DEF IInv, Endings
<1>7. \A q \in Pins \ disturbed' : Dropped(q)'
  <2> TAKE q \in Pins \ disturbed'
  <2>1. Ended(q)' => Ended(q)
    BY DEF Ended
  <2> QED BY <1>2, <1>3, <2>1, DroppedStands DEF Kept, AddPending
<1> QED BY <1>2, <1>3, <1>4, <1>5, <1>6, <1>7, ProxiesStand, Together

LEMMA FreeKeeps ==
  ASSUME IInv, NEW w \in Workers, Free(w)
  PROVE  IInv'
<1> PICK p : p = arg[w]
  OBVIOUS
<1>0. /\ pc[w] = "free" /\ p = arg[w] /\ p \in Pins /\ pc'[w] = "idle" /\ arg'[w] = None
      /\ \A u \in Workers \ {w} : pc'[u] = pc[u] /\ arg'[u] = arg[u]
      /\ pc' \in [Workers -> Steps] /\ arg' \in [Workers -> Pins \cup Proxies \cup {None}]
      /\ freed' = freed \cup {p}
      /\ UNCHANGED <<registered, host, mainQueue, gui, history>>
  BY DEF Free, Enter, IInv, TypeOK, Tasks, Steps
<1> USE <1>0 DEF host, gui, history
<1>1. Ended(p) /\ Ending(p) /\ p \notin registered
  BY DEF Ended, Ending, IInv, Endings
<1>2. /\ Awaits' /\ CalledOnce' /\ AddsFirst'
      /\ \A y \in Proxies : AddQueued(y)' <=> AddQueued(y)
  BY QueueRests
<1>3. \A y \in Proxies : Kept(y) /\ (Adding(y)' <=> Adding(y))
  BY <1>2, PinTask DEF Kept, Alive, AddPending
<1>4. TypeOK'
  BY <1>1 DEF IInv, TypeOK, Made
<1>5. Tasks'
  BY DEF IInv, Tasks, Made
<1>6. Endings'
  <2>1. \A q \in Pins : Ending(q)' => Ending(q)
    BY DEF Ending
  <2> QED BY <1>1, <1>3, <2>1, EndingsStand
<1>7. \A q \in Pins \ disturbed' : Dropped(q)'
  <2> TAKE q \in Pins \ disturbed'
  <2>1. Ended(q)' => Ended(q)
    BY <1>1 DEF Ended
  <2> QED BY <1>2, <1>3, <2>1, DroppedStands DEF Kept, AddPending
<1> QED BY <1>2, <1>3, <1>4, <1>5, <1>6, <1>7, ProxiesStand, Together

-----------------------------------------------------------------------------
(***************************************************************************)
(* Steps that post a notification of a pin.                                *)
(***************************************************************************)
LEMMA NotifyPinRemovedKeeps ==
  ASSUME IInv, NotifyPinRemoved
  PROVE  IInv'
<1> PICK c : c = Head(mainQueue)
  OBVIOUS
<1> PICK w : w = c.for
  OBVIOUS
<1> PICK p : p = c.what
  OBVIOUS
<1>1. /\ Taken(c) /\ mainQueue' \in Seq(Calls) /\ c \in Calls
      /\ c.op = "notifyPinRemoved" /\ Awaited(c)
  BY PerformTakes DEF NotifyPinRemoved
<1>0. /\ w \in Workers /\ p \in Pins /\ pc[w] = "notify" /\ arg[w] = p /\ pc'[w] = "detachPin"
      /\ \A u \in Workers \ {w} : pc'[u] = pc[u]
      /\ pc' \in [Workers -> Steps] /\ UNCHANGED arg
      /\ UNCHANGED <<pins, realPin, place, disturbed>>
      /\ Post(p)
  BY <1>1 DEF NotifyPinRemoved, Wake, Awaited, IInv, TypeOK, Steps
<1> USE <1>0 DEF pins
<1>2. /\ Awaits' /\ CalledOnce' /\ AddsFirst'
      /\ \A y \in Proxies : AddQueued(y)' <=> AddQueued(y)
  BY <1>1, TakenKeeps
<1>3. \A y \in Proxies : /\ Busy(y)' = Busy(y) /\ Going(y)' = Going(y)
                         /\ Adding(y)' <=> Adding(y)
                         /\ Announced(y)' <=> Announced(y)
                         /\ Unobserved(y)' <=> Unobserved(y)
  BY PinTask
<1>4. /\ children' \subseteq Made' /\ observers' \in [Pins -> 0 .. Cardinality(Proxies)]
      /\ shown' \subseteq Proxies /\ removals' \in [Proxies -> Nat] /\ overlapped' \subseteq Proxies
      /\ \A q \in Pins \ disturbed' : Single(q)' /\ Pending(q)' /\ Observed(q)' /\ Shown(q)'
      /\ Kinds' /\ Removals' /\ ObserversBound' /\ children' \subseteq children
  BY <1>2, <1>3, PostKeeps
<1>5. TypeOK'
  BY <1>1, <1>4 DEF IInv, TypeOK
<1>6. Tasks'
  BY DEF IInv, Tasks, Made
<1>7. Endings'
  <2>1. \A q \in Pins : Ending(q)' => Ending(q)
    BY DEF Ending
  <2> QED BY <1>3, <2>1, EndingsStand
<1>8. \A q \in Pins \ disturbed' : Dropped(q)'
  <2> TAKE q \in Pins \ disturbed'
  <2>1. Ended(q)' => Ended(q)
    BY DEF Ended
  <2> QED BY <1>2, <1>3, <1>4, <2>1, DroppedStands DEF AddPending
<1> QED BY <1>2, <1>4, <1>5, <1>6, <1>7, <1>8, Together

LEMMA NotifyReleaseKeeps ==
  ASSUME IInv, NotifyRelease
  PROVE  IInv'
<1> PICK c : c = Head(mainQueue)
  OBVIOUS
<1> PICK w : w = c.for
  OBVIOUS
<1> PICK p : p = c.what
  OBVIOUS
<1>1. /\ Taken(c) /\ mainQueue' \in Seq(Calls) /\ c \in Calls
      /\ c.op = "notifyRelease" /\ Awaited(c)
  BY PerformTakes DEF NotifyRelease
<1>0. /\ w \in Workers /\ p \in Pins /\ pc[w] = "dealloc" /\ arg[w] = p /\ pc'[w] = "free"
      /\ \A u \in Workers \ {w} : pc'[u] = pc[u]
      /\ pc' \in [Workers -> Steps] /\ UNCHANGED arg
      /\ UNCHANGED <<pins, realPin, place, disturbed>>
      /\ Post(p)
  BY <1>1 DEF NotifyRelease, Wake, Awaited, IInv, TypeOK, Tasks, Steps
<1> USE <1>0 DEF pins
<1>2. /\ Awaits' /\ CalledOnce' /\ AddsFirst'
      /\ \A y \in Proxies : AddQueued(y)' <=> AddQueued(y)
  BY <1>1, TakenKeeps
<1>3. \A y \in Proxies : /\ Busy(y)' = Busy(y) /\ Going(y)' = Going(y)
                         /\ Adding(y)' <=> Adding(y)
                         /\ Announced(y)' <=> Announced(y)
                         /\ Unobserved(y)' <=> Unobserved(y)
  BY PinTask
<1>4. /\ children' \subseteq Made' /\ observers' \in [Pins -> 0 .. Cardinality(Proxies)]
      /\ shown' \subseteq Proxies /\ removals' \in [Proxies -> Nat] /\ overlapped' \subseteq Proxies
      /\ \A q \in Pins \ disturbed' : Single(q)' /\ Pending(q)' /\ Observed(q)' /\ Shown(q)'
      /\ Kinds' /\ Removals' /\ ObserversBound' /\ children' \subseteq children
      /\ p \notin disturbed => \A x \in ProxiesOf(p)' : AddPending(x) \/ Unobserved(x)
  BY <1>2, <1>3, PostKeeps
<1>5. TypeOK'
  BY <1>1, <1>4 DEF IInv, TypeOK
<1>6. Tasks'
  BY DEF IInv, Tasks, Made
<1>7. Endings'
  <2>1. \A q \in Pins : Ending(q)' => Ending(q)
    BY DEF Ending
  <2> QED BY <1>3, <2>1, EndingsStand
<1>8. \A q \in Pins \ disturbed' : Dropped(q)'
  <2> TAKE q \in Pins \ disturbed'
  <2>1. CASE q = p
    <3> SUFFICES ASSUME NEW x \in Proxies, realPin[x] = p
                 PROVE  ~AddQueued(x)' /\ (x \in children' => Unobserved(x)')
      BY <2>1 DEF Dropped
    <3>1. ~AddQueued(x)
      <4> SUFFICES ASSUME NEW i \in 1 .. Len(mainQueue),
                          mainQueue[i].op = "addProxyPin", mainQueue[i].what = x
                   PROVE  FALSE
        BY AddQueuedAt
      <4>1. 1 \in 1 .. Len(mainQueue) /\ mainQueue[1] = c
        BY <1>1, QueueType DEF Taken
      <4>2. i < 1
        BY <1>1, <4>1 DEF IInv, AddsFirst
      <4> QED BY <4>2
    <3>2. ~Adding(x)
      BY DEF IInv, Endings, Ending
    <3>3. x \in children' => x \in ProxiesOf(p)'
      BY DEF ProxiesOf
    <3> QED BY <1>2, <1>3, <1>4, <2>1, <3>1, <3>2, <3>3 DEF AddPending
  <2>2. CASE q # p
    <3>1. Ended(q)' => Ended(q)
      BY <2>2 DEF Ended
    <3> QED BY <1>2, <1>3, <1>4, <3>1, DroppedStands DEF AddPending
  <2> QED BY <2>1, <2>2
<1> QED BY <1>2, <1>4, <1>5, <1>6, <1>7, <1>8, Together

\* No worker moves.
LEMMA ControlRests ==
  ASSUME UNCHANGED control
  PROVE  /\ \A x \in Proxies : /\ Busy(x)' = Busy(x) /\ Going(x)' = Going(x)
                               /\ Adding(x)' <=> Adding(x)
                               /\ Announced(x)' <=> Announced(x)
                               /\ Unobserved(x)' <=> Unobserved(x)
         /\ \A p : Ending(p)' <=> Ending(p)
BY DEF control, Busy, Going, Adding, Announced, Unobserved, Ending

LEMMA UnregisterPinOnMainKeeps ==
  ASSUME IInv, NEW p \in Pins, UnregisterPinOnMain(p)
  PROVE  IInv'
<1>0. /\ UNCHANGED <<freed, realPin, place, mainQueue, control, disturbed>>
      /\ registered' \subseteq registered /\ Post(p)
  BY DEF UnregisterPinOnMain
<1> USE <1>0 DEF control
<1>2. /\ Awaits' /\ CalledOnce' /\ AddsFirst'
      /\ \A y \in Proxies : AddQueued(y)' <=> AddQueued(y)
  BY QueueRests
<1>3. /\ \A y \in Proxies : /\ Busy(y)' = Busy(y) /\ Going(y)' = Going(y)
                            /\ Adding(y)' <=> Adding(y)
                            /\ Announced(y)' <=> Announced(y)
                            /\ Unobserved(y)' <=> Unobserved(y)
      /\ \A q : Ending(q)' <=> Ending(q)
  BY ControlRests
<1>4. /\ children' \subseteq Made' /\ observers' \in [Pins -> 0 .. Cardinality(Proxies)]
      /\ shown' \subseteq Proxies /\ removals' \in [Proxies -> Nat] /\ overlapped' \subseteq Proxies
      /\ \A q \in Pins \ disturbed' : Single(q)' /\ Pending(q)' /\ Observed(q)' /\ Shown(q)'
      /\ Kinds' /\ Removals' /\ ObserversBound' /\ children' \subseteq children
  BY <1>2, <1>3, PostKeeps
<1>5. TypeOK'
  BY <1>4 DEF IInv, TypeOK
<1>6. Tasks'
  BY DEF IInv, Tasks, Made
<1>7. Endings'
  BY <1>3, EndingsStand
<1>8. \A q \in Pins \ disturbed' : Dropped(q)'
  <2> TAKE q \in Pins \ disturbed'
  <2>1. Ended(q)' => Ended(q)
    BY DEF Ended
  <2> QED BY <1>2, <1>3, <1>4, <2>1, DroppedStands DEF AddPending
<1> QED BY <1>2, <1>4, <1>5, <1>6, <1>7, <1>8, Together

LEMMA DeallocOnMainKeeps ==
  ASSUME IInv, NEW p \in Pins, DeallocOnMain(p)
  PROVE  IInv'
<1>0. /\ UNCHANGED <<registered, realPin, place, mainQueue, control>>
      /\ freed' = freed \cup {p} /\ Post(p) /\ Unreferenced(p)
      /\ disturbed \subseteq disturbed' /\ disturbed' \subseteq disturbed \cup {p}
      /\ p \notin disturbed' => \A x \in Proxies : realPin[x] = p => ~AddPending(x)
  BY DEF DeallocOnMain
<1> USE <1>0 DEF control
<1>2. /\ Awaits' /\ CalledOnce' /\ AddsFirst'
      /\ \A y \in Proxies : AddQueued(y)' <=> AddQueued(y)
  BY QueueRests
<1>3. /\ \A y \in Proxies : /\ Busy(y)' = Busy(y) /\ Going(y)' = Going(y)
                            /\ Adding(y)' <=> Adding(y)
                            /\ Announced(y)' <=> Announced(y)
                            /\ Unobserved(y)' <=> Unobserved(y)
      /\ \A q : Ending(q)' <=> Ending(q)
  BY ControlRests
<1>4. /\ children' \subseteq Made' /\ observers' \in [Pins -> 0 .. Cardinality(Proxies)]
      /\ shown' \subseteq Proxies /\ removals' \in [Proxies -> Nat] /\ overlapped' \subseteq Proxies
      /\ \A q \in Pins \ disturbed' : Single(q)' /\ Pending(q)' /\ Observed(q)' /\ Shown(q)'
      /\ Kinds' /\ Removals' /\ ObserversBound' /\ children' \subseteq children
      /\ p \notin disturbed => \A x \in ProxiesOf(p)' : AddPending(x) \/ Unobserved(x)
  BY <1>2, <1>3, PostKeeps
<1>5. p \notin registered /\ \A x \in Proxies : realPin[x] = p => ~Adding(x)
  BY DEF Unreferenced
<1>6. TypeOK'
  BY <1>4, <1>5 DEF IInv, TypeOK
<1>7. Tasks'
  BY DEF IInv, Tasks, Made
<1>8. Endings'
  BY <1>3, <1>5 DEF IInv, Endings
<1>9. \A q \in Pins \ disturbed' : Dropped(q)'
  <2> TAKE q \in Pins \ disturbed'
  <2>1. CASE q = p
    <3> SUFFICES ASSUME NEW x \in Proxies, realPin[x] = p
                 PROVE  ~AddQueued(x)' /\ (x \in children' => Unobserved(x)')
      BY <2>1 DEF Dropped
    <3>1. ~AddPending(x)
      BY <2>1
    <3>2. x \in children' => x \in ProxiesOf(p)'
      BY DEF ProxiesOf
    <3> QED BY <1>2, <1>3, <1>4, <2>1, <3>1, <3>2 DEF AddPending
  <2>2. CASE q # p
    <3>1. Ended(q)' => Ended(q)
      BY <2>2 DEF Ended
    <3> QED BY <1>2, <1>3, <1>4, <3>1, DroppedStands DEF AddPending
  <2> QED BY <2>1, <2>2
<1> QED BY <1>2, <1>4, <1>6, <1>7, <1>8, <1>9, Together

-----------------------------------------------------------------------------
(***************************************************************************)
(* Steps of the main thread for a proxy.                                   *)
(***************************************************************************)
LEMMA AddProxyPinKeeps ==
  ASSUME IInv, AddProxyPin
  PROVE  IInv'
<1> PICK c : c = Head(mainQueue)
  OBVIOUS
<1> PICK x : x = c.what
  OBVIOUS
<1> PICK p : p = realPin[x]
  OBVIOUS
<1>1. /\ Taken(c) /\ mainQueue' \in Seq(Calls) /\ c \in Calls
      /\ c.op = "addProxyPin" /\ Awaited(c)
  BY PerformTakes DEF AddProxyPin
<1>0. /\ x \in Made /\ x \in Proxies /\ p \in Pins /\ c.for = Main
      /\ shown' = shown \cup {x}
      /\ observers' = [observers EXCEPT ![p] = @ + 1]
      /\ UNCHANGED <<pins, realPin, children, place, control, removals, history>>
  BY <1>1 DEF AddProxyPin, Awaited, IInv, TypeOK, Made
<1> USE <1>0 DEF pins, control, history
<1>2. /\ Awaits' /\ CalledOnce' /\ AddsFirst'
      /\ \A y \in Proxies : AddQueued(y)' <=> AddQueued(y) /\ y # x
  BY <1>1, TakenKeeps
<1>3. /\ \A y \in Proxies : /\ Busy(y)' = Busy(y) /\ Going(y)' = Going(y)
                            /\ Adding(y)' <=> Adding(y)
                            /\ Announced(y)' <=> Announced(y)
                            /\ Unobserved(y)' <=> Unobserved(y)
      /\ \A q : Ending(q)' <=> Ending(q)
  BY ControlRests
<1>4. AddQueued(x) /\ ~Adding(x)
  <2>1. 1 \in 1 .. Len(mainQueue) /\ mainQueue[1] = c
    BY <1>1, QueueType DEF Taken
  <2>2. AddQueued(x)
    BY <1>1, <2>1, AddQueuedAt
  <2> QED BY <2>2 DEF IInv, CalledOnce
<1>5. AddPending(x) /\ \A y \in Proxies : AddPending(y)' <=> AddPending(y) /\ y # x
  BY <1>2, <1>3, <1>4 DEF AddPending
<1>6. Made' = Made
  BY DEF Made
<1>7. observers \in [Pins -> 0 .. Cardinality(Proxies)] /\ Cardinality(Proxies) \in Nat
  BY FiniteObserving DEF IInv, TypeOK
<1>8. /\ observers'[p] = observers[p] + 1
      /\ \A q \in Pins \ {p} : observers'[q] = observers[q]
  BY <1>7
<1>9. ASSUME NEW q \in Pins \ disturbed'
      PROVE  Single(q)' /\ Pending(q)' /\ Observed(q)' /\ Shown(q)'
  <2>1. Single(q) /\ Pending(q) /\ Observed(q) /\ Shown(q)
    BY DEF IInv, Undisturbed
  <2>2. ProxiesOf(q)' = ProxiesOf(q) /\ ProxiesOf(q) \in SUBSET Proxies
    BY DEF ProxiesOf, IInv, TypeOK, Made
  <2>3. Single(q)'
    BY <1>3, <2>1 DEF Single, Alive
  <2>4. Pending(q)'
    BY <1>3, <1>5, <2>1 DEF Pending
  <2>5. q = p => x \in children /\ ~Announced(x) /\ ~Unobserved(x)
    BY <1>5, <2>1 DEF Pending, Announced, Unobserved, GoingSteps
  <2>6. Observed(q)'
    <3>1. CASE q = p
      <4>1. x \in ProxiesOf(p) /\ ~AddPending(x)' /\ ~Unobserved(x)'
        BY <1>3, <1>5, <2>5, <3>1 DEF ProxiesOf
      <4>2. \A y \in ProxiesOf(p) : y = x
        BY <2>1, <2>2, <2>5, <3>1 DEF Single, Alive, ProxiesOf
      <4>3. observers[p] = 0
        BY <1>5, <2>1, <3>1, <4>2 DEF Observed
      <4> QED BY <1>8, <2>2, <3>1, <4>1, <4>3 DEF Observed
    <3>2. CASE q # p
      <4>1. x \notin ProxiesOf(q) /\ observers'[q] = observers[q]
        BY <1>8, <3>2 DEF ProxiesOf
      <4>2. \A y \in ProxiesOf(q) : (AddPending(y)' <=> AddPending(y)) /\ (Unobserved(y)' <=> Unobserved(y))
        BY <1>3, <1>5, <2>2, <4>1
      <4> QED BY <2>1, <2>2, <4>1, <4>2 DEF Observed
    <3> QED BY <3>1, <3>2
  <2>7. Shown(q)'
    <3> SUFFICES ASSUME NEW y \in Proxies, realPin[y] = q
                 PROVE  y \in shown' <=> y \in children /\ ~AddPending(y)' /\ ~Announced(y)'
      BY DEF Shown
    <3>1. CASE y = x
      BY <1>3, <1>5, <2>5, <3>1
    <3>2. CASE y # x
      BY <1>3, <1>5, <2>1, <3>2 DEF Shown
    <3> QED BY <3>1, <3>2
  <2> QED BY <2>3, <2>4, <2>6, <2>7
<1>10. Kinds'
  BY <1>6 DEF IInv, Kinds
<1>11. Removals'
  BY <1>3, <1>6 DEF IInv, Removals
<1>12. ASSUME NEW q \in Pins PROVE observers'[q] <= Cardinality(Observing(q)')
  <2>1. /\ observers[q] <= Cardinality(Observing(q)) /\ observers[q] \in Nat
        /\ IsFiniteSet(Observing(q)) /\ Cardinality(Observing(q)) \in Nat
    <3>1. observers[q] <= Cardinality(Observing(q))
      BY DEF IInv, ObserversBound, Observing
    <3>2. observers[q] \in Nat
      BY <1>7
    <3> QED BY <3>1, <3>2, FiniteObserving
  <2>2. CASE q = p
    <3>1. Observing(p)' = Observing(p) \cup {x} /\ x \notin Observing(p)
      BY <1>5 DEF Observing
    <3>2. Cardinality(Observing(p) \cup {x}) = Cardinality(Observing(p)) + 1
      BY <2>1, <2>2, <3>1, FS_AddElement
    <3> QED BY <1>8, <2>1, <2>2, <3>1, <3>2
  <2>3. CASE q # p
    <3>1. Observing(q)' = Observing(q)
      BY <1>5, <2>3 DEF Observing
    <3> QED BY <1>8, <2>1, <2>3, <3>1
  <2> QED BY <2>2, <2>3
<1>13. ObserversBound'
  BY <1>12 DEF ObserversBound, Observing
<1>14. TypeOK'
  <2>1. ASSUME NEW q \in Pins PROVE observers'[q] \in 0 .. Cardinality(Proxies)
    <3>1. observers'[q] \in Nat
      BY <1>7, <1>8
    <3> QED BY <1>12, <3>1, FiniteObservingNext
  <2>2. observers' \in [Pins -> 0 .. Cardinality(Proxies)]
    BY <1>7, <2>1
  <2> QED BY <1>1, <1>6, <2>2 DEF IInv, TypeOK
<1>15. Tasks'
  BY <1>6 DEF IInv, Tasks
<1>16. Endings'
  BY <1>3, EndingsStand
<1>17. \A q \in Pins \ disturbed' : Dropped(q)'
  <2> TAKE q \in Pins \ disturbed'
  <2>1. Ended(q)' => Ended(q)
    BY DEF Ended
  <2> QED BY <1>2, <1>3, <2>1, DroppedStands DEF AddPending
<1> QED BY <1>2, <1>9, <1>10, <1>11, <1>13, <1>14, <1>15, <1>16, <1>17, Together

\* The worker that a call for a proxy wakes goes on with its proxy.
LEMMA ProxyTask ==
  ASSUME NEW w \in Workers, pc[w] \in GoingSteps, pc'[w] \in GoingSteps, UNCHANGED arg,
         \A u \in Workers \ {w} : pc'[u] = pc[u]
  PROVE  /\ \A x : /\ Busy(x)' = Busy(x) /\ Going(x)' = Going(x)
                   /\ Adding(x)' <=> Adding(x)
         /\ \A p : Ending(p)' <=> Ending(p)
<1>1. pc[w] \notin {"idle", "queueAdd", "dealloc", "free"} /\ pc'[w] \notin {"idle", "queueAdd", "dealloc", "free"}
  BY DEF GoingSteps
<1>2. \A u \in Workers : pc'[u] \in GoingSteps <=> pc[u] \in GoingSteps
  OBVIOUS
<1>3. \A x : Busy(x)' = Busy(x)
  BY <1>1 DEF Busy
<1>4. \A x : Going(x)' = Going(x)
  BY <1>2 DEF Going
<1>5. \A x : Adding(x)' <=> Adding(x)
  BY <1>1 DEF Adding, Busy
<1>6. \A p : Ending(p)' <=> Ending(p)
  BY <1>1 DEF Ending
<1> QED BY <1>3, <1>4, <1>5, <1>6

LEMMA NotifyProxyRemovedKeeps ==
  ASSUME IInv, NotifyProxyRemoved
  PROVE  IInv'
<1> PICK c : c = Head(mainQueue)
  OBVIOUS
<1> PICK w : w = c.for
  OBVIOUS
<1> PICK x : x = c.what
  OBVIOUS
<1>1. /\ Taken(c) /\ mainQueue' \in Seq(Calls) /\ c \in Calls
      /\ c.op = "notifyProxyRemoved" /\ Awaited(c)
  BY PerformTakes DEF NotifyProxyRemoved
<1>0. /\ w \in Workers /\ x \in Made /\ x \in Proxies /\ pc[w] = "notify" /\ arg[w] = x
      /\ pc'[w] = "askObservers" /\ \A u \in Workers \ {w} : pc'[u] = pc[u]
      /\ pc' \in [Workers -> Steps] /\ UNCHANGED arg
      /\ UNCHANGED <<pins, host, history>>
      /\ shown' = shown \ {x}
      /\ removals' = [y \in Proxies |-> removals[y] + IF y \in {x} THEN 1 ELSE 0]
  BY <1>1 DEF NotifyProxyRemoved, Announce, Wake, Awaited, IInv, TypeOK, Steps, Made
<1> USE <1>0 DEF pins, host, history
<1>2. /\ Awaits' /\ CalledOnce' /\ AddsFirst'
      /\ \A y \in Proxies : AddQueued(y)' <=> AddQueued(y)
  BY <1>1, TakenKeeps
<1>3. /\ \A y : Busy(y)' = Busy(y) /\ Going(y)' = Going(y) /\ (Adding(y)' <=> Adding(y))
      /\ \A q : Ending(q)' <=> Ending(q)
  BY ProxyTask DEF GoingSteps
<1>4. \A y : (Announced(y)' <=> Announced(y) \/ y = x) /\ (Unobserved(y)' <=> Unobserved(y))
  BY DEF Announced, Unobserved, GoingSteps
<1>5. w \in Going(x) /\ Made' = Made /\ \A y \in Proxies : AddPending(y)' <=> AddPending(y)
  BY <1>2, <1>3 DEF Going, GoingSteps, Made, AddPending
<1>6. ASSUME realPin[x] \notin disturbed PROVE ~AddPending(x)
  <2>1. ~AddQueued(x)
    <3> SUFFICES ASSUME NEW i \in 1 .. Len(mainQueue),
                        mainQueue[i].op = "addProxyPin", mainQueue[i].what = x
                 PROVE  FALSE
      BY AddQueuedAt
    <3>1. 1 \in 1 .. Len(mainQueue) /\ mainQueue[1] = c
      BY <1>1, QueueType DEF Taken
    <3>2. i < 1
      BY <1>1, <1>6, <3>1 DEF IInv, AddsFirst
    <3> QED BY <3>2
  <2>2. realPin[x] \in Pins
    BY DEF IInv, TypeOK, Made
  <2>3. ~Adding(x)
    BY <1>5, <1>6, <2>2 DEF IInv, Undisturbed, Pending, AddPending
  <2> QED BY <2>1, <2>3 DEF AddPending
<1>7. ASSUME NEW q \in Pins \ disturbed'
      PROVE  Single(q)' /\ Pending(q)' /\ Observed(q)' /\ Shown(q)'
  <2>1. Single(q) /\ Pending(q) /\ Observed(q) /\ Shown(q)
    BY DEF IInv, Undisturbed
  <2>2. ProxiesOf(q)' = ProxiesOf(q) /\ ProxiesOf(q) \in SUBSET Proxies
    BY DEF ProxiesOf, IInv, TypeOK, Made
  <2>3. Single(q)'
    BY <1>3, <2>1 DEF Single, Alive
  <2>4. Pending(q)'
    BY <1>3, <1>4, <1>5, <1>6, <2>1 DEF Pending
  <2>5. Observed(q)'
    BY <1>4, <1>5, <2>1, <2>2 DEF Observed
  <2>6. Shown(q)'
    BY <1>4, <1>5, <2>1 DEF Shown
  <2> QED BY <2>3, <2>4, <2>5, <2>6
<1>8. Kinds'
  BY <1>5 DEF IInv, Kinds, Made
<1>9. removals \in [Proxies -> Nat]
  BY DEF IInv, TypeOK
<1>10. Removals'
  <2> SUFFICES ASSUME NEW y \in Proxies \ overlapped
               PROVE  /\ \A v, u \in Going(y) : v = u
                      /\ Going(y) # {} => y \in children
                      /\ removals'[y] = IF y \in Made /\ (y \notin children \/ Announced(y)') THEN 1 ELSE 0
    BY <1>3, <1>5 DEF Removals
  <2>1. /\ \A v, u \in Going(y) : v = u
        /\ Going(y) # {} => y \in children
        /\ removals[y] = IF y \in Made /\ (y \notin children \/ Announced(y)) THEN 1 ELSE 0
    BY DEF IInv, Removals
  <2>2. CASE y = x
    <3>1. ~Announced(x)
      BY <1>5, <2>1, <2>2 DEF Announced, Going, GoingSteps
    <3>2. removals[x] = 0
      BY <1>5, <2>1, <2>2, <3>1
    <3> QED BY <1>4, <1>9, <2>1, <2>2, <3>2
  <2>3. CASE y # x
    <3>1. removals'[y] = removals[y] /\ (Announced(y)' <=> Announced(y))
      BY <1>4, <1>9, <2>3
    <3> QED BY <2>1, <3>1
  <2> QED BY <2>2, <2>3
<1>11. ObserversBound'
  <2>1. observers \in [Pins -> Nat]
    BY FiniteObserving DEF IInv, TypeOK
  <2> QED BY <1>5, <2>1, BoundStands DEF Made
<1>12. TypeOK'
  <2>1. removals' \in [Proxies -> Nat]
    BY <1>9
  <2> QED BY <1>1, <1>5, <2>1 DEF IInv, TypeOK
<1>13. Tasks'
  BY <1>5 DEF IInv, Tasks
<1>14. Endings'
  BY <1>3, EndingsStand
<1>15. \A q \in Pins \ disturbed' : Dropped(q)'
  <2> TAKE q \in Pins \ disturbed'
  <2>1. Ended(q)' => Ended(q)
    BY DEF Ended
  <2> QED BY <1>2, <1>4, <2>1, DroppedStands DEF AddPending
<1> QED BY <1>2, <1>7, <1>8, <1>10, <1>11, <1>12, <1>13, <1>14, <1>15, Together

LEMMA RemoveObserversKeeps ==
  ASSUME IInv, RemoveObservers
  PROVE  IInv'
<1> PICK c : c = Head(mainQueue)
  OBVIOUS
<1> PICK w : w = c.for
  OBVIOUS
<1> PICK x : x = c.what
  OBVIOUS
<1> PICK p : p = realPin[x]
  OBVIOUS
<1>1. /\ Taken(c) /\ mainQueue' \in Seq(Calls) /\ c \in Calls
      /\ c.op = "removeObservers" /\ Awaited(c)
  BY PerformTakes DEF RemoveObservers
<1>0. /\ w \in Workers /\ x \in Made /\ x \in Proxies /\ p \in Pins /\ pc[w] = "observers" /\ arg[w] = x
      /\ pc'[w] = "detachProxy" /\ \A u \in Workers \ {w} : pc'[u] = pc[u]
      /\ pc' \in [Workers -> Steps] /\ UNCHANGED arg
      /\ UNCHANGED <<pins, realPin, children, place, gui, history>>
      /\ observers' = [observers EXCEPT ![p] = 0]
  BY <1>1 DEF RemoveObservers, StopObserving, Wake, Awaited, IInv, TypeOK, Tasks, Steps, Made
<1> USE <1>0 DEF pins, gui, history
<1>2. /\ Awaits' /\ CalledOnce' /\ AddsFirst'
      /\ \A y \in Proxies : AddQueued(y)' <=> AddQueued(y)
  BY <1>1, TakenKeeps
<1>3. /\ \A y : Busy(y)' = Busy(y) /\ Going(y)' = Going(y) /\ (Adding(y)' <=> Adding(y))
      /\ \A q : Ending(q)' <=> Ending(q)
  BY ProxyTask DEF GoingSteps
<1>4. \A y : (Announced(y)' <=> Announced(y)) /\ (Unobserved(y)' <=> Unobserved(y) \/ y = x)
  BY DEF Announced, Unobserved, GoingSteps
<1>5. w \in Busy(x) /\ Made' = Made /\ \A y \in Proxies : AddPending(y)' <=> AddPending(y)
  BY <1>2, <1>3 DEF Busy, Made, AddPending
<1>6. observers \in [Pins -> 0 .. Cardinality(Proxies)] /\ Cardinality(Proxies) \in Nat
  BY FiniteObserving DEF IInv, TypeOK
<1>7. ASSUME NEW q \in Pins \ disturbed'
      PROVE  Single(q)' /\ Pending(q)' /\ Observed(q)' /\ Shown(q)'
  <2>1. Single(q) /\ Pending(q) /\ Observed(q) /\ Shown(q)
    BY DEF IInv, Undisturbed
  <2>2. ProxiesOf(q)' = ProxiesOf(q) /\ ProxiesOf(q) \in SUBSET Proxies
    BY DEF ProxiesOf, IInv, TypeOK, Made
  <2>3. Single(q)'
    BY <1>3, <2>1 DEF Single, Alive
  <2>4. Pending(q)'
    BY <1>3, <1>4, <1>5, <2>1 DEF Pending
  <2>5. Observed(q)'
    <3>1. CASE q = p
      <4>1. \A y \in ProxiesOf(p) : y = x
        BY <1>5, <2>1, <2>2, <3>1 DEF Single, Alive, ProxiesOf
      <4>2. observers'[p] = 0
        BY <1>6
      <4> QED BY <1>4, <2>2, <3>1, <4>1, <4>2 DEF Observed
    <3>2. CASE q # p
      <4>1. x \notin ProxiesOf(q) /\ observers'[q] = observers[q]
        BY <1>6, <3>2 DEF ProxiesOf
      <4>2. \A y \in ProxiesOf(q) : (AddPending(y)' <=> AddPending(y)) /\ (Unobserved(y)' <=> Unobserved(y))
        BY <1>4, <1>5, <2>2, <4>1
      <4> QED BY <2>1, <2>2, <4>1, <4>2 DEF Observed
    <3> QED BY <3>1, <3>2
  <2>6. Shown(q)'
    BY <1>4, <1>5, <2>1 DEF Shown
  <2> QED BY <2>3, <2>4, <2>5, <2>6
<1>8. Kinds'
  BY <1>5 DEF IInv, Kinds
<1>9. Removals'
  BY <1>3, <1>4, <1>5 DEF IInv, Removals
<1>10. ObserversBound'
  <2>1. observers' \in [Pins -> Nat] /\ \A q \in Pins : observers'[q] <= observers[q]
    BY <1>6
  <2>2. \A y \in Made : realPin'[y] = realPin[y] /\ (AddPending(y)' => AddPending(y))
    BY <1>5 DEF Made
  <2> QED BY <2>1, <2>2, BoundStands
<1>11. TypeOK'
  <2>1. observers' \in [Pins -> 0 .. Cardinality(Proxies)]
    BY <1>6
  <2> QED BY <1>1, <1>5, <2>1 DEF IInv, TypeOK
<1>12. Tasks'
  BY <1>5 DEF IInv, Tasks
<1>13. Endings'
  BY <1>3, EndingsStand
<1>14. \A q \in Pins \ disturbed' : Dropped(q)'
  <2> TAKE q \in Pins \ disturbed'
  <2>1. Ended(q)' => Ended(q)
    BY DEF Ended
  <2> QED BY <1>2, <1>4, <2>1, DroppedStands DEF AddPending
<1> QED BY <1>2, <1>7, <1>8, <1>9, <1>10, <1>11, <1>12, <1>13, <1>14, Together

-----------------------------------------------------------------------------
(***************************************************************************)
(* unregisterPin: of a proxy.                                              *)
(***************************************************************************)
LEMMA UnregisterProxyKeeps ==
  ASSUME IInv, NEW w \in Workers, NEW x \in Proxies, UnregisterProxy(w, x)
  PROVE  IInv'
<1> PICK c : c = Call("notifyProxyRemoved", x, w)
  OBVIOUS
<1>0. /\ pc[w] = "idle" /\ arg[w] = None /\ x \in children /\ x \in Made /\ realPin[x] \in Pins
      /\ pc'[w] = "notify" /\ arg'[w] = x
      /\ \A u \in Workers \ {w} : pc'[u] = pc[u] /\ arg'[u] = arg[u]
      /\ pc' \in [Workers -> Steps] /\ arg' \in [Workers -> Pins \cup Proxies \cup {None}]
      /\ UNCHANGED <<pins, host, gui>>
      /\ Queue("notifyProxyRemoved", x, w)
      /\ disturbed \subseteq disturbed' /\ disturbed' \subseteq disturbed \cup {realPin[x]}
      /\ Adding(x) => realPin[x] \in disturbed'
      /\ overlapped \subseteq overlapped' /\ overlapped' \subseteq overlapped \cup {x}
      /\ x \notin overlapped' => Busy(x) = {}
  BY DEF UnregisterProxy, Enter, IInv, TypeOK, Tasks, Steps, Made
<1>1. /\ Queued(c) /\ mainQueue' \in Seq(Calls) /\ c \in Calls
      /\ c.op = "notifyProxyRemoved" /\ c.what = x /\ c.for = w
  BY <1>0, QueueAppends DEF Ops
<1> USE <1>0 DEF pins, host, gui
<1>2. /\ Awaits' /\ CalledOnce' /\ AddsFirst'
      /\ \A y \in Proxies : AddQueued(y)' <=> AddQueued(y)
  <2>1. Awaited(c)'
    BY <1>1 DEF Awaited, Made
  <2> QED BY <1>1, <2>1, WorkerQueues
<1>3. Busy(x)' = Busy(x) \cup {w} /\ \A y \in Proxies \ {x} : Busy(y)' = Busy(y)
  BY DEF Busy
<1>4. Going(x)' = Going(x) \cup {w} /\ \A y \in Proxies \ {x} : Going(y)' = Going(y)
  BY DEF Going, GoingSteps
<1>5. \A y \in Proxies : (Adding(y)' <=> Adding(y)) /\ (Announced(y)' <=> Announced(y)) /\ (Unobserved(y)' <=> Unobserved(y))
  <2>1. \A y \in Proxies : Adding(y)' <=> Adding(y)
    BY DEF Adding, Busy
  <2>2. \A y \in Proxies : (Announced(y)' <=> Announced(y)) /\ (Unobserved(y)' <=> Unobserved(y))
    BY DEF Announced, Unobserved, GoingSteps
  <2> QED BY <2>1, <2>2
<1>6. Made' = Made /\ \A y \in Proxies : AddPending(y)' <=> AddPending(y)
  BY <1>2, <1>5 DEF Made, AddPending
<1>7. ASSUME NEW q \in Pins \ disturbed'
      PROVE  Single(q)' /\ Pending(q)' /\ Observed(q)' /\ Shown(q)'
  <2>1. Single(q) /\ Pending(q) /\ Observed(q) /\ Shown(q)
    BY DEF IInv, Undisturbed
  <2>2. ProxiesOf(q)' = ProxiesOf(q) /\ ProxiesOf(q) \in SUBSET Proxies
    BY DEF ProxiesOf, IInv, TypeOK, Made
  <2>3. Single(q)'
    BY <1>3, <2>1 DEF Single, Alive
  <2>4. Pending(q)'
    <3> SUFFICES ASSUME NEW y \in Proxies, realPin[y] = q, AddPending(y)
                 PROVE  y \in children /\ ~Announced(y) /\ (Adding(y) => Going(y)' = {})
      BY <1>5, <1>6 DEF Pending
    <3>1. y = x => ~Adding(x)
      OBVIOUS
    <3> QED BY <1>4, <2>1, <3>1 DEF Pending
  <2>5. Observed(q)'
    BY <1>5, <1>6, <2>1, <2>2 DEF Observed
  <2>6. Shown(q)'
    BY <1>5, <1>6, <2>1 DEF Shown
  <2> QED BY <2>3, <2>4, <2>5, <2>6
<1>8. Kinds'
  BY <1>6 DEF IInv, Kinds
<1>9. Removals'
  <2> SUFFICES ASSUME NEW y \in Proxies \ overlapped'
               PROVE  /\ \A v, u \in Going(y)' : v = u
                      /\ Going(y)' # {} => y \in children
                      /\ removals[y] = IF y \in Made /\ (y \notin children \/ Announced(y)) THEN 1 ELSE 0
    BY <1>5, <1>6 DEF Removals
  <2>1. /\ \A v, u \in Going(y) : v = u
        /\ Going(y) # {} => y \in children
        /\ removals[y] = IF y \in Made /\ (y \notin children \/ Announced(y)) THEN 1 ELSE 0
    BY DEF IInv, Removals
  <2>2. y = x => Going(y)' = {w}
    <3>1. y = x => Going(x) = {}
      BY DEF Going, Busy, GoingSteps
    <3> QED BY <1>4, <3>1
  <2>3. y # x => Going(y)' = Going(y)
    BY <1>4
  <2> QED BY <2>1, <2>2, <2>3
<1>10. ObserversBound'
  <2>1. observers \in [Pins -> Nat]
    BY FiniteObserving DEF IInv, TypeOK
  <2> QED BY <1>6, <2>1, BoundStands DEF Made
<1>11. TypeOK'
  BY <1>1, <1>6 DEF IInv, TypeOK
<1>12. Tasks'
  BY <1>6 DEF IInv, Tasks
<1>13. Endings'
  <2>1. \A p \in Pins : Ending(p)' => Ending(p)
    BY DEF Ending
  <2> QED BY <1>5, <2>1, EndingsStand
<1>14. \A q \in Pins \ disturbed' : Dropped(q)'
  <2> TAKE q \in Pins \ disturbed'
  <2>1. Ended(q)' => Ended(q)
    BY DEF Ended
  <2> QED BY <1>2, <1>5, <2>1, DroppedStands DEF AddPending
<1> QED BY <1>2, <1>7, <1>8, <1>9, <1>10, <1>11, <1>12, <1>13, <1>14, Together

LEMMA DetachProxyKeeps ==
  ASSUME IInv, NEW w \in Workers, DetachProxy(w)
  PROVE  IInv'
<1> PICK x : x = arg[w]
  OBVIOUS
<1>0. /\ pc[w] = "detachProxy" /\ arg[w] = x /\ x \in Made /\ x \in Proxies
      /\ pc'[w] = "idle" /\ arg'[w] = None
      /\ \A u \in Workers \ {w} : pc'[u] = pc[u] /\ arg'[u] = arg[u]
      /\ pc' \in [Workers -> Steps] /\ arg' \in [Workers -> Pins \cup Proxies \cup {None}]
      /\ children' = children \ {x}
      /\ UNCHANGED <<pins, realPin, place, observers, mainQueue, gui, history>>
  BY DEF DetachProxy, Detach, Enter, IInv, TypeOK, Tasks, Steps, Made
<1> USE <1>0 DEF pins, gui, history
<1>2. /\ Awaits' /\ CalledOnce' /\ AddsFirst'
      /\ \A y \in Proxies : AddQueued(y)' <=> AddQueued(y)
  BY QueueRests
<1>3. Busy(x)' = Busy(x) \ {w} /\ \A y \in Proxies \ {x} : Busy(y)' = Busy(y)
  BY DEF Busy
<1>4. Going(x)' = Going(x) \ {w} /\ w \in Going(x) /\ \A y \in Proxies \ {x} : Going(y)' = Going(y)
  BY DEF Going, GoingSteps
<1>5. \A y \in Proxies : Adding(y)' <=> Adding(y)
  BY DEF Adding, Busy
<1>6. \A y \in Proxies \ {x} : (Announced(y)' <=> Announced(y)) /\ (Unobserved(y)' <=> Unobserved(y))
  BY DEF Announced, Unobserved, GoingSteps
<1>7. Announced(x) /\ Unobserved(x)
  BY DEF Announced, Unobserved, GoingSteps
<1>8. Made' = Made /\ \A y \in Proxies : AddPending(y)' <=> AddPending(y)
  BY <1>2, <1>5 DEF Made, AddPending
<1>9. ASSUME NEW q \in Pins \ disturbed'
      PROVE  Single(q)' /\ Pending(q)' /\ Observed(q)' /\ Shown(q)'
  <2>1. Single(q) /\ Pending(q) /\ Observed(q) /\ Shown(q)
    BY DEF IInv, Undisturbed
  <2>2. ProxiesOf(q)' = ProxiesOf(q) \ {x} /\ ProxiesOf(q) \in SUBSET Proxies
    BY DEF ProxiesOf, IInv, TypeOK, Made
  <2>3. Single(q)'
    <3>1. \A y \in Proxies : Alive(y)' => Alive(y)
      BY <1>3 DEF Alive
    <3> QED BY <2>1, <3>1 DEF Single
  <2>4. Pending(q)'
    <3> SUFFICES ASSUME NEW y \in Proxies, realPin[y] = q, AddPending(y)
                 PROVE  y \in children' /\ ~Announced(y)' /\ (Adding(y) => Going(y)' = {})
      BY <1>5, <1>8 DEF Pending
    <3>1. y # x
      BY <1>7, <2>1 DEF Pending
    <3> QED BY <1>4, <1>6, <2>1, <3>1 DEF Pending
  <2>5. Observed(q)'
    <3>1. \A y \in ProxiesOf(q) : ~AddPending(y) /\ ~Unobserved(y) =>
            y \in ProxiesOf(q)' /\ ~AddPending(y)' /\ ~Unobserved(y)'
      BY <1>6, <1>7, <1>8, <2>2
    <3>2. \A y \in ProxiesOf(q)' : ~AddPending(y)' /\ ~Unobserved(y)' =>
            y \in ProxiesOf(q) /\ ~AddPending(y) /\ ~Unobserved(y)
      BY <1>6, <1>8, <2>2
    <3> QED BY <2>1, <3>1, <3>2 DEF Observed
  <2>6. Shown(q)'
    <3> SUFFICES ASSUME NEW y \in Proxies, realPin[y] = q
                 PROVE  y \in shown <=> y \in children' /\ ~AddPending(y)' /\ ~Announced(y)'
      BY DEF Shown
    <3>1. CASE y = x
      BY <1>7, <2>1, <3>1 DEF Shown
    <3>2. CASE y # x
      BY <1>6, <1>8, <2>1, <3>2 DEF Shown
    <3> QED BY <3>1, <3>2
  <2> QED BY <2>3, <2>4, <2>5, <2>6
<1>10. Kinds'
  BY <1>8 DEF IInv, Kinds
<1>11. Removals'
  <2> SUFFICES ASSUME NEW y \in Proxies \ overlapped
               PROVE  /\ \A v, u \in Going(y)' : v = u
                      /\ Going(y)' # {} => y \in children'
                      /\ removals[y] = IF y \in Made /\ (y \notin children' \/ Announced(y)') THEN 1 ELSE 0
    BY <1>8 DEF Removals
  <2>1. /\ \A v, u \in Going(y) : v = u
        /\ Going(y) # {} => y \in children
        /\ removals[y] = IF y \in Made /\ (y \notin children \/ Announced(y)) THEN 1 ELSE 0
    BY DEF IInv, Removals
  <2>2. CASE y = x
    <3>1. Going(x)' = {}
      BY <1>4, <2>1, <2>2
    <3>2. removals[x] = 1
      BY <1>7, <2>1, <2>2
    <3> QED BY <2>2, <3>1, <3>2
  <2>3. CASE y # x
    BY <1>4, <1>6, <2>1, <2>3
  <2> QED BY <2>2, <2>3
<1>12. ObserversBound'
  <2>1. observers \in [Pins -> Nat]
    BY FiniteObserving DEF IInv, TypeOK
  <2> QED BY <1>8, <2>1, BoundStands DEF Made
<1>13. TypeOK'
  BY <1>8 DEF IInv, TypeOK
<1>14. Tasks'
  BY <1>8 DEF IInv, Tasks
<1>15. Endings'
  <2>1. \A p \in Pins : Ending(p)' => Ending(p)
    BY DEF Ending
  <2> QED BY <1>5, <2>1, EndingsStand
<1>16. \A q \in Pins \ disturbed' : Dropped(q)'
  <2> TAKE q \in Pins \ disturbed'
  <2>1. Ended(q)' => Ended(q)
    BY DEF Ended
  <2> QED BY <1>2, <1>6, <2>1, DroppedStands DEF AddPending
<1> QED BY <1>2, <1>9, <1>10, <1>11, <1>12, <1>13, <1>14, <1>15, <1>16, Together

LEMMA UnregisterProxyOnMainKeeps ==
  ASSUME IInv, NEW x \in Proxies, UnregisterProxyOnMain(x)
  PROVE  IInv'
<1> PICK p : p = realPin[x]
  OBVIOUS
<1>0. /\ x \in children /\ x \in Made /\ p \in Pins /\ p = realPin[x]
      /\ shown' = shown \ {x}
      /\ removals' = [y \in Proxies |-> removals[y] + IF y \in {x} THEN 1 ELSE 0]
      /\ observers' = [observers EXCEPT ![p] = 0]
      /\ children' = children \ {x}
      /\ disturbed \subseteq disturbed' /\ disturbed' \subseteq disturbed \cup {p}
      /\ AddPending(x) => p \in disturbed'
      /\ overlapped \subseteq overlapped' /\ overlapped' \subseteq overlapped \cup {x}
      /\ x \notin overlapped' => Busy(x) = {}
      /\ UNCHANGED <<pins, realPin, place, mainQueue, control>>
  BY DEF UnregisterProxyOnMain, Announce, StopObserving, Detach, IInv, TypeOK, Made
<1> USE <1>0 DEF pins, control
<1>2. /\ Awaits' /\ CalledOnce' /\ AddsFirst'
      /\ \A y \in Proxies : AddQueued(y)' <=> AddQueued(y)
  BY QueueRests
<1>3. /\ \A y \in Proxies : /\ Busy(y)' = Busy(y) /\ Going(y)' = Going(y)
                            /\ Adding(y)' <=> Adding(y)
                            /\ Announced(y)' <=> Announced(y)
                            /\ Unobserved(y)' <=> Unobserved(y)
      /\ \A q : Ending(q)' <=> Ending(q)
  BY ControlRests
<1>4. Made' = Made /\ \A y \in Proxies : AddPending(y)' <=> AddPending(y)
  BY <1>2, <1>3 DEF Made, AddPending
<1>5. observers \in [Pins -> 0 .. Cardinality(Proxies)] /\ Cardinality(Proxies) \in Nat /\ removals \in [Proxies -> Nat]
  BY FiniteObserving DEF IInv, TypeOK
<1>6. ASSUME NEW q \in Pins \ disturbed'
      PROVE  Single(q)' /\ Pending(q)' /\ Observed(q)' /\ Shown(q)'
  <2>1. Single(q) /\ Pending(q) /\ Observed(q) /\ Shown(q)
    BY DEF IInv, Undisturbed
  <2>2. ProxiesOf(q)' = ProxiesOf(q) \ {x} /\ ProxiesOf(q) \in SUBSET Proxies
    BY DEF ProxiesOf, IInv, TypeOK, Made
  <2>3. Single(q)'
    <3>1. \A y \in Proxies : Alive(y)' => Alive(y)
      BY <1>3 DEF Alive
    <3> QED BY <2>1, <3>1 DEF Single
  <2>4. Pending(q)'
    <3> SUFFICES ASSUME NEW y \in Proxies, realPin[y] = q, AddPending(y)
                 PROVE  y \in children' /\ ~Announced(y) /\ (Adding(y) => Going(y) = {})
      BY <1>3, <1>4 DEF Pending
    <3>1. y # x
      OBVIOUS
    <3> QED BY <2>1, <3>1 DEF Pending
  <2>5. Observed(q)'
    <3>1. CASE q = p
      <4>1. \A y \in ProxiesOf(p) : y = x
        BY <2>1, <2>2, <3>1 DEF Single, Alive, ProxiesOf
      <4>2. observers'[p] = 0 /\ ProxiesOf(p)' = {}
        BY <1>5, <2>2, <3>1, <4>1
      <4> QED BY <3>1, <4>2 DEF Observed
    <3>2. CASE q # p
      <4>1. observers'[q] = observers[q] /\ ProxiesOf(q)' = ProxiesOf(q)
        BY <1>5, <2>2, <3>2 DEF ProxiesOf
      <4> QED BY <1>3, <1>4, <2>1, <2>2, <4>1 DEF Observed
    <3> QED BY <3>1, <3>2
  <2>6. Shown(q)'
    BY <1>3, <1>4, <2>1 DEF Shown
  <2> QED BY <2>3, <2>4, <2>5, <2>6
<1>7. Kinds'
  BY <1>4 DEF IInv, Kinds, Made
<1>8. Removals'
  <2> SUFFICES ASSUME NEW y \in Proxies \ overlapped'
               PROVE  /\ \A v, u \in Going(y) : v = u
                      /\ Going(y) # {} => y \in children'
                      /\ removals'[y] = IF y \in Made /\ (y \notin children' \/ Announced(y)) THEN 1 ELSE 0
    BY <1>3, <1>4 DEF Removals
  <2>1. /\ \A v, u \in Going(y) : v = u
        /\ Going(y) # {} => y \in children
        /\ removals[y] = IF y \in Made /\ (y \notin children \/ Announced(y)) THEN 1 ELSE 0
    BY DEF IInv, Removals
  <2>2. CASE y = x
    <3>1. Going(x) = {} /\ ~Announced(x)
      BY <2>2 DEF Busy, Going, Announced, GoingSteps
    <3>2. removals[x] = 0
      BY <2>1, <2>2, <3>1
    <3>3. removals'[x] = 1
      BY <1>5, <3>2
    <3> QED BY <2>2, <3>1, <3>3
  <2>3. CASE y # x
    <3>1. removals'[y] = removals[y] /\ (y \in children' <=> y \in children)
      BY <1>5, <2>3
    <3> QED BY <2>1, <3>1
  <2> QED BY <2>2, <2>3
<1>9. ObserversBound'
  <2>1. observers' \in [Pins -> Nat] /\ \A q \in Pins : observers'[q] <= observers[q]
    BY <1>5
  <2>2. \A y \in Made : realPin'[y] = realPin[y] /\ (AddPending(y)' => AddPending(y))
    BY <1>4 DEF Made
  <2> QED BY <2>1, <2>2, BoundStands
<1>10. TypeOK'
  <2>1. observers' \in [Pins -> 0 .. Cardinality(Proxies)] /\ removals' \in [Proxies -> Nat]
    BY <1>5
  <2> QED BY <1>4, <2>1 DEF IInv, TypeOK
<1>11. Tasks'
  BY <1>4 DEF IInv, Tasks
<1>12. Endings'
  BY <1>3, EndingsStand
<1>13. \A q \in Pins \ disturbed' : Dropped(q)'
  <2> TAKE q \in Pins \ disturbed'
  <2>1. Ended(q)' => Ended(q)
    BY DEF Ended
  <2> QED BY <1>2, <1>3, <2>1, DroppedStands DEF AddPending
<1> QED BY <1>2, <1>6, <1>7, <1>8, <1>9, <1>10, <1>11, <1>12, <1>13, Together

-----------------------------------------------------------------------------
(***************************************************************************)
(* A proxy is made.                                                        *)
(***************************************************************************)
LEMMA Unmade ==
  ASSUME IInv, NEW x \in Proxies, realPin[x] = None
  PROVE  /\ x \notin Made /\ x \notin children /\ x \notin shown /\ removals[x] = 0
         /\ \A w \in Workers : arg[w] # x
         /\ \A i \in 1 .. Len(mainQueue) : mainQueue[i].what = x => mainQueue[i].for # Main
                                              /\ mainQueue[i].op \notin {"addProxyPin", "notifyProxyRemoved"}
         /\ ~AddPending(x)
<1>1. x \notin Made /\ x \notin children /\ x \notin shown /\ removals[x] = 0
  BY DEF Made, IInv, TypeOK, Kinds
<1>2. \A w \in Workers : arg[w] # x
  <2> SUFFICES ASSUME NEW w \in Workers, arg[w] = x PROVE FALSE
    OBVIOUS
  <2>1. x \notin Pins /\ x # None
    OBVIOUS
  <2>2. pc[w] \in Steps
    BY DEF IInv, TypeOK
  <2> QED BY <1>1, <2>1, <2>2 DEF IInv, Tasks, Steps
<1>3. ASSUME NEW i \in 1 .. Len(mainQueue), mainQueue[i].what = x
      PROVE  mainQueue[i].for # Main /\ mainQueue[i].op \notin {"addProxyPin", "notifyProxyRemoved"}
  BY <1>1, <1>3 DEF IInv, Awaits, Awaited
<1>4. ~AddPending(x)
  BY <1>2, <1>3, AddQueuedAt DEF AddPending, Adding, Busy
<1> QED BY <1>1, <1>2, <1>3, <1>4

\* A proxy is appended to the children, and its addProxyPin: is on the way.
LEMMA AddChildKeeps ==
  ASSUME IInv, NEW x \in Proxies, NEW p \in Pins, AddChild(x, p),
         UNCHANGED <<observers, shown, removals, overlapped>>,
         \A y \in Proxies \ {x} : /\ Busy(y)' = Busy(y) /\ Going(y)' = Going(y)
                                  /\ Adding(y)' <=> Adding(y)
                                  /\ AddQueued(y)' <=> AddQueued(y)
                                  /\ Announced(y)' <=> Announced(y)
                                  /\ Unobserved(y)' <=> Unobserved(y),
         Going(x)' = {}, ~Announced(x)', AddPending(x)'
  PROVE  /\ realPin' \in [Proxies -> Pins \cup {None}] /\ place' \in [Proxies -> Nat]
         /\ children' \subseteq Made' /\ disturbed' \subseteq Pins
         /\ Made' = Made \cup {x} /\ \A y \in Proxies \ {x} : realPin'[y] = realPin[y]
         /\ realPin'[x] = p /\ ~Ended(p) /\ ~Ending(p) /\ p \notin freed
         /\ disturbed \subseteq disturbed'
         /\ \A q \in Pins \ disturbed' : Single(q)' /\ Pending(q)' /\ Observed(q)' /\ Shown(q)'
         /\ Kinds' /\ Removals' /\ ObserversBound'
         /\ children' = children \cup {x}
<1>0. /\ realPin[x] = None /\ p \notin freed /\ \A w \in Busy(p) : pc[w] \notin {"dealloc", "free"}
      /\ realPin' = [realPin EXCEPT ![x] = p] /\ children' = children \cup {x}
      /\ place' = [place EXCEPT ![x] = Cardinality(Made)]
      /\ disturbed' = IF \E y \in Proxies : realPin[y] = p /\ Alive(y)
                        THEN disturbed \cup {p} ELSE disturbed
  BY DEF AddChild, Alive
<1>1. /\ x \notin Made /\ x \notin children /\ x \notin shown /\ removals[x] = 0 /\ ~AddPending(x)
  BY <1>0, Unmade
<1>2. /\ realPin \in [Proxies -> Pins \cup {None}] /\ children \subseteq Made /\ children \subseteq Proxies
      /\ disturbed \subseteq Pins /\ place \in [Proxies -> Nat]
  BY DEF IInv, TypeOK, Made
<1>3. realPin' \in [Proxies -> Pins \cup {None}] /\ realPin'[x] = p /\ \A y \in Proxies \ {x} : realPin'[y] = realPin[y]
  BY <1>0, <1>2
<1>4. place' \in [Proxies -> Nat]
  <2>1. Cardinality(Made) \in Nat
    <3>1. Made \in SUBSET Proxies
      BY DEF Made
    <3> QED BY <3>1, FS_Subset, FS_CardinalityType
  <2> QED BY <1>0, <1>2, <2>1
<1>5. Made' = Made \cup {x}
  BY <1>3 DEF Made
<1>6. children' \subseteq Made' /\ disturbed' \subseteq Pins /\ disturbed \subseteq disturbed'
  BY <1>0, <1>2, <1>5
<1>7. ~Ending(p) /\ ~Ended(p)
  BY <1>0 DEF Ending, Ended, Busy
<1>8. \A y \in Proxies \ {x} : (AddPending(y)' <=> AddPending(y)) /\ (Alive(y)' <=> Alive(y))
  BY <1>0 DEF AddPending, Alive
<1>9. ASSUME NEW q \in Pins \ disturbed'
      PROVE  Single(q)' /\ Pending(q)' /\ Observed(q)' /\ Shown(q)'
  <2>1. Single(q) /\ Pending(q) /\ Observed(q) /\ Shown(q)
    BY <1>6 DEF IInv, Undisturbed
  <2>2. ProxiesOf(q) \in SUBSET (Proxies \ {x}) /\ ProxiesOf(q)' \ {x} = ProxiesOf(q) /\ ProxiesOf(q)' \in SUBSET Proxies
    BY <1>0, <1>1, <1>2, <1>3 DEF ProxiesOf
  <2>3. q = p => \A y \in Proxies : realPin[y] = p => ~Alive(y)
    BY <1>0
  <2>4. Single(q)'
    <3> SUFFICES ASSUME NEW y \in Proxies, NEW z \in Proxies, realPin'[y] = q, realPin'[z] = q,
                        Alive(y)', Alive(z)'
                 PROVE  y = z
      BY DEF Single
    <3>1. q # p => y # x /\ z # x
      BY <1>3
    <3>2. q = p => y = x /\ z = x
      BY <1>3, <1>8, <2>3
    <3> QED BY <1>3, <1>8, <2>1, <3>1, <3>2 DEF Single
  <2>5. Pending(q)'
    <3> SUFFICES ASSUME NEW y \in Proxies, realPin'[y] = q, AddPending(y)'
                 PROVE  y \in children' /\ ~Announced(y)' /\ (Adding(y)' => Going(y)' = {})
      BY DEF Pending
    <3>1. CASE y = x
      BY <1>0, <3>1
    <3>2. CASE y # x
      <4>1. realPin[y] = q /\ AddPending(y)
        BY <1>3, <1>8, <3>2
      <4> QED BY <1>0, <2>1, <3>2, <4>1 DEF Pending
    <3> QED BY <3>1, <3>2
  <2>6. Observed(q)'
    <3>1. \A y \in ProxiesOf(q) : y \in ProxiesOf(q)' /\ (AddPending(y)' <=> AddPending(y)) /\ (Unobserved(y)' <=> Unobserved(y))
      BY <1>8, <2>2
    <3>2. \A y \in ProxiesOf(q)' : ~AddPending(y)' => y \in ProxiesOf(q)
      BY <2>2
    <3> QED BY <2>1, <3>1, <3>2 DEF Observed
  <2>7. Shown(q)'
    <3> SUFFICES ASSUME NEW y \in Proxies, realPin'[y] = q
                 PROVE  y \in shown <=> y \in children' /\ ~AddPending(y)' /\ ~Announced(y)'
      BY DEF Shown
    <3>1. CASE y = x
      BY <1>1, <3>1
    <3>2. CASE y # x
      BY <1>0, <1>3, <1>8, <2>1, <3>2 DEF Shown
    <3> QED BY <3>1, <3>2
  <2> QED BY <2>4, <2>5, <2>6, <2>7
<1>10. Kinds'
  BY <1>3, <1>5 DEF IInv, Kinds
<1>11. Removals'
  <2> SUFFICES ASSUME NEW y \in Proxies \ overlapped
               PROVE  /\ \A v, u \in Going(y)' : v = u
                      /\ Going(y)' # {} => y \in children'
                      /\ removals[y] = IF y \in Made' /\ (y \notin children' \/ Announced(y)') THEN 1 ELSE 0
    BY DEF Removals
  <2>1. /\ \A v, u \in Going(y) : v = u
        /\ Going(y) # {} => y \in children
        /\ removals[y] = IF y \in Made /\ (y \notin children \/ Announced(y)) THEN 1 ELSE 0
    BY DEF IInv, Removals
  <2>2. CASE y = x
    BY <1>0, <1>1, <2>2
  <2>3. CASE y # x
    BY <1>0, <1>5, <2>1, <2>3
  <2> QED BY <2>2, <2>3
<1>12. ObserversBound'
  <2>1. observers \in [Pins -> Nat]
    BY FiniteObserving DEF IInv, TypeOK
  <2>2. \A y \in Made : realPin'[y] = realPin[y] /\ (AddPending(y)' => AddPending(y))
    BY <1>1, <1>3, <1>8 DEF Made
  <2> QED BY <2>1, <2>2, BoundStands
<1> QED BY <1>0, <1>3, <1>4, <1>5, <1>6, <1>7, <1>9, <1>10, <1>11, <1>12

LEMMA ProxyPinKeeps ==
  ASSUME IInv, NEW w \in Workers, NEW x \in Proxies, NEW p \in Pins, ProxyPin(w, x, p)
  PROVE  IInv'
<1>0. /\ pc[w] = "idle" /\ arg[w] = None /\ AddChild(x, p) /\ realPin[x] = None
      /\ pc'[w] = "queueAdd" /\ arg'[w] = x
      /\ \A u \in Workers \ {w} : pc'[u] = pc[u] /\ arg'[u] = arg[u]
      /\ pc' \in [Workers -> Steps] /\ arg' \in [Workers -> Pins \cup Proxies \cup {None}]
      /\ UNCHANGED <<pins, observers, mainQueue, gui, overlapped>>
  BY DEF ProxyPin, AddChild, Enter, IInv, TypeOK, Tasks, Steps
<1> USE <1>0 DEF pins, gui
<1>1. /\ \A u \in Workers : arg[u] # x
      /\ ~AddPending(x)
  BY Unmade
<1>2. \A y \in Proxies : AddQueued(y)' <=> AddQueued(y)
  BY DEF AddQueued
<1>3. \A y \in Proxies \ {x} : /\ Busy(y)' = Busy(y) /\ Going(y)' = Going(y)
                               /\ Adding(y)' <=> Adding(y)
                               /\ Announced(y)' <=> Announced(y)
                               /\ Unobserved(y)' <=> Unobserved(y)
  <2> TAKE y \in Proxies \ {x}
  <2>1. Busy(y)' = Busy(y)
    BY DEF Busy
  <2>2. Going(y)' = Going(y)
    BY DEF Going, GoingSteps
  <2>3. Adding(y)' <=> Adding(y)
    BY DEF Adding, Busy
  <2>4. (Announced(y)' <=> Announced(y)) /\ (Unobserved(y)' <=> Unobserved(y))
    BY DEF Announced, Unobserved, GoingSteps
  <2> QED BY <2>1, <2>2, <2>3, <2>4
<1>4. Going(x)' = {} /\ ~Announced(x)'
  BY <1>1 DEF Going, Announced, GoingSteps
<1>5. AddPending(x)' /\ ~AddQueued(x)'
  BY <1>1, <1>2 DEF AddPending, Adding, Busy
<1>6. /\ realPin' \in [Proxies -> Pins \cup {None}] /\ place' \in [Proxies -> Nat]
      /\ children' \subseteq Made' /\ disturbed' \subseteq Pins
      /\ Made' = Made \cup {x} /\ \A y \in Proxies \ {x} : realPin'[y] = realPin[y]
      /\ realPin'[x] = p /\ ~Ended(p) /\ ~Ending(p) /\ p \notin freed
      /\ disturbed \subseteq disturbed'
      /\ \A q \in Pins \ disturbed' : Single(q)' /\ Pending(q)' /\ Observed(q)' /\ Shown(q)'
      /\ Kinds' /\ Removals' /\ ObserversBound'
      /\ children' = children \cup {x}
  BY <1>2, <1>3, <1>4, <1>5, AddChildKeeps
<1>7. TypeOK'
  BY <1>6 DEF IInv, TypeOK
<1>8. Tasks'
  BY <1>6 DEF IInv, Tasks
<1>9. Awaits'
  <2> SUFFICES ASSUME NEW i \in 1 .. Len(mainQueue), NEW e, e = mainQueue[i] PROVE Awaited(e)'
    BY DEF Awaits
  <2>1. Awaited(e) /\ (e.for \in Workers => pc'[e.for] = pc[e.for] /\ arg'[e.for] = arg[e.for])
    BY OnlyWaiting DEF IInv, Awaits
  <2> QED BY <1>6, <2>1 DEF Awaited
<1>10. CalledOnce'
  <2>1. \A y \in Proxies : Adding(y)' => ~AddQueued(y)'
    BY <1>2, <1>3, <1>5 DEF IInv, CalledOnce
  <2>2. \A v, u \in Workers : pc'[v] = "queueAdd" /\ pc'[u] = "queueAdd" /\ arg'[v] = arg'[u] => v = u
    BY <1>1 DEF IInv, CalledOnce
  <2> QED BY <2>1, <2>2 DEF IInv, CalledOnce
<1>11. AddsFirst'
  <2>1. \A i \in 1 .. Len(mainQueue) :
          mainQueue[i].op = "addProxyPin" => realPin'[mainQueue[i].what] = realPin[mainQueue[i].what]
    BY <1>0, <1>6, Unmade DEF IInv, Awaits, Awaited, Made
  <2> QED BY <1>6, <2>1 DEF IInv, AddsFirst
<1>12. Endings'
  <2>1. \A q \in Pins : Ending(q)' <=> Ending(q)
    BY DEF Ending
  <2>2. \A q \in Pins : q \in freed \/ Ending(q) => q # p
    BY <1>6
  <2> QED BY <1>3, <1>6, <2>1, <2>2 DEF IInv, Endings
<1>13. \A q \in Pins \ disturbed' : Dropped(q)'
  <2> TAKE q \in Pins \ disturbed'
  <2>1. Ended(q)' => Ended(q)
    BY DEF Ended
  <2>2. CASE q = p
    BY <1>6, <2>1, <2>2 DEF Dropped
  <2>3. CASE q # p
    <3>1. \A y \in Proxies : realPin'[y] = q => y # x /\ realPin[y] = q
      BY <1>6, <2>3
    <3> QED BY <1>2, <1>3, <1>6, <2>1, <3>1, DroppedStands DEF AddPending
  <2> QED BY <2>2, <2>3
<1> QED BY <1>6, <1>7, <1>8, <1>9, <1>10, <1>11, <1>12, <1>13, Together

LEMMA ProxyPinOnMainKeeps ==
  ASSUME IInv, NEW x \in Proxies, NEW p \in Pins, ProxyPinOnMain(x, p)
  PROVE  IInv'
<1> PICK c : c = Call("addProxyPin", x, Main)
  OBVIOUS
<1>0. /\ AddChild(x, p) /\ realPin[x] = None
      /\ UNCHANGED <<pins, observers, control, gui, overlapped>>
      /\ Queue("addProxyPin", x, Main)
      /\ realPin' = [realPin EXCEPT ![x] = p] /\ disturbed \subseteq disturbed'
  BY DEF ProxyPinOnMain, AddChild
<1>1. /\ Queued(c) /\ mainQueue' \in Seq(Calls) /\ c \in Calls
      /\ c.op = "addProxyPin" /\ c.what = x /\ c.for = Main
  BY <1>0, QueueAppends DEF Ops
<1> USE <1>0 DEF pins, gui, control
<1>2. /\ \A u \in Workers : arg[u] # x
      /\ \A i \in 1 .. Len(mainQueue) : mainQueue[i].what = x => mainQueue[i].for # Main
                                           /\ mainQueue[i].op \notin {"addProxyPin", "notifyProxyRemoved"}
      /\ x \notin Made
  BY Unmade
<1>3. /\ \A y \in Proxies : /\ Busy(y)' = Busy(y) /\ Going(y)' = Going(y)
                            /\ Adding(y)' <=> Adding(y)
                            /\ Announced(y)' <=> Announced(y)
                            /\ Unobserved(y)' <=> Unobserved(y)
      /\ \A q : Ending(q)' <=> Ending(q)
  BY ControlRests
<1>4. realPin'[x] = p /\ \A y \in Proxies \ {x} : realPin'[y] = realPin[y]
  BY DEF IInv, TypeOK
<1>5. Made' = Made \cup {x}
  BY <1>4 DEF Made
<1>6. p \notin freed /\ ~Ending(p)
  BY DEF AddChild, Ending, Busy
<1>7. /\ Awaits' /\ CalledOnce' /\ AddsFirst'
      /\ \A y \in Proxies : AddQueued(y)' <=> AddQueued(y) \/ x = y
  <2>1. Awaited(c)'
    BY <1>1, <1>5 DEF Awaited
  <2>2. \A y \in Made : realPin'[y] = realPin[y]
    BY <1>2, <1>4 DEF Made
  <2>3. \A i \in 1 .. Len(mainQueue) : mainQueue[i].for = c.for => mainQueue[i].what # c.what
    BY <1>1, <1>2
  <2>4. \A i \in 1 .. Len(mainQueue) :
          /\ ~(mainQueue[i].op = "notifyRelease" /\ mainQueue[i].what = p)
          /\ ~(mainQueue[i].op = "notifyProxyRemoved" /\ mainQueue[i].what = x)
    BY <1>2, <1>6 DEF IInv, Awaits, Awaited, Ending
  <2>5. \A u \in Workers : pc'[u] = pc[u] /\ arg'[u] = arg[u] /\ arg[u] # x
    BY <1>2
  <2> QED BY <1>1, <1>4, <1>5, <2>1, <2>2, <2>3, <2>4, <2>5, QueuedKeeps
<1>8. Going(x)' = {} /\ ~Announced(x)' /\ AddPending(x)'
  BY <1>2, <1>7 DEF Going, Announced, AddPending
<1>9. /\ realPin' \in [Proxies -> Pins \cup {None}] /\ place' \in [Proxies -> Nat]
      /\ children' \subseteq Made' /\ disturbed' \subseteq Pins
      /\ ~Ended(p)
      /\ \A q \in Pins \ disturbed' : Single(q)' /\ Pending(q)' /\ Observed(q)' /\ Shown(q)'
      /\ Kinds' /\ Removals' /\ ObserversBound'
      /\ children' = children \cup {x}
  BY <1>3, <1>7, <1>8, AddChildKeeps
<1>10. TypeOK'
  BY <1>1, <1>9 DEF IInv, TypeOK
<1>11. Tasks'
  BY <1>5 DEF IInv, Tasks
<1>12. Endings'
  <2>1. \A y \in Proxies : Adding(y) => y # x
    BY <1>2 DEF Adding, Busy
  <2> QED BY <1>3, <1>4, <2>1 DEF IInv, Endings
<1>13. \A q \in Pins \ disturbed' : Dropped(q)'
  <2> TAKE q \in Pins \ disturbed'
  <2>1. Ended(q)' => Ended(q)
    BY DEF Ended
  <2>2. CASE q = p
    BY <1>9, <2>1, <2>2 DEF Dropped
  <2>3. CASE q # p
    <3>1. \A y \in Proxies : realPin'[y] = q => y # x /\ realPin[y] = q
      BY <1>4, <2>3
    <3> QED BY <1>3, <1>7, <1>9, <2>1, <3>1, DroppedStands DEF AddPending
  <2> QED BY <2>2, <2>3
<1> QED BY <1>7, <1>9, <1>10, <1>11, <1>12, <1>13, Together

-----------------------------------------------------------------------------
(***************************************************************************)
(* Every step, and what follows.                                           *)
(***************************************************************************)
LEMMA StutterKeeps == IInv /\ UNCHANGED vars => IInv'
<1> SUFFICES ASSUME IInv, UNCHANGED vars PROVE IInv'
  OBVIOUS
<1> USE DEF vars, pins, host, control, gui, history
<1>1. /\ \A y \in Proxies : /\ Busy(y)' = Busy(y) /\ Going(y)' = Going(y)
                            /\ Adding(y)' <=> Adding(y)
                            /\ Announced(y)' <=> Announced(y)
                            /\ Unobserved(y)' <=> Unobserved(y)
      /\ \A q : Ending(q)' <=> Ending(q)
  BY ControlRests
<1>2. /\ Awaits' /\ CalledOnce' /\ AddsFirst'
      /\ \A y \in Proxies : AddQueued(y)' <=> AddQueued(y)
  BY QueueRests
<1>3. \A y \in Proxies : Kept(y)
  BY <1>1, <1>2 DEF Kept, Alive, AddPending
<1>4. TypeOK'
  BY DEF IInv, TypeOK, Made
<1>5. Tasks'
  BY DEF IInv, Tasks, Made
<1>6. Endings'
  BY <1>1, EndingsStand
<1>7. \A q \in Pins \ disturbed' : Dropped(q)'
  <2> TAKE q \in Pins \ disturbed'
  <2>1. Ended(q)' => Ended(q)
    BY DEF Ended
  <2> QED BY <1>1, <1>2, <2>1, DroppedStands DEF AddPending
<1> QED BY <1>2, <1>3, <1>4, <1>5, <1>6, <1>7, ProxiesStand, Together

LEMMA NextIInv == IInv /\ [Next]_vars => IInv'
<1> SUFFICES ASSUME IInv, [Next]_vars PROVE IInv'
  OBVIOUS
<1>1. CASE MainStep
  BY <1>1, AddProxyPinKeeps, NotifyProxyRemovedKeeps, RemoveObserversKeeps, NotifyPinRemovedKeeps,
     NotifyReleaseKeeps, UnregisterProxyOnMainKeeps, UnregisterPinOnMainKeeps, DeallocOnMainKeeps,
     ProxyPinOnMainKeeps DEF MainStep
<1>2. ASSUME NEW w \in Workers, WorkerStep(w) PROVE IInv'
  BY <1>2, ProxyPinKeeps, QueueAddKeeps, UnregisterProxyKeeps, UnregisterPinKeeps, DeallocKeeps,
     AskRemoveObserversKeeps, DetachProxyKeeps, DetachPinKeeps, FreeKeeps DEF WorkerStep
<1>3. CASE UNCHANGED vars
  BY <1>3, StutterKeeps
<1> QED BY <1>1, <1>2, <1>3 DEF Next

LEMMA Invariant == Spec => []IInv
BY InitIInv, NextIInv, PTL DEF Spec

\* The variables keep their types: in particular no registration as an observer is made that is
\* not for a proxy, and the children are proxies that know their pin.
THEOREM TypeCorrect == Spec => []TypeOK
<1>1. IInv => TypeOK
  BY DEF IInv
<1> QED BY <1>1, Invariant, PTL

\* When a pin has been freed, the proxies it still has among the children are being unregistered,
\* unless the pin has a history: neither the thread that frees a pin nor the order in which the
\* main thread serves the queue can leave a dangling proxy.
THEOREM NoProxyDangles == Spec => []NoDanglingProxy
<1>1. ASSUME IInv, NEW x \in children, realPin[x] \in freed, realPin[x] \notin disturbed
      PROVE  Busy(x) # {}
  <2>1. x \in Proxies /\ realPin[x] \in Pins
    BY <1>1 DEF IInv, TypeOK, Made
  <2>2. Unobserved(x)
    BY <1>1, <2>1 DEF IInv, Undisturbed, Dropped, Ended
  <2> QED BY <2>2 DEF Unobserved, Busy
<1>2. IInv => NoDanglingProxy
  BY <1>1 DEF NoDanglingProxy
<1> QED BY <1>2, Invariant, PTL

LEMMA QuietRests ==
  ASSUME Quiet
  PROVE  \A x : ~AddPending(x) /\ ~Announced(x) /\ ~Unobserved(x)
BY DEF Quiet, AddPending, Adding, AddQueued, Busy, Announced, Unobserved, GoingSteps

\* When the main thread has caught up, a pin without a history is observed once for its proxy, or
\* not at all.
THEOREM ObservationsMatch == Spec => []ObservedIffProxied
<1>1. ASSUME IInv, Quiet, NEW p \in Pins \ disturbed
      PROVE  observers[p] = Cardinality(ProxiesOf(p))
  <2>1. Single(p) /\ Observed(p) /\ ProxiesOf(p) \subseteq Proxies
    BY <1>1 DEF IInv, TypeOK, Made, Undisturbed, ProxiesOf
  <2>2. observers[p] = IF ProxiesOf(p) # {} THEN 1 ELSE 0
    BY <1>1, <2>1, QuietRests DEF Observed
  <2>3. CASE ProxiesOf(p) = {}
    BY <2>2, <2>3, FS_EmptySet
  <2>4. CASE ProxiesOf(p) # {}
    <3>1. PICK x : x \in ProxiesOf(p)
      BY <2>4
    <3>2. ProxiesOf(p) = {x}
      BY <2>1, <3>1 DEF Single, Alive, ProxiesOf
    <3> QED BY <2>2, <2>4, <3>2, FS_Singleton
  <2> QED BY <2>3, <2>4
<1>2. IInv => ObservedIffProxied
  BY <1>1 DEF ObservedIffProxied
<1> QED BY <1>2, Invariant, PTL

\* When the main thread has caught up, the GUI shows the proxies of the pins without a history
\* that the host has, and no others.
THEOREM GuiCatchesUp == Spec => []GuiAgrees
<1>1. ASSUME IInv, Quiet, NEW x \in Proxies, realPin[x] \notin disturbed
      PROVE  x \in shown <=> x \in children
  <2>1. CASE x \in Made
    <3>1. realPin[x] \in Pins
      BY <1>1, <2>1 DEF IInv, TypeOK, Made
    <3> QED BY <1>1, <3>1, QuietRests DEF IInv, Undisturbed, Shown
  <2>2. CASE x \notin Made
    BY <1>1, <2>2 DEF IInv, TypeOK, Kinds
  <2> QED BY <2>1, <2>2
<1>2. IInv => GuiAgrees
  BY <1>1 DEF GuiAgrees
<1> QED BY <1>2, Invariant, PTL

\* unregisterPin: of a proxy and the end of its pin never both announce its removal, as long as no
\* two threads remove it at once.
THEOREM AnnouncedOnce == Spec => []RemovedOnce
<1>1. ASSUME IInv, NEW x \in Proxies, x \notin overlapped PROVE ~(removals[x] > 1)
  BY <1>1 DEF IInv, Removals
<1>2. IInv => RemovedOnce
  BY <1>1 DEF RemovedOnce
<1> QED BY <1>2, Invariant, PTL
=============================================================================
