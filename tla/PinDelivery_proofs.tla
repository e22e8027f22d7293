------------------------- MODULE PinDelivery_proofs -------------------------
(***************************************************************************)
(* Proofs about PinDelivery, for any pins, threads and number of writes.   *)
(***************************************************************************)
EXTENDS PinDelivery, FiniteSetTheorems, TLAPS

-----------------------------------------------------------------------------
(***************************************************************************)
(* The inductive invariant.                                                *)
(***************************************************************************)
DeliverSteps == {"take", "store", "bump", "drop", "post"}
Delivering(t) == pc[t] \in DeliverSteps

\* Who can be where, and on which pin.
Roles ==
  /\ Attached \subseteq receivers
  /\ \A t \in Writers : pin[t] = Out /\ pc[t] \in DeliverSteps \cup {"idle"}
  /\ \A t \in Connectors :
       /\ pc[t] \in DeliverSteps \cup {"idle", "read", "fetch", "retain"}
       /\ pc[t] # "idle" => pin[t] \in receivers \ Attached
  /\ \A w \in Workers :
       /\ pc[w] \in DeliverSteps \cup {"idle", "fanLock", "fan", "call"}
       /\ Delivering(w) \/ At(w, "call") => pin[w] \in Inputs
  /\ \A t \in Threads : Delivering(t) => data[t] \in Values

\* w is in its fan-out.  It has the lock then, and nobody else is.
Fanning(w) == Delivering(w) \/ At(w, "fan")
OneFan == \A w \in Workers : Fanning(w) => receiversLock /\ \A u \in Workers : Fanning(u) => u = w

\* What a delivery knows of its pin, as long as deliveries to it have not overlapped.
Undisturbed(t, p) ==
  /\ next[t] = NextOffset(p)
  /\ data[t] = last[p]
  /\ At(t, "store") => old[t] = dataBuffer[p][next[t]]
  /\ At(t, "bump") => dataBuffer[p][next[t]] = data[t]
  /\ \A u \in Threads : Storing(u, p) => u = t
Slots == \A p \in Pins : \A t \in Threads : ~overlapped[p] /\ Storing(t, p) => Undisturbed(t, p)

\* v is what some writer is about to release.
Dropping(v) == \E x \in Writers : old[x] = v /\ pc[x] \in {"bump", "drop"}

\* With one writer, a reader still finds what it has seen in the slot, until the writer has
\* come round to that slot; and then the writer has yet to release it.
InOrder ==
  OneWriter =>
    /\ ~overlapped[Out]
    /\ \A t \in Connectors :
         LET slot == dataBuffer[Out][next[t]] IN
         /\ Reading(t) /\ laps[t] = 0 => offset[Out] = next[t] \/ \E x \in Writers : At(x, "drop")
         /\ At(t, "retain") /\ laps[t] = 0 => slot = data[t]
         /\ At(t, "retain") /\ laps[t] = 1 => slot = data[t] \/ Dropping(data[t])

\* Value v is on its way to receiver i: written but not queued, queued, or in a fan-out that
\* has not come to i.
Queued(v) ==
  \E w \in Workers : \E k \in 1 .. Len(queue[w]) : queue[w][k] = [pin |-> Out, data |-> v]
Served(i, v) ==
  \E w \in Workers : signal[w] = v /\ (At(w, "fanLock") \/ (Fanning(w) /\ i \in todo[w]))
Written(v) == \E x \in Writers : Delivering(x) /\ data[x] = v
\* A thread that connects i is going to read v, or has read it.
Read(i, v) ==
  \E c \in Connectors :
    /\ pin[c] = i
    /\ \/ At(c, "read")
       \/ At(c, "fetch") /\ dataBuffer[Out][next[c]] = v
       \/ At(c, "retain") /\ data[c] = v

Comes(i, v) == Written(v) \/ Queued(v) \/ Served(i, v) \/ Read(i, v)

\* With one writer, the newest value has come to every receiver or is on its way.
Newest ==
  OneWriter /\ owned[Out] =>
    \A i \in receivers :
      \/ last[Out] \notin Accepts[i]
      \/ got[i][last[Out]] > 0
      \/ last[Out] = Initial /\ i \in Attached
      \/ Comes(i, last[Out])
IInv == /\ TypeOK /\ Roles /\ OneFan /\ Slots /\ LastDelivered /\ RetainsBalance
        /\ FanOutsDoNotOverlap /\ InOrder /\ Newest

USE DeliveryAssumption DEF DeliveryAssumption, Threads, Pins, Values, Nil, DeliverSteps

-----------------------------------------------------------------------------
(***************************************************************************)
(* Constants and counts.                                                   *)
(***************************************************************************)
LEMMA InitialType ==
  Initial \in 0 .. MaxWrites
BY DEF Initial

LEMMA AcceptedAreValues ==
  ASSUME NEW p \in Pins, NEW v \in Accepts[p]
  PROVE  v \in Values
OBVIOUS

\* The other slot of two.
LEMMA OtherSlot ==
  ASSUME NEW n \in 0 .. 1
  PROVE  (n + 1) % 2 = 1 - n
<1>1. n = 0 \/ n = 1
  OBVIOUS
<1> QED BY <1>1

LEMMA NextIsOther ==
  ASSUME IInv, NEW p \in Pins
  PROVE  /\ NextOffset(p) = 1 - offset[p] /\ NextOffset(p) \in 0 .. 1
         /\ NextOffset(p) = (offset[p] + 1) % 2
<1>1. offset[p] \in 0 .. 1
  BY DEF IInv, TypeOK
<1> QED BY <1>1, OtherSlot DEF NextOffset

LEMMA FiniteThreads ==
  IsFiniteSet(Threads)
BY FS_Union

\* The threads that will release v for p.
Releasers(p, v) ==
  {t \in Threads : /\ pin[t] = p
                   /\ pc[t] \in {"bump", "drop"}
                   /\ old[t] = v}

LEMMA ReleasersCount ==
  ASSUME NEW p, NEW v
  PROVE  /\ Pending(p, v) = Cardinality(Releasers(p, v))
         /\ IsFiniteSet(Releasers(p, v))
         /\ Pending(p, v) \in Nat
<1>1. Pending(p, v) = Cardinality(Releasers(p, v))
  BY DEF Pending, Releasers
<1>2. IsFiniteSet(Releasers(p, v))
  BY FiniteThreads, FS_Subset DEF Releasers
<1> QED BY <1>1, <1>2, FS_CardinalityType

\* A pin has two slots.
LEMMA TwoSlots ==
  ASSUME NEW f, NEW v
  PROVE  Cardinality({s \in 0 .. 1 : f[s] = v})
         = (IF f[0] = v THEN 1 ELSE 0) + (IF f[1] = v THEN 1 ELSE 0)
<1> DEFINE S == {s \in 0 .. 1 : f[s] = v}
<1>1. CASE f[0] = v /\ f[1] = v
  <2>1. S = {0} \cup {1}
    BY <1>1
  <2>2. 1 \notin {0}
    OBVIOUS
  <2>3. IsFiniteSet({0}) /\ Cardinality({0}) = 1
    BY FS_Singleton, Zenon
  <2> HIDE DEF S
  <2>4. Cardinality({0} \cup {1}) = Cardinality({0}) + 1
    BY <2>2, <2>3, FS_AddElement, Zenon
  <2>5. 1 + 1 = 2
    OBVIOUS
  <2>6. Cardinality(S) = 2
    BY <2>1, <2>3, <2>4, <2>5, Zenon
  <2> QED BY <1>1, <2>6 DEF S
<1>2. CASE f[0] = v /\ f[1] # v
  <2>1. S = {0}
    BY <1>2
  <2>2. Cardinality(S) = 1
    BY <2>1, FS_Singleton
  <2> QED BY <1>2, <2>2
<1>3. CASE f[0] # v /\ f[1] = v
  <2>1. S = {1}
    BY <1>3
  <2>2. Cardinality(S) = 1
    BY <2>1, FS_Singleton
  <2> QED BY <1>3, <2>2
<1>4. CASE f[0] # v /\ f[1] # v
  <2>1. S = {}
    BY <1>4
  <2>2. Cardinality(S) = 0
    BY <2>1, FS_EmptySet
  <2> QED BY <1>4, <2>2
<1> QED BY <1>1, <1>2, <1>3, <1>4

LEMMA PlacesCount ==
  ASSUME NEW p, NEW v
  PROVE  /\ Places(p, v) = (IF dataBuffer[p][0] = v THEN 1 ELSE 0)
                         + (IF dataBuffer[p][1] = v THEN 1 ELSE 0)
         /\ Places(p, v)' = (IF dataBuffer'[p][0] = v THEN 1 ELSE 0)
                          + (IF dataBuffer'[p][1] = v THEN 1 ELSE 0)
<1> DEFINE f == dataBuffer[p]
           g == dataBuffer'[p]
<1>1. /\ Places(p, v) = Cardinality({s \in 0 .. 1 : f[s] = v})
      /\ Places(p, v)' = Cardinality({s \in 0 .. 1 : g[s] = v})
  BY DEF Places
<1> HIDE DEF f, g
<1>2. /\ Places(p, v) = (IF f[0] = v THEN 1 ELSE 0) + (IF f[1] = v THEN 1 ELSE 0)
      /\ Places(p, v)' = (IF g[0] = v THEN 1 ELSE 0) + (IF g[1] = v THEN 1 ELSE 0)
  BY <1>1, TwoSlots
<1> QED BY <1>2 DEF f, g

-----------------------------------------------------------------------------
(***************************************************************************)
(* What a step of one thread leaves alone.                                 *)
(***************************************************************************)
Others(t) ==
  \A u \in Threads \ {t} :
    pc'[u] = pc[u] /\ pin'[u] = pin[u] /\ data'[u] = data[u] /\ next'[u] = next[u] /\ old'[u] = old[u]

\* The balance is about the slots, the retains and the threads that have to release.
LEMMA BalanceStands ==
  ASSUME IInv, UNCHANGED <<dataBuffer, retains>>,
         \A p \in Pins : overlapped[p] => overlapped'[p],
         \A u \in Threads : /\ pc'[u] \in {"bump", "drop"} <=> pc[u] \in {"bump", "drop"}
                            /\ pc[u] \in {"bump", "drop"} => pin'[u] = pin[u] /\ old'[u] = old[u]
  PROVE  RetainsBalance'
<1> SUFFICES ASSUME NEW p \in Pins, NEW v \in Values, ~overlapped'[p]
             PROVE  retains'[p][v] = Places(p, v)' + Pending(p, v)'
  BY DEF RetainsBalance
<1>1. Releasers(p, v)' = Releasers(p, v)
  BY DEF Releasers
<1>2. Pending(p, v)' = Pending(p, v) /\ Places(p, v)' = Places(p, v)
  BY <1>1 DEF Pending, Places, Releasers
<1> QED BY <1>2 DEF IInv, RetainsBalance

\* A thread that is not between the load of the offset and the release.
LEMMA BystanderKeeps ==
  ASSUME IInv, NEW t \in Threads, Others(t), UNCHANGED <<bufVars, last, overlapped>>,
         pc[t] \notin {"take", "store", "bump", "drop"},
         pc'[t] \notin {"take", "store", "bump", "drop"}
  PROVE  Slots' /\ LastDelivered' /\ RetainsBalance' /\ FanOutsDoNotOverlap'
<1> USE DEF Others, bufVars
<1>1. \A u \in Threads, p \in Pins : Storing(u, p)' <=> Storing(u, p)
  BY DEF Storing
<1>2. Slots'
  BY <1>1 DEF IInv, Slots, Undisturbed, Storing, NextOffset, At
<1>3. LastDelivered'
  BY <1>1 DEF IInv, LastDelivered
<1>4. RetainsBalance'
  BY BalanceStands
<1>5. FanOutsDoNotOverlap'
  BY DEF IInv, FanOutsDoNotOverlap
<1> QED BY <1>2, <1>3, <1>4, <1>5

\* Readers see the steps of the writers only.
LEMMA ReadersStand ==
  ASSUME IInv, NEW w \in Workers, Others(w), offset'[Out] = offset[Out],
         dataBuffer'[Out] = dataBuffer[Out], overlapped'[Out] = overlapped[Out], laps' = laps
  PROVE  InOrder'
BY DEF IInv, Others, InOrder, OneWriter, Dropping, Reading, At

\* Only writers deliver to the output pin.
LEMMA OnlyWritersStore ==
  ASSUME IInv, NEW t \in Threads, Storing(t, Out)
  PROVE  t \in Writers
<1>1. receivers \subseteq Inputs /\ Roles
  BY DEF IInv, TypeOK
<1>2. Delivering(t) /\ pin[t] = Out
  BY DEF Storing, Delivering
<1>3. t \notin Connectors
  BY <1>1, <1>2 DEF Roles, Delivering
<1>4. t \notin Workers
  BY <1>1, <1>2 DEF Roles
<1> QED BY <1>3, <1>4

\* Newest stands if every value that was on its way is on its way or has come.
LEMMA NewestStands ==
  ASSUME IInv, UNCHANGED <<got, last, owned, receivers>>,
         OneWriter => \A i \in receivers : Comes(i, last[Out]) => Comes(i, last[Out])'
  PROVE  Newest'
BY DEF IInv, Newest, Comes, OneWriter

LEMMA InitIInv == Init => IInv
<1> SUFFICES ASSUME Init PROVE IInv
  OBVIOUS
<1> USE InitialType DEF Init
<1>1. TypeOK
  <2>1. pc \in [Threads -> Steps] /\ laps \in [Connectors -> Nat]
    BY DEF Steps
  <2>2. queue \in [Workers -> Seq(Signals)]
    OBVIOUS
  <2>3. retains \in [Pins -> [Values -> Int]]
    OBVIOUS
  <2>4. dataBuffer \in [Pins -> [0 .. 1 -> Values \cup {Nil}]]
    OBVIOUS
  <2>5. written \in 0 .. MaxWrites /\ last \in [Pins -> Values \cup {Nil}]
    OBVIOUS
  <2>6. /\ pin \in [Threads -> Pins] /\ data \in [Threads -> Values \cup {Nil}]
        /\ next \in [Threads -> 0 .. 1] /\ old \in [Threads -> Values \cup {Nil}]
    OBVIOUS
  <2>7. todo \in [Threads -> SUBSET Inputs] /\ signal \in [Threads -> Values \cup {Nil}]
    OBVIOUS
  <2>8. got \in [Inputs -> [Values -> Nat]] /\ told \in [Inputs -> [Values -> Nat]]
    OBVIOUS
  <2>9. /\ offset \in [Pins -> 0 .. 1] /\ owned \in [Pins -> BOOLEAN]
        /\ overlapped \in [Pins -> BOOLEAN]
    OBVIOUS
  <2>10. receivers \in SUBSET Inputs /\ receiversLock \in BOOLEAN
    OBVIOUS
  <2> HIDE DEF Init
  <2> QED BY <2>1, <2>2, <2>3, <2>4, <2>5, <2>6, <2>7, <2>8, <2>9, <2>10 DEF TypeOK
<1>2. Roles
  BY DEF Roles, Delivering, At
<1>3. OneFan
  BY DEF OneFan, Fanning, Delivering, At
<1>4. Slots
  BY DEF Slots, Storing
<1>5. LastDelivered
  BY DEF LastDelivered
<1>6. RetainsBalance
  <2> SUFFICES ASSUME NEW p \in Pins, NEW v \in Values
               PROVE  retains[p][v] = Places(p, v) + Pending(p, v)
    BY DEF RetainsBalance
  <2>1. Releasers(p, v) = {}
    BY DEF Releasers
  <2>2. Pending(p, v) = 0
    BY <2>1, ReleasersCount, FS_EmptySet
  <2>3. /\ retains[p][v] = IF p = Out /\ v = Initial THEN 1 ELSE 0
        /\ dataBuffer[p][0] = IF p = Out THEN Initial ELSE Nil
        /\ dataBuffer[p][1] = Nil
    OBVIOUS
  <2> HIDE DEF Init
  <2> QED BY <2>2, <2>3, PlacesCount
<1>7. FanOutsDoNotOverlap
  BY DEF FanOutsDoNotOverlap
<1>8. InOrder
  BY DEF InOrder, Reading, At
<1>9. Newest
  BY DEF Newest
<1> QED BY <1>1, <1>2, <1>3, <1>4, <1>5, <1>6, <1>7, <1>8, <1>9 DEF IInv

-----------------------------------------------------------------------------
(***************************************************************************)
(* The beginning of a delivery.                                            *)
(***************************************************************************)
LEMMA DeliverTypes ==
  ASSUME IInv, NEW t \in Threads, NEW p \in Pins, NEW v \in Values \cup {Nil}, Deliver(t, p, v)
  PROVE  /\ pc' \in [Threads -> Steps] /\ pin' \in [Threads -> Pins]
         /\ data' \in [Threads -> Values \cup {Nil}] /\ next' \in [Threads -> 0 .. 1]
         /\ got' \in [Inputs -> [Values -> Nat]] /\ last' \in [Pins -> Values \cup {Nil}]
         /\ overlapped' \in [Pins -> BOOLEAN]
<1>0. /\ pc \in [Threads -> Steps] /\ pin \in [Threads -> Pins]
      /\ data \in [Threads -> Values \cup {Nil}] /\ next \in [Threads -> 0 .. 1]
      /\ last \in [Pins -> Values \cup {Nil}]
  BY DEF IInv, TypeOK
<1>1. CASE v \in Accepts[p]
  <2>1. v \in Values /\ NextOffset(p) \in 0 .. 1
    BY <1>1, NextIsOther
  <2>2. pc' \in [Threads -> Steps] /\ pin' \in [Threads -> Pins]
    BY <1>0, <1>1 DEF Deliver, Goto, Steps
  <2>3. data' \in [Threads -> Values \cup {Nil}] /\ next' \in [Threads -> 0 .. 1]
    BY <1>0, <1>1, <2>1 DEF Deliver
  <2>4. got' \in [Inputs -> [Values -> Nat]]
    <3>1. CASE p \in Inputs
      <4>1. got \in [Inputs -> [Values -> Nat]] /\ got[p] \in [Values -> Nat]
        BY <3>1 DEF IInv, TypeOK
      <4>2. [got[p] EXCEPT ![v] = @ + 1] \in [Values -> Nat]
        BY <2>1, <4>1
      <4>3. got' = [got EXCEPT ![p] = [got[p] EXCEPT ![v] = @ + 1]]
        BY <1>1, <3>1, <4>1 DEF Deliver
      <4> QED BY <4>1, <4>2, <4>3
    <3>2. CASE p \notin Inputs
      BY <1>1, <3>2 DEF IInv, TypeOK, Deliver
    <3> QED BY <3>1, <3>2
  <2>5. last' \in [Pins -> Values \cup {Nil}]
    BY <1>0, <1>1, <2>1 DEF Deliver
  <2>6. overlapped' \in [Pins -> BOOLEAN]
    BY <1>1 DEF IInv, TypeOK, Deliver
  <2> QED BY <2>2, <2>3, <2>4, <2>5, <2>6
<1>2. CASE v \notin Accepts[p]
  <2>1. pc' \in [Threads -> Steps] /\ pin' \in [Threads -> Pins]
    BY <1>0, <1>2 DEF Deliver, Leave, Goto, Home, Steps
  <2>2. data' \in [Threads -> Values \cup {Nil}] /\ next' \in [Threads -> 0 .. 1]
    BY <1>0, <1>2 DEF Deliver, Leave
  <2> QED BY <1>2, <2>1, <2>2 DEF IInv, TypeOK, Deliver
<1> QED BY <1>1, <1>2

LEMMA Accepted ==
  ASSUME IInv, NEW t \in Threads, NEW p \in Pins, NEW v \in Accepts[p], Deliver(t, p, v), old' = old
  PROVE  /\ v \in Values /\ Others(t)
         /\ pc'[t] = "take" /\ pin'[t] = p /\ data'[t] = v /\ next'[t] = NextOffset(p)
         /\ last'[p] = v /\ \A q \in Pins \ {p} : last'[q] = last[q]
         /\ overlapped'[p] <=> overlapped[p] \/ \E u \in Threads \ {t} : Storing(u, p)
         /\ \A q \in Pins \ {p} : overlapped'[q] = overlapped[q]
         /\ p \in Inputs => got'[p][v] = got[p][v] + 1
         /\ \A i \in Inputs, x \in Values : i # p \/ x # v => got'[i][x] = got[i][x]
<1>1. /\ v \in Values /\ Others(t)
      /\ pc'[t] = "take" /\ pin'[t] = p /\ data'[t] = v /\ next'[t] = NextOffset(p)
      /\ last'[p] = v /\ \A q \in Pins \ {p} : last'[q] = last[q]
      /\ \A q \in Pins \ {p} : overlapped'[q] = overlapped[q]
  BY DEF Deliver, Goto, IInv, TypeOK, Others
<1>2. overlapped'[p] <=> overlapped[p] \/ \E u \in Threads \ {t} : Storing(u, p)
  BY DEF Deliver, IInv, TypeOK
<1>3. p \in Inputs => got'[p][v] = got[p][v] + 1
  BY <1>1 DEF Deliver, IInv, TypeOK
<1>4. ASSUME NEW i \in Inputs, NEW x \in Values, i # p \/ x # v PROVE got'[i][x] = got[i][x]
  <2>1. got[i] \in [Values -> Nat] /\ got \in [Inputs -> [Values -> Nat]]
    BY DEF IInv, TypeOK
  <2>2. CASE p \in Inputs
    <3>1. got' = [got EXCEPT ![p] = [got[p] EXCEPT ![v] = @ + 1]]
      BY <2>1, <2>2 DEF Deliver
    <3> QED BY <1>4, <2>1, <2>2, <3>1
  <2>3. CASE p \notin Inputs
    BY <2>3 DEF Deliver
  <2> QED BY <2>2, <2>3
<1> QED BY <1>1, <1>2, <1>3, <1>4

LEMMA Rejected ==
  ASSUME IInv, NEW t \in Threads, NEW p \in Pins, NEW v, v \notin Accepts[p], Deliver(t, p, v),
         old' = old
  PROVE  /\ Others(t) /\ UNCHANGED <<got, last, overlapped>>
         /\ pc'[t] = Home(t) /\ pin'[t] = Out /\ data'[t] = Nil
BY DEF Deliver, Leave, Goto, IInv, TypeOK, Others

\* A delivery begins.
LEMMA StartKeeps ==
  ASSUME IInv, NEW t \in Threads, NEW p \in Pins, NEW v \in Values \cup {Nil}, Deliver(t, p, v),
         UNCHANGED <<bufVars, old>>, ~Delivering(t)
  PROVE  Slots' /\ LastDelivered' /\ RetainsBalance'
<1> USE DEF bufVars
<1>1. CASE v \in Accepts[p]
  <2>0. /\ Others(t) /\ pc'[t] = "take" /\ pin'[t] = p /\ data'[t] = v /\ next'[t] = NextOffset(p)
        /\ last'[p] = v /\ \A q \in Pins \ {p} : last'[q] = last[q]
        /\ overlapped'[p] <=> overlapped[p] \/ \E u \in Threads \ {t} : Storing(u, p)
        /\ \A q \in Pins \ {p} : overlapped'[q] = overlapped[q]
    BY <1>1, Accepted
  <2>1. Storing(t, p)' /\ ~Storing(t, p)
    BY <2>0 DEF Storing, Delivering
  <2>2. \A u \in Threads, q \in Pins : u # t \/ q # p => (Storing(u, q)' <=> Storing(u, q))
    BY <2>0 DEF Storing, Others, Delivering
  <2>3. Slots'
    <3> SUFFICES ASSUME NEW q \in Pins, NEW u \in Threads, ~overlapped'[q], Storing(u, q)'
                 PROVE  Undisturbed(u, q)'
      BY DEF Slots
    <3>1. CASE q = p
      <4>1. u = t /\ \A s \in Threads : Storing(s, q)' => s = t
        BY <2>0, <2>2, <3>1
      <4> QED BY <2>0, <3>1, <4>1 DEF Undisturbed, NextOffset, At
    <3>2. CASE q # p
      <4>1. Storing(u, q) /\ u # t /\ Undisturbed(u, q) /\ last'[q] = last[q]
        BY <2>0, <2>2, <3>2 DEF IInv, Slots, Storing
      <4> QED BY <2>0, <2>2, <3>2, <4>1 DEF Undisturbed, NextOffset, At, Others
    <3> QED BY <3>1, <3>2
  <2>4. LastDelivered'
    <3> SUFFICES ASSUME NEW q \in Pins, ~overlapped'[q], \A u \in Threads : ~Storing(u, q)'
                 PROVE  dataBuffer'[q][offset'[q]] = last'[q]
      BY DEF LastDelivered
    <3>1. q # p
      BY <2>1
    <3>2. ~overlapped[q] /\ \A u \in Threads : ~Storing(u, q)
      BY <2>0, <2>2, <3>1
    <3> QED BY <2>0, <3>1, <3>2 DEF IInv, LastDelivered
  <2>5. RetainsBalance'
    BY <2>0, BalanceStands DEF Others, Delivering
  <2> QED BY <2>3, <2>4, <2>5
<1>2. CASE v \notin Accepts[p]
  <2>1. /\ Others(t) /\ UNCHANGED <<got, last, overlapped>> /\ pc'[t] \in {"fan", "idle"}
    BY <1>2, Rejected DEF Home
  <2> QED BY <2>1, BystanderKeeps DEF Delivering
<1> QED BY <1>1, <1>2

-----------------------------------------------------------------------------
(***************************************************************************)
(* The steps of a delivery.                                                *)
(***************************************************************************)
LEMMA TakeOldKeeps ==
  ASSUME IInv, NEW t \in Threads, TakeOld(t)
  PROVE  IInv'
<1> USE DEF TakeOld, At, Goto, bufVars, linkVars, history
<1>0. /\ pc[t] = "take" /\ pc'[t] = "store" /\ old'[t] = dataBuffer[pin[t]][next[t]] /\ Others(t)
      /\ UNCHANGED <<bufVars, linkVars, queue, pin, data, next, todo, signal, history>>
  BY DEF IInv, TypeOK, Others
<1>1. TypeOK'
  <2>1. dataBuffer[pin[t]][next[t]] \in Values \cup {Nil}
    <3>1. /\ dataBuffer \in [Pins -> [0 .. 1 -> Values \cup {Nil}]]
          /\ pin[t] \in Pins /\ next[t] \in 0 .. 1
      BY DEF IInv, TypeOK
    <3> HIDE DEF TakeOld, Pins, Values
    <3> QED BY <3>1
  <2>2. pc' \in [Threads -> Steps] /\ old' \in [Threads -> Values \cup {Nil}]
    BY <2>1 DEF IInv, TypeOK, Steps
  <2> QED BY <1>0, <2>2 DEF IInv, TypeOK, Signals
<1> HIDE DEF TakeOld, Goto
<1>2. Roles'
  BY <1>0 DEF IInv, Roles, Delivering, Others
<1>3. OneFan'
  BY <1>0 DEF IInv, OneFan, Fanning, Delivering, Others
<1>4. Slots'
  BY <1>0 DEF IInv, Slots, Undisturbed, Storing, NextOffset, Others
<1>5. LastDelivered'
  BY <1>0 DEF IInv, LastDelivered, Storing, Others
<1>6. RetainsBalance'
  BY <1>0, BalanceStands DEF Others
<1>7. FanOutsDoNotOverlap'
  BY <1>0 DEF IInv, FanOutsDoNotOverlap
<1>8. InOrder'
  BY <1>0 DEF IInv, InOrder, OneWriter, Dropping, Reading, Roles, Others
<1>9. Newest'
  BY <1>0, NewestStands DEF Comes, Written, Queued, Served, Read, Fanning, Delivering, Others
<1> QED BY <1>1, <1>2, <1>3, <1>4, <1>5, <1>6, <1>7, <1>8, <1>9 DEF IInv

LEMMA StoreKeeps ==
  ASSUME IInv, NEW t \in Threads, Store(t)
  PROVE  IInv'
<1> USE DEF Store, At, Goto, bufVars, linkVars, history
<1> DEFINE p == pin[t]
           v == data[t]
<1>0. /\ pc[t] = "store" /\ pc'[t] = "bump" /\ Others(t) /\ Storing(t, p)
      /\ p \in Pins /\ v \in Values /\ next[t] \in 0 .. 1
      /\ dataBuffer'[p][next[t]] = v /\ dataBuffer'[p][1 - next[t]] = dataBuffer[p][1 - next[t]]
      /\ \A q \in Pins \ {p} : dataBuffer'[q] = dataBuffer[q] /\ retains'[q] = retains[q]
      /\ retains'[p][v] = retains[p][v] + 1
      /\ \A x \in Values \ {v} : retains'[p][x] = retains[p][x]
      /\ UNCHANGED <<offset, linkVars, queue, pin, data, next, old, todo, signal, history>>
  BY DEF IInv, TypeOK, Roles, Delivering, Others, Storing
<1>1. TypeOK'
  <2>1. pc' \in [Threads -> Steps]
    BY DEF IInv, TypeOK, Steps
  <2>2. dataBuffer' \in [Pins -> [0 .. 1 -> Values \cup {Nil}]]
    BY <1>0 DEF IInv, TypeOK
  <2>3. retains' \in [Pins -> [Values -> Int]]
    BY <1>0 DEF IInv, TypeOK
  <2> HIDE DEF Store, Goto, p, v
  <2> QED BY <1>0, <2>1, <2>2, <2>3 DEF IInv, TypeOK, Signals
<1> HIDE DEF Store, Goto
<1>2. Roles'
  BY <1>0 DEF IInv, Roles, Delivering, Others
<1>3. OneFan'
  BY <1>0 DEF IInv, OneFan, Fanning, Delivering, Others
<1>4. Slots'
  <2> SUFFICES ASSUME NEW q \in Pins, NEW u \in Threads, ~overlapped[q], Storing(u, q)'
               PROVE  Undisturbed(u, q)'
    BY <1>0 DEF Slots
  <2>1. Storing(u, q) /\ Undisturbed(u, q) /\ \A s \in Threads : Storing(s, q)' <=> Storing(s, q)
    BY <1>0 DEF IInv, Slots, Storing, Others
  <2>2. CASE u = t
    BY <1>0, <2>1, <2>2 DEF Undisturbed, NextOffset, Storing
  <2>3. CASE u # t
    <3>1. q # p
      BY <1>0, <2>1, <2>3 DEF Undisturbed
    <3> QED BY <1>0, <2>1, <2>3, <3>1 DEF Undisturbed, NextOffset, Others
  <2> QED BY <2>2, <2>3
<1>5. LastDelivered'
  <2>1. \A u \in Threads, q \in Pins : Storing(u, q)' <=> Storing(u, q)
    BY <1>0 DEF Storing, Others
  <2> QED BY <1>0, <2>1 DEF IInv, LastDelivered
<1>6. RetainsBalance'
  <2> SUFFICES ASSUME NEW q \in Pins, NEW x \in Values, ~overlapped[q]
               PROVE  retains'[q][x] = Places(q, x)' + Pending(q, x)'
    BY <1>0 DEF RetainsBalance
  <2>0. retains[q][x] = Places(q, x) + Pending(q, x) /\ Pending(q, x) \in Nat
    BY ReleasersCount DEF IInv, RetainsBalance
  <2>1. CASE q # p
    <3>1. Releasers(q, x)' = Releasers(q, x)
      BY <1>0, <2>1 DEF Releasers, Others
    <3>2. Pending(q, x)' = Pending(q, x)
      BY <3>1 DEF Pending, Releasers
    <3>3. Places(q, x)' = Places(q, x)
      BY <1>0, <2>1, PlacesCount
    <3> QED BY <1>0, <2>0, <2>1, <3>2, <3>3
  <2>2. CASE q = p
    <3>1. old[t] = dataBuffer[p][next[t]] /\ next[t] \in {0, 1}
      BY <1>0, <2>2 DEF IInv, Slots, Undisturbed
    <3>2. Pending(q, x)' = Pending(q, x) + (IF old[t] = x THEN 1 ELSE 0)
      <4>1. Pending(q, x)' = Cardinality(Releasers(q, x)')
        BY DEF Pending, Releasers
      <4>2. CASE old[t] = x
        <5>1. Releasers(q, x)' = Releasers(q, x) \cup {t} /\ t \notin Releasers(q, x)
          BY <1>0, <2>2, <4>2 DEF Releasers, Others
        <5>2. Cardinality(Releasers(q, x) \cup {t}) = Cardinality(Releasers(q, x)) + 1
          BY <5>1, ReleasersCount, FS_AddElement
        <5> QED BY <4>1, <4>2, <5>1, <5>2, ReleasersCount
      <4>3. CASE old[t] # x
        <5>1. Releasers(q, x)' = Releasers(q, x)
          BY <1>0, <2>2, <4>3 DEF Releasers, Others
        <5> QED BY <4>1, <4>3, <5>1, ReleasersCount
      <4> QED BY <4>2, <4>3
    <3>3. Places(q, x)' = Places(q, x) - (IF old[t] = x THEN 1 ELSE 0) + (IF v = x THEN 1 ELSE 0)
      <4>1. CASE next[t] = 0
        BY <1>0, <2>2, <3>1, <4>1, PlacesCount
      <4>2. CASE next[t] = 1
        BY <1>0, <2>2, <3>1, <4>2, PlacesCount
      <4> QED BY <3>1, <4>1, <4>2
    <3>4. retains[p][x] \in Int
      BY <1>0 DEF IInv, TypeOK
    <3>5. retains'[p][x] = retains[p][x] + (IF v = x THEN 1 ELSE 0)
      <4> HIDE DEF p, v
      <4> QED BY <1>0, <3>4
    <3>6. Places(q, x) \in Int
      BY PlacesCount
    <3> HIDE DEF p, v
    <3> QED BY <2>0, <2>2, <3>2, <3>3, <3>4, <3>5, <3>6
  <2> QED BY <2>1, <2>2
<1>7. FanOutsDoNotOverlap'
  BY <1>0 DEF IInv, FanOutsDoNotOverlap
<1>8. InOrder'
  <2>1. CASE t \in Writers
    <3> SUFFICES ASSUME OneWriter, NEW c \in Connectors
                 PROVE  /\ ~overlapped[Out]
                        /\ LET slot == dataBuffer'[Out][next[c]] IN
                           /\ At(c, "retain") /\ laps[c] = 0 => slot = data[c]
                           /\ At(c, "retain") /\ laps[c] = 1 => slot = data[c] \/ Dropping(data[c])'
                           /\ Reading(c) /\ laps[c] = 0 => offset[Out] = next[c]
      BY <1>0, <2>1 DEF IInv, InOrder, OneWriter, Reading, Others
    <3>1. ~overlapped[Out] /\ p = Out /\ next[t] = 1 - offset[Out] /\ next[c] \in 0 .. 1
      <4>1. ~overlapped[Out] /\ p = Out
        BY <1>0, <2>1 DEF IInv, InOrder, Roles
      <4>2. next[t] = NextOffset(Out) /\ next[c] \in 0 .. 1
        BY <1>0, <4>1 DEF IInv, TypeOK, Slots, Undisturbed
      <4> QED BY <4>1, <4>2, NextIsOther
    <3>2. old[t] = dataBuffer[Out][next[t]] /\ old'[t] = old[t]
      BY <1>0, <2>1, <3>1 DEF IInv, Slots, Undisturbed
    <3>3. \A x \in Writers : x = t
      BY <2>1 DEF OneWriter
    <3>4. Reading(c) /\ laps[c] = 0 => offset[Out] = next[c]
      BY <1>0, <3>3 DEF IInv, InOrder
    <3>5. ASSUME At(c, "retain"), laps[c] \in {0, 1}
          PROVE  dataBuffer[Out][next[c]] = data[c]
      BY <1>0, <3>3, <3>5 DEF IInv, InOrder, Dropping
    <3>6. next[c] # next[t] => dataBuffer'[Out][next[c]] = dataBuffer[Out][next[c]]
      BY <1>0, <3>1
    <3>7. offset[Out] \in 0 .. 1
      BY DEF IInv, TypeOK
    <3>8. ASSUME At(c, "retain"), laps[c] = 1, next[c] = next[t] PROVE Dropping(data[c])'
      BY <1>0, <2>1, <3>2, <3>5, <3>8 DEF Dropping
    <3> HIDE DEF p, v
    <3> QED BY <3>1, <3>4, <3>5, <3>6, <3>7, <3>8 DEF Reading
  <2>2. CASE t \notin Writers
    <3>1. p # Out
      BY <1>0, <2>2 DEF IInv, Roles, Delivering, TypeOK
    <3> QED BY <1>0, <2>2, <3>1 DEF IInv, InOrder, OneWriter, Dropping, Reading, Others, Roles
  <2> QED BY <2>1, <2>2
<1>9. Newest'
  <2>1. CASE t \in Writers
    <3> SUFFICES ASSUME OneWriter PROVE \A i \in receivers : Comes(i, last[Out])'
      BY <1>0, NewestStands
    <3>1. p = Out /\ data[t] = last[Out]
      BY <1>0, <2>1 DEF IInv, InOrder, Slots, Undisturbed, Roles
    <3> QED BY <1>0, <2>1, <3>1 DEF Comes, Written, Delivering
  <2>2. CASE t \notin Writers
    <3>1. p # Out
      BY <1>0, <2>2 DEF IInv, Roles, Delivering, TypeOK
    <3> QED BY <1>0, <3>1, NewestStands
         DEF Comes, Written, Queued, Served, Read, Fanning, Delivering, Others
  <2> QED BY <2>1, <2>2
<1> QED BY <1>1, <1>2, <1>3, <1>4, <1>5, <1>6, <1>7, <1>8, <1>9 DEF IInv

LEMMA BumpKeeps ==
  ASSUME IInv, NEW t \in Threads, Bump(t)
  PROVE  IInv'
<1> USE DEF Bump, At, Goto, bufVars, linkVars, history
<1> DEFINE p == pin[t]
<1>0. /\ pc[t] = "bump" /\ pc'[t] = "drop" /\ Others(t) /\ Storing(t, p) /\ p \in Pins
      /\ offset'[p] = (offset[p] + 1) % 2
      /\ \A q \in Pins \ {p} : offset'[q] = offset[q]
      /\ UNCHANGED <<dataBuffer, retains, linkVars, queue, pin, data, next, old, todo, signal, history>>
  BY DEF IInv, TypeOK, Others, Storing
<1>1. TypeOK'
  <2>1. pc' \in [Threads -> Steps]
    BY DEF IInv, TypeOK, Steps
  <2>2. (offset[p] + 1) % 2 \in 0 .. 1
    BY <1>0, NextIsOther
  <2>3. offset' \in [Pins -> 0 .. 1]
    BY <1>0, <2>2 DEF IInv, TypeOK
  <2> HIDE DEF Bump, Goto, p
  <2> QED BY <1>0, <2>1, <2>3 DEF IInv, TypeOK, Signals
<1> HIDE DEF Bump, Goto
<1>2. Roles'
  BY <1>0 DEF IInv, Roles, Delivering, Others
<1>3. OneFan'
  BY <1>0 DEF IInv, OneFan, Fanning, Delivering, Others
<1>4. Slots'
  <2> SUFFICES ASSUME NEW q \in Pins, NEW u \in Threads, ~overlapped[q], Storing(u, q)'
               PROVE  Undisturbed(u, q)'
    BY <1>0 DEF Slots
  <2>1. Storing(u, q) /\ Undisturbed(u, q) /\ u # t /\ q # p
    BY <1>0 DEF IInv, Slots, Storing, Undisturbed, Others
  <2> QED BY <1>0, <2>1 DEF Undisturbed, NextOffset, Others, Storing
<1>5. LastDelivered'
  <2> SUFFICES ASSUME NEW q \in Pins, ~overlapped[q], \A u \in Threads : ~Storing(u, q)'
               PROVE  dataBuffer[q][offset'[q]] = last[q]
    BY <1>0 DEF LastDelivered
  <2>1. CASE q = p
    <3>1. next[t] = NextOffset(p) /\ dataBuffer[p][next[t]] = data[t] /\ data[t] = last[p]
      BY <1>0, <2>1 DEF IInv, Slots, Undisturbed
    <3> QED BY <1>0, <2>1, <3>1, NextIsOther
  <2>2. CASE q # p
    <3>1. \A u \in Threads : ~Storing(u, q)
      BY <1>0, <2>2 DEF Storing, Others
    <3> QED BY <1>0, <2>2, <3>1 DEF IInv, LastDelivered
  <2> QED BY <2>1, <2>2
<1>6. RetainsBalance'
  BY <1>0, BalanceStands DEF Others
<1>7. FanOutsDoNotOverlap'
  BY <1>0 DEF IInv, FanOutsDoNotOverlap
<1>8. InOrder'
  <2>1. CASE t \in Writers
    BY <1>0, <2>1 DEF IInv, InOrder, OneWriter, Dropping, Reading, Roles, Others
  <2>2. CASE t \notin Writers
    <3>1. p # Out
      BY <1>0, <2>2 DEF IInv, Roles, Delivering, TypeOK
    <3> QED BY <1>0, <2>2, <3>1 DEF IInv, InOrder, OneWriter, Dropping, Reading, Others, Roles
  <2> QED BY <2>1, <2>2
<1>9. Newest'
  BY <1>0, NewestStands DEF Comes, Written, Queued, Served, Read, Fanning, Delivering, Others
<1> QED BY <1>1, <1>2, <1>3, <1>4, <1>5, <1>6, <1>7, <1>8, <1>9 DEF IInv

LEMMA DropKeeps ==
  ASSUME IInv, NEW t \in Threads, Drop(t)
  PROVE  IInv'
<1> USE DEF Drop, At, Goto, bufVars, linkVars
<1> DEFINE p == pin[t]
           v == old[t]
<1>0. /\ pc[t] = "drop" /\ pc'[t] = "post" /\ p \in Pins /\ v \in Values \cup {Nil}
      /\ \A q \in Pins, x \in Values :
           retains'[q][x] = retains[q][x] - (IF q = p /\ x = v THEN 1 ELSE 0)
      /\ \A u \in Threads \ {t} : pc'[u] = pc[u] /\ old'[u] = old[u]
      /\ UNCHANGED <<dataBuffer, offset, linkVars, queue, pin, data, next, todo, signal, written, got,
                     told, last, overlapped>>
      /\ laps' = [c \in Connectors |-> IF p = Out /\ Reading(c) THEN laps[c] + 1 ELSE laps[c]]
  <2>1. /\ pc[t] = "drop" /\ pc'[t] = "post" /\ p \in Pins /\ v \in Values \cup {Nil}
        /\ \A u \in Threads \ {t} : pc'[u] = pc[u] /\ old'[u] = old[u]
    BY DEF IInv, TypeOK
  <2>2. ASSUME NEW q \in Pins, NEW x \in Values
        PROVE  retains'[q][x] = retains[q][x] - (IF q = p /\ x = v THEN 1 ELSE 0)
    <3>1. retains \in [Pins -> [Values -> Int]]
      BY DEF IInv, TypeOK
    <3>2. retains[q] \in [Values -> Int] /\ retains[q][x] \in Int
      BY <3>1
    <3>3. CASE v = Nil
      BY <3>2, <3>3
    <3>4. CASE v # Nil
      <4>1. retains' = [retains EXCEPT ![p] = [retains[p] EXCEPT ![v] = retains[p][v] - 1]]
        BY <3>4
      <4> HIDE DEF p, v, Drop
      <4> QED BY <2>1, <3>1, <3>2, <3>4, <4>1
    <3> QED BY <3>3, <3>4
  <2> QED BY <2>1, <2>2
<1>1. TypeOK'
  <2>1. pc' \in [Threads -> Steps] /\ old' \in [Threads -> Values \cup {Nil}]
    BY DEF IInv, TypeOK, Steps
  <2>2. retains' \in [Pins -> [Values -> Int]]
    BY <1>0 DEF IInv, TypeOK
  <2>3. laps' \in [Connectors -> Nat]
    BY <1>0 DEF IInv, TypeOK
  <2> HIDE DEF Drop, Goto, p, v
  <2> QED BY <1>0, <2>1, <2>2, <2>3 DEF IInv, TypeOK, Signals
<1> HIDE DEF Drop, Goto
<1>2. Roles'
  BY <1>0 DEF IInv, Roles, Delivering
<1>3. OneFan'
  BY <1>0 DEF IInv, OneFan, Fanning, Delivering
<1>4. Slots'
  <2>1. \A u \in Threads, q \in Pins : Storing(u, q)' <=> Storing(u, q)
    BY <1>0 DEF Storing
  <2> QED BY <1>0, <2>1 DEF IInv, Slots, Undisturbed, NextOffset, Storing
<1>5. LastDelivered'
  <2>1. \A u \in Threads, q \in Pins : Storing(u, q)' <=> Storing(u, q)
    BY <1>0 DEF Storing
  <2> QED BY <1>0, <2>1 DEF IInv, LastDelivered
<1>6. RetainsBalance'
  <2> SUFFICES ASSUME NEW q \in Pins, NEW x \in Values, ~overlapped[q]
               PROVE  retains'[q][x] = Places(q, x)' + Pending(q, x)'
    BY <1>0 DEF RetainsBalance
  <2>1. retains[q][x] = Places(q, x) + Pending(q, x) /\ Pending(q, x) \in Nat /\ Places(q, x) \in Int
    BY ReleasersCount, PlacesCount DEF IInv, RetainsBalance
  <2>2. Places(q, x)' = Places(q, x)
    BY <1>0 DEF Places
  <2>3. Pending(q, x)' = Pending(q, x) - (IF q = p /\ x = v THEN 1 ELSE 0)
    <3>1. Pending(q, x)' = Cardinality(Releasers(q, x)')
      BY DEF Pending, Releasers
    <3>2. CASE q = p /\ x = v
      <4>1. Releasers(q, x)' = Releasers(q, x) \ {t} /\ t \in Releasers(q, x)
        BY <1>0, <3>2 DEF Releasers
      <4>2. Cardinality(Releasers(q, x) \ {t}) = Cardinality(Releasers(q, x)) - 1
        BY <4>1, ReleasersCount, FS_RemoveElement
      <4> QED BY <3>1, <3>2, <4>1, <4>2, ReleasersCount
    <3>3. CASE ~(q = p /\ x = v)
      <4>1. Releasers(q, x)' = Releasers(q, x)
        BY <1>0, <3>3 DEF Releasers
      <4> QED BY <3>1, <3>3, <4>1, <2>1, ReleasersCount
    <3> QED BY <3>2, <3>3
  <2> HIDE DEF p, v
  <2> QED BY <1>0, <2>1, <2>2, <2>3
<1>7. FanOutsDoNotOverlap'
  BY <1>0 DEF IInv, FanOutsDoNotOverlap
<1>8. InOrder'
  <2>1. CASE t \in Writers
    <3> SUFFICES ASSUME OneWriter, NEW c \in Connectors
                 PROVE  /\ ~overlapped[Out]
                        /\ LET slot == dataBuffer[Out][next[c]] IN
                           /\ Reading(c) => laps'[c] # 0
                           /\ At(c, "retain") /\ laps'[c] = 1 => slot = data[c]
      BY <1>0, <2>1 DEF IInv, InOrder, OneWriter, Reading
    <3>1. laps[c] \in Nat /\ p = Out
      BY <2>1 DEF IInv, TypeOK, Roles
    <3>2. laps'[c] = IF Reading(c) THEN laps[c] + 1 ELSE laps[c]
      BY <1>0, <3>1
    <3> QED BY <3>1, <3>2 DEF IInv, InOrder, Reading
  <2>2. CASE t \notin Writers
    <3>1. p # Out
      BY <1>0, <2>2 DEF IInv, Roles, Delivering, TypeOK
    <3>2. \A c \in Connectors : laps'[c] = laps[c]
      BY <1>0, <3>1
    <3> QED BY <1>0, <2>2, <3>1, <3>2 DEF IInv, InOrder, OneWriter, Dropping, Reading, Roles
  <2> QED BY <2>1, <2>2
<1>9. Newest'
  BY <1>0, NewestStands DEF Comes, Written, Queued, Served, Read, Fanning, Delivering
<1> QED BY <1>1, <1>2, <1>3, <1>4, <1>5, <1>6, <1>7, <1>8, <1>9 DEF IInv

LEMMA PostKeeps ==
  ASSUME IInv, NEW t \in Threads, Post(t)
  PROVE  IInv'
<1> DEFINE p == pin[t]
           s == [pin |-> p, data |-> IF owned[p] THEN data[t] ELSE Nil]
<1> PICK w \in Workers : queue' = [queue EXCEPT ![w] = Append(@, s)]
  BY DEF Post
<1> USE DEF Post, At, Goto, Leave, bufVars, linkVars, history
<1>0. /\ pc[t] = "post" /\ pc'[t] = Home(t) /\ pin'[t] = Out /\ data'[t] = Nil /\ Others(t)
      /\ p \in Pins /\ s \in Signals
      /\ UNCHANGED <<bufVars, linkVars, old, todo, signal, history>>
  BY DEF IInv, TypeOK, Others, Signals
<1>00. /\ queue'[w] = Append(queue[w], s) /\ queue[w] \in Seq(Signals)
      /\ \A u \in Workers \ {w} : queue'[u] = queue[u]
  BY DEF IInv, TypeOK
<1>1. TypeOK'
  <2>1. pc' \in [Threads -> Steps] /\ pin' \in [Threads -> Pins]
    BY DEF IInv, TypeOK, Steps, Home
  <2>2. data' \in [Threads -> Values \cup {Nil}] /\ next' \in [Threads -> 0 .. 1]
    BY DEF IInv, TypeOK
  <2>3. queue' \in [Workers -> Seq(Signals)]
    <3> HIDE DEF s, Post
    <3> QED BY <1>0, <1>00 DEF IInv, TypeOK
  <2> HIDE DEF Post, Goto, p, s
  <2> QED BY <1>0, <2>1, <2>2, <2>3 DEF IInv, TypeOK
<1> HIDE DEF Post, Goto, Leave
<1>2. Roles'
  BY <1>0 DEF IInv, Roles, Delivering, Others, Home
<1>3. OneFan'
  BY <1>0 DEF IInv, OneFan, Fanning, Delivering, Others, Home
<1>4. Slots' /\ LastDelivered' /\ RetainsBalance' /\ FanOutsDoNotOverlap'
  BY <1>0, BystanderKeeps DEF Home
<1>5. InOrder'
  BY <1>0 DEF IInv, InOrder, OneWriter, Dropping, Reading, Others, Home
<1>6. Newest'
  <2> SUFFICES ASSUME NEW i \in receivers, owned[Out], Comes(i, last[Out]), OneWriter
               PROVE  Comes(i, last[Out])'
    BY <1>0 DEF IInv, Newest, Comes, OneWriter
  <2>1. CASE Written(last[Out])
    <3> PICK x \in Writers : Delivering(x) /\ data[x] = last[Out]
      BY <2>1 DEF Written
    <3>1. CASE x = t
      <4>1. s = [pin |-> Out, data |-> last[Out]]
        BY <3>1 DEF IInv, Roles
      <4>2. Len(queue'[w]) \in 1 .. Len(queue'[w]) /\ queue'[w][Len(queue'[w])] = s
        BY <1>0, <1>00
      <4>3. Queued(last[Out])'
        BY <1>0, <4>1, <4>2 DEF Queued
      <4> QED BY <4>3 DEF Comes
    <3>2. CASE x # t
      BY <1>0, <3>2 DEF Comes, Written, Delivering, Others
    <3> QED BY <3>1, <3>2
  <2>2. CASE Queued(last[Out])
    <3> PICK u \in Workers : \E k \in 1 .. Len(queue[u]) : queue[u][k] = [pin |-> Out, data |-> last[Out]]
      BY <2>2 DEF Queued
    <3> PICK k \in 1 .. Len(queue[u]) : queue[u][k] = [pin |-> Out, data |-> last[Out]]
      OBVIOUS
    <3>1. k \in 1 .. Len(queue'[u]) /\ queue'[u][k] = queue[u][k]
      BY <1>0, <1>00
    <3>2. Queued(last[Out])'
      BY <1>0, <3>1 DEF Queued
    <3> QED BY <3>2 DEF Comes
  <2>3. CASE Served(i, last[Out])
    BY <1>0, <2>3 DEF Comes, Served, Fanning, Delivering, Others, Home
  <2>4. CASE Read(i, last[Out])
    BY <1>0, <2>4 DEF Comes, Read, Others
  <2> QED BY <2>1, <2>2, <2>3, <2>4 DEF Comes
<1> QED BY <1>1, <1>2, <1>3, <1>4, <1>5, <1>6 DEF IInv

-----------------------------------------------------------------------------
(***************************************************************************)
(* The signal threads.                                                     *)
(***************************************************************************)
LEMMA TakeSignalKeeps ==
  ASSUME IInv, NEW w \in Workers, TakeSignal(w)
  PROVE  IInv'
<1> DEFINE s == Head(queue[w])
<1> USE DEF TakeSignal, At, Goto, bufVars, linkVars, history
<1>00. /\ queue[w] \in Seq(Signals) /\ queue[w] # <<>> /\ s \in Signals /\ s = queue[w][1]
       /\ queue'[w] = Tail(queue[w]) /\ \A u \in Workers \ {w} : queue'[u] = queue[u]
  BY DEF IInv, TypeOK
<1>0. /\ pc[w] = "idle" /\ pc'[w] \in {"idle", "fanLock", "call"} /\ Others(w)
      /\ pc'[w] = "call" => pin'[w] = s.pin /\ s.pin \in Inputs
      /\ s.pin = Out => pc'[w] = "fanLock" /\ signal'[w] = s.data
      /\ pin' \in [Threads -> Pins] /\ data' \in [Threads -> Values \cup {Nil}]
      /\ signal' \in [Threads -> Values \cup {Nil}]
      /\ \A u \in Threads \ {w} : signal'[u] = signal[u]
      /\ UNCHANGED <<bufVars, linkVars, next, old, todo, history>>
  <2>1. s.pin \in Pins /\ s.data \in Values \cup {Nil}
    BY <1>00 DEF Signals
  <2> HIDE DEF s
  <2>2. CASE s.pin = Out
    BY <2>1, <2>2 DEF IInv, TypeOK, Others, s
  <2>3. CASE s.pin # Out /\ owned[s.pin]
    BY <2>1, <2>3 DEF IInv, TypeOK, Others, s
  <2>4. CASE s.pin # Out /\ ~owned[s.pin]
    BY <2>1, <2>4 DEF IInv, TypeOK, Others, s
  <2> QED BY <2>2, <2>3, <2>4
<1>1. TypeOK'
  <2>1. pc' \in [Threads -> Steps]
    BY DEF IInv, TypeOK, Steps
  <2>2. Tail(queue[w]) \in Seq(Signals)
    BY <1>00
  <2>3. queue' \in [Workers -> Seq(Signals)]
    BY <2>2 DEF IInv, TypeOK
  <2> HIDE DEF TakeSignal, Goto, s
  <2> QED BY <1>0, <2>1, <2>3 DEF IInv, TypeOK
<1> HIDE DEF TakeSignal, Goto, s
<1>2. Roles'
  BY <1>0 DEF IInv, Roles, Delivering, Others
<1>3. OneFan'
  BY <1>0 DEF IInv, OneFan, Fanning, Delivering, Others
<1>4. Slots' /\ LastDelivered' /\ RetainsBalance' /\ FanOutsDoNotOverlap'
  BY <1>0, BystanderKeeps
<1>5. InOrder'
  BY <1>0, ReadersStand
<1>6. Newest'
  <2> SUFFICES ASSUME NEW i \in receivers, Comes(i, last[Out])
               PROVE  Comes(i, last[Out])'
    BY <1>0, NewestStands
  <2>1. CASE Written(last[Out])
    BY <1>0, <2>1 DEF Comes, Written, Delivering, Others
  <2>2. CASE Queued(last[Out])
    <3> PICK u \in Workers : \E k \in 1 .. Len(queue[u]) : queue[u][k] = [pin |-> Out, data |-> last[Out]]
      BY <2>2 DEF Queued
    <3> PICK k \in 1 .. Len(queue[u]) : queue[u][k] = [pin |-> Out, data |-> last[Out]]
      OBVIOUS
    <3>1. CASE u # w
      <4>1. Queued(last[Out])'
        BY <1>0, <1>00, <3>1 DEF Queued
      <4> QED BY <4>1 DEF Comes
    <3>2. CASE u = w /\ k # 1
      <4>1. k - 1 \in 1 .. Len(queue'[w]) /\ queue'[w][k - 1] = queue[w][k]
        BY <1>00, <3>2
      <4>2. Queued(last[Out])'
        BY <1>0, <3>2, <4>1 DEF Queued
      <4> QED BY <4>2 DEF Comes
    <3>3. CASE u = w /\ k = 1
      <4>1. s.pin = Out /\ s.data = last[Out]
        BY <1>00, <3>3
      <4>2. Served(i, last[Out])'
        BY <1>0, <4>1 DEF Served
      <4> QED BY <4>2 DEF Comes
    <3> QED BY <3>1, <3>2, <3>3
  <2>3. CASE Served(i, last[Out])
    BY <1>0, <2>3 DEF Comes, Served, Fanning, Delivering, Others
  <2>4. CASE Read(i, last[Out])
    BY <1>0, <2>4 DEF Comes, Read, Others
  <2> QED BY <2>1, <2>2, <2>3, <2>4 DEF Comes
<1> QED BY <1>1, <1>2, <1>3, <1>4, <1>5, <1>6 DEF IInv

LEMMA FanLockKeeps ==
  ASSUME IInv, NEW w \in Workers, FanLock(w)
  PROVE  IInv'
<1> USE DEF FanLock, At, Goto, bufVars, linkVars, history
<1>0. /\ pc[w] = "fanLock" /\ pc'[w] = "fan" /\ ~receiversLock /\ receiversLock' /\ Others(w)
      /\ todo'[w] = receivers /\ \A u \in Threads \ {w} : todo'[u] = todo[u]
      /\ UNCHANGED <<bufVars, owned, receivers, queue, pin, data, next, old, signal, history>>
  BY DEF IInv, TypeOK, Others
<1>1. TypeOK'
  <2>1. pc' \in [Threads -> Steps] /\ todo' \in [Threads -> SUBSET Inputs]
    BY DEF IInv, TypeOK, Steps
  <2>2. receiversLock' \in BOOLEAN
    OBVIOUS
  <2> HIDE DEF FanLock, Goto
  <2> QED BY <1>0, <2>1, <2>2 DEF IInv, TypeOK, Signals
<1> HIDE DEF FanLock, Goto
<1>2. Roles'
  BY <1>0 DEF IInv, Roles, Delivering, Others
<1>3. OneFan'
  BY <1>0 DEF IInv, OneFan, Fanning, Delivering, Others
<1>4. Slots' /\ LastDelivered' /\ RetainsBalance' /\ FanOutsDoNotOverlap'
  BY <1>0, BystanderKeeps
<1>5. InOrder'
  BY <1>0, ReadersStand
<1>6. Newest'
  BY <1>0, NewestStands DEF Comes, Written, Queued, Served, Read, Fanning, Delivering, Others
<1> QED BY <1>1, <1>2, <1>3, <1>4, <1>5, <1>6 DEF IInv

LEMMA FanNextKeeps ==
  ASSUME IInv, NEW w \in Workers, FanNext(w)
  PROVE  IInv'
<1> PICK i \in todo[w] : Deliver(w, i, signal[w]) /\ todo' = [todo EXCEPT ![w] = @ \ {i}]
  BY DEF FanNext
<1> DEFINE v == signal[w]
<1> USE DEF FanNext, At, bufVars, linkVars
<1>0. /\ pc[w] = "fan" /\ i \in Inputs /\ i \in Pins \ {Out} /\ v \in Values \cup {Nil} /\ ~Delivering(w)
      /\ todo'[w] = todo[w] \ {i} /\ \A u \in Threads \ {w} : todo'[u] = todo[u]
      /\ todo' \in [Threads -> SUBSET Inputs]
      /\ UNCHANGED <<bufVars, linkVars, queue, old, signal, written, told, laps>>
  BY DEF IInv, TypeOK, Delivering
<1>00. /\ Others(w) /\ last'[Out] = last[Out] /\ overlapped'[Out] = overlapped[Out]
       /\ \/ pc'[w] = "take" /\ pin'[w] = i /\ data'[w] \in Values
          \/ pc'[w] = "fan"
  <2> HIDE DEF v
  <2>1. CASE v \in Accepts[i]
    BY <1>0, <2>1, Accepted DEF v
  <2>2. CASE v \notin Accepts[i]
    BY <1>0, <2>2, Rejected DEF v, Home
  <2> QED BY <2>1, <2>2
<1> HIDE DEF FanNext
<1>1. TypeOK'
  BY <1>0, DeliverTypes DEF IInv, TypeOK
<1>2. Roles'
  BY <1>0, <1>00 DEF IInv, Roles, Delivering, Others
<1>3. OneFan'
  BY <1>0, <1>00 DEF IInv, OneFan, Fanning, Delivering, Others
<1>4. Slots' /\ LastDelivered' /\ RetainsBalance'
  BY <1>0, StartKeeps
<1>5. FanOutsDoNotOverlap'
  <2>1. ASSUME NEW u \in Threads \ {w}, Storing(u, i)
        PROVE  i \notin Attached
    BY <1>0, <2>1 DEF IInv, Roles, OneFan, Fanning, Delivering, Storing
  <2>2. CASE v \in Accepts[i]
    BY <1>0, <2>1, <2>2, Accepted DEF IInv, FanOutsDoNotOverlap
  <2>3. CASE v \notin Accepts[i]
    BY <1>0, <2>3, Rejected DEF IInv, FanOutsDoNotOverlap
  <2> QED BY <2>2, <2>3
<1>6. InOrder'
  BY <1>0, <1>00, ReadersStand
<1>7. Newest'
  <2> SUFFICES ASSUME NEW j \in receivers, owned[Out], OneWriter, last[Out] \in Accepts[j],
                      ~(last[Out] = Initial /\ j \in Attached), ~(got'[j][last[Out]] > 0)
               PROVE  Comes(j, last[Out])'
    BY <1>0, <1>00 DEF Newest, Comes, OneWriter
  <2>1. j \in Inputs /\ last[Out] \in Values
    BY DEF IInv, TypeOK
  <2>2. got'[j][last[Out]] = got[j][last[Out]] \/ (i = j /\ v = last[Out] /\ v \in Accepts[i])
    BY <1>0, <2>1, Accepted, Rejected
  <2>3. got[j][v] \in Nat \/ v \notin Values
    BY <2>1 DEF IInv, TypeOK
  <2>4. ~(i = j /\ v = last[Out])
    BY <1>0, <2>1, <2>3, Accepted
  <2>5. Comes(j, last[Out])
    BY <2>2, <2>4 DEF IInv, Newest, Comes
  <2>6. CASE Written(last[Out])
    BY <1>0, <1>00, <2>6 DEF Comes, Written, Delivering, Others
  <2>7. CASE Queued(last[Out])
    BY <1>0, <1>00, <2>7 DEF Comes, Queued
  <2>8. CASE Served(j, last[Out])
    BY <1>0, <1>00, <2>4, <2>8 DEF Comes, Served, Fanning, Delivering, Others
  <2>9. CASE Read(j, last[Out])
    BY <1>0, <1>00, <2>9 DEF Comes, Read, Others
  <2> QED BY <2>5, <2>6, <2>7, <2>8, <2>9 DEF Comes
<1> QED BY <1>1, <1>2, <1>3, <1>4, <1>5, <1>6, <1>7 DEF IInv

LEMMA FanUnlockKeeps ==
  ASSUME IInv, NEW w \in Workers, FanUnlock(w)
  PROVE  IInv'
<1> USE DEF FanUnlock, At, Goto, bufVars, linkVars, history
<1>0. /\ pc[w] = "fan" /\ pc'[w] = "idle" /\ ~receiversLock' /\ Others(w) /\ todo[w] = {}
      /\ \A u \in Threads \ {w} : signal'[u] = signal[u]
      /\ UNCHANGED <<bufVars, owned, receivers, queue, pin, data, next, old, todo, history>>
  BY DEF IInv, TypeOK, Others
<1>1. TypeOK'
  <2>1. pc' \in [Threads -> Steps] /\ signal' \in [Threads -> Values \cup {Nil}]
    BY DEF IInv, TypeOK, Steps
  <2>2. receiversLock' \in BOOLEAN
    OBVIOUS
  <2> HIDE DEF FanUnlock, Goto
  <2> QED BY <1>0, <2>1, <2>2 DEF IInv, TypeOK, Signals
<1> HIDE DEF FanUnlock, Goto
<1>2. Roles'
  BY <1>0 DEF IInv, Roles, Delivering, Others
<1>3. OneFan'
  BY <1>0 DEF IInv, OneFan, Fanning, Delivering, Others
<1>4. Slots' /\ LastDelivered' /\ RetainsBalance' /\ FanOutsDoNotOverlap'
  BY <1>0, BystanderKeeps
<1>5. InOrder'
  BY <1>0, ReadersStand
<1>6. Newest'
  BY <1>0, NewestStands DEF Comes, Written, Queued, Served, Read, Fanning, Delivering, Others
<1> QED BY <1>1, <1>2, <1>3, <1>4, <1>5, <1>6 DEF IInv

LEMMA CallOwnerKeeps ==
  ASSUME IInv, NEW w \in Workers, CallOwner(w)
  PROVE  IInv'
<1> USE DEF CallOwner, At, Goto, Leave, bufVars, linkVars
<1>0. /\ pc[w] = "call" /\ pc'[w] = "idle" /\ pin[w] \in Inputs /\ Others(w)
      /\ UNCHANGED <<bufVars, linkVars, queue, old, todo, signal, written, got, last, overlapped, laps>>
  BY DEF IInv, TypeOK, Roles, Others
<1>1. TypeOK'
  <2>1. pc' \in [Threads -> Steps] /\ pin' \in [Threads -> Pins]
    BY DEF IInv, TypeOK, Steps
  <2>2. data' \in [Threads -> Values \cup {Nil}] /\ next' \in [Threads -> 0 .. 1]
    BY DEF IInv, TypeOK
  <2>3. told' \in [Inputs -> [Values -> Nat]]
    <3>1. /\ told \in [Inputs -> [Values -> Nat]] /\ told[pin[w]] \in [Values -> Nat]
          /\ data[w] \in Values \cup {Nil}
      BY <1>0 DEF IInv, TypeOK
    <3>2. CASE UNCHANGED told
      BY <3>1, <3>2
    <3>3. CASE told' = [told EXCEPT ![pin[w]] = [told[pin[w]] EXCEPT ![data[w]] = @ + 1]]
      <4> DEFINE f == told[pin[w]]
                 d == data[w]
                 g == [f EXCEPT ![d] = f[d] + 1]
      <4>1. \A x \in Values : g[x] \in Nat
        <5>1. f \in [Values -> Nat]
          BY <3>1
        <5> HIDE DEF f, d
        <5> QED BY <5>1
      <4>2. told' = [told EXCEPT ![pin[w]] = g] /\ g \in [Values -> Nat]
        BY <3>1, <3>3, <4>1
      <4> HIDE DEF f, g
      <4> QED BY <1>0, <3>1, <4>2
    <3>4. \/ told' = [told EXCEPT ![pin[w]] = [told[pin[w]] EXCEPT ![data[w]] = @ + 1]]
          \/ UNCHANGED told
      OBVIOUS
    <3> QED BY <3>2, <3>3, <3>4
  <2> HIDE DEF CallOwner, Goto, Leave
  <2> QED BY <1>0, <2>1, <2>2, <2>3 DEF IInv, TypeOK, Signals
<1> HIDE DEF CallOwner, Goto, Leave
<1>2. Roles'
  BY <1>0 DEF IInv, Roles, Delivering, Others
<1>3. OneFan'
  BY <1>0 DEF IInv, OneFan, Fanning, Delivering, Others
<1>4. Slots' /\ LastDelivered' /\ RetainsBalance' /\ FanOutsDoNotOverlap'
  BY <1>0, BystanderKeeps
<1>5. InOrder'
  BY <1>0, ReadersStand
<1>6. Newest'
  BY <1>0, NewestStands DEF Comes, Written, Queued, Served, Read, Fanning, Delivering, Others
<1> QED BY <1>1, <1>2, <1>3, <1>4, <1>5, <1>6 DEF IInv

-----------------------------------------------------------------------------
(***************************************************************************)
(* The other threads.                                                      *)
(***************************************************************************)
LEMMA WriteKeeps ==
  ASSUME IInv, NEW t \in Writers, Write(t)
  PROVE  IInv'
<1> DEFINE v == written + 1
<1> USE DEF Write, At, bufVars, linkVars
<1>0. /\ t \in Threads /\ pc[t] = "idle" /\ ~Delivering(t) /\ written' = v /\ v \in Values
      /\ Out \in Pins /\ Deliver(t, Out, v)
      /\ UNCHANGED <<bufVars, linkVars, queue, old, todo, signal, told, laps>>
  BY DEF IInv, TypeOK, Delivering
<1>00. /\ Others(t) /\ pin'[t] = Out
       /\ \/ pc'[t] = "take" /\ data'[t] = v /\ last'[Out] = v
          \/ pc'[t] = "idle" /\ UNCHANGED last
       /\ \A q \in Pins \ {Out} : overlapped'[q] = overlapped[q]
  <2> HIDE DEF v, Write
  <2>1. CASE v \in Accepts[Out]
    BY <1>0, <2>1, Accepted
  <2>2. CASE v \notin Accepts[Out]
    BY <1>0, <2>2, Rejected DEF Home
  <2> QED BY <2>1, <2>2
<1>01. /\ UNCHANGED got
       /\ overlapped'[Out] <=> overlapped[Out] \/ (v \in Accepts[Out] /\ \E u \in Threads \ {t} : Storing(u, Out))
  <2>1. CASE v \in Accepts[Out]
    BY <1>0, <2>1, Accepted DEF Deliver
  <2>2. CASE v \notin Accepts[Out]
    BY <1>0, <2>2, Rejected
  <2> QED BY <2>1, <2>2
<1> HIDE DEF Write, v
<1>1. TypeOK'
  <2>1. written' \in 0 .. MaxWrites
    BY <1>0
  <2> QED BY <1>0, <2>1, DeliverTypes DEF IInv, TypeOK
<1>2. Roles'
  BY <1>0, <1>00 DEF IInv, Roles, Delivering, Others
<1>3. OneFan'
  BY <1>0, <1>00 DEF IInv, OneFan, Fanning, Delivering, Others
<1>4. Slots' /\ LastDelivered' /\ RetainsBalance'
  BY <1>0, StartKeeps
<1>5. FanOutsDoNotOverlap'
  BY <1>00 DEF IInv, FanOutsDoNotOverlap
<1>6. InOrder'
  <2>1. OneWriter => \A u \in Threads \ {t} : ~Storing(u, Out)
    BY OnlyWritersStore DEF OneWriter
  <2>2. OneWriter => ~overlapped'[Out]
    BY <1>01, <2>1 DEF IInv, InOrder
  <2> QED BY <1>0, <1>00, <2>2 DEF IInv, InOrder, OneWriter, Dropping, Reading, Others
<1>7. Newest'
  <2>1. CASE pc'[t] = "take" /\ data'[t] = v /\ last'[Out] = v
    BY <2>1 DEF Newest, Comes, Written, Delivering
  <2>2. CASE pc'[t] = "idle" /\ UNCHANGED last
    BY <1>0, <1>00, <1>01, <2>2, NewestStands
       DEF Comes, Written, Queued, Served, Read, Fanning, Delivering, Others
  <2> QED BY <1>00, <2>1, <2>2
<1> QED BY <1>1, <1>2, <1>3, <1>4, <1>5, <1>6, <1>7 DEF IInv

LEMMA AttachKeeps ==
  ASSUME IInv, NEW t \in Connectors, NEW i \in Inputs, Attach(t, i)
  PROVE  IInv'
<1> USE DEF Attach, At, Goto, bufVars, history
<1>0. /\ t \in Threads /\ pc[t] = "idle" /\ pc'[t] = "read" /\ pin'[t] = i /\ i \notin receivers /\ Others(t)
      /\ receivers' = receivers \cup {i}
      /\ UNCHANGED <<bufVars, owned, receiversLock, queue, data, next, old, todo, signal, history>>
  BY DEF IInv, TypeOK, Others
<1>1. TypeOK'
  <2>1. pc' \in [Threads -> Steps] /\ pin' \in [Threads -> Pins]
    BY DEF IInv, TypeOK, Steps
  <2>2. receivers' \in SUBSET Inputs
    BY DEF IInv, TypeOK
  <2> HIDE DEF Attach, Goto
  <2> QED BY <1>0, <2>1, <2>2 DEF IInv, TypeOK, Signals
<1> HIDE DEF Attach, Goto
<1>2. Roles'
  BY <1>0 DEF IInv, Roles, Delivering, Others
<1>3. OneFan'
  BY <1>0 DEF IInv, OneFan, Fanning, Delivering, Others
<1>4. Slots' /\ LastDelivered' /\ RetainsBalance' /\ FanOutsDoNotOverlap'
  BY <1>0, BystanderKeeps
<1>5. InOrder'
  BY <1>0 DEF IInv, InOrder, OneWriter, Dropping, Reading, Others
<1>6. Newest'
  <2>1. \A j \in receivers : Comes(j, last[Out]) => Comes(j, last[Out])'
    BY <1>0 DEF Comes, Written, Queued, Served, Read, Fanning, Delivering, Others
  <2>2. Comes(i, last[Out])'
    BY <1>0 DEF Comes, Read
  <2> QED BY <1>0, <2>1, <2>2 DEF IInv, Newest, Comes, OneWriter
<1> QED BY <1>1, <1>2, <1>3, <1>4, <1>5, <1>6 DEF IInv

LEMMA ReadOffsetKeeps ==
  ASSUME IInv, NEW t \in Connectors, ReadOffset(t)
  PROVE  IInv'
<1> USE DEF ReadOffset, At, Goto, bufVars, linkVars, history
<1>0. /\ t \in Threads /\ pc[t] = "read" /\ pc'[t] = "fetch" /\ next'[t] = offset[Out] /\ Others(t)
      /\ UNCHANGED <<bufVars, linkVars, queue, pin, data, old, todo, signal, history>>
  BY DEF IInv, TypeOK, Others
<1>1. TypeOK'
  <2>1. pc' \in [Threads -> Steps]
    BY DEF IInv, TypeOK, Steps
  <2>2. next' \in [Threads -> 0 .. 1]
    BY DEF IInv, TypeOK
  <2> HIDE DEF ReadOffset, Goto
  <2> QED BY <1>0, <2>1, <2>2 DEF IInv, TypeOK, Signals
<1> HIDE DEF ReadOffset, Goto
<1>2. Roles'
  BY <1>0 DEF IInv, Roles, Delivering, Others
<1>3. OneFan'
  BY <1>0 DEF IInv, OneFan, Fanning, Delivering, Others
<1>4. Slots' /\ LastDelivered' /\ RetainsBalance' /\ FanOutsDoNotOverlap'
  BY <1>0, BystanderKeeps
<1>5. InOrder'
  BY <1>0 DEF IInv, InOrder, OneWriter, Dropping, Reading, Others
<1>6. Newest'
  <2> SUFFICES ASSUME OneWriter, NEW i \in receivers, Comes(i, last[Out]), ~Written(last[Out])'
               PROVE  Comes(i, last[Out])'
    BY <1>0, NewestStands DEF Comes
  <2>1. \A u \in Threads : ~Storing(u, Out)
    <3> SUFFICES ASSUME NEW u \in Threads, Storing(u, Out) PROVE FALSE
      OBVIOUS
    <3>1. u \in Writers
      BY OnlyWritersStore
    <3>2. data[u] = last[Out] /\ Delivering(u)
      BY DEF IInv, InOrder, Slots, Undisturbed, Storing, Delivering
    <3> QED BY <1>0, <3>1, <3>2 DEF Written, Delivering, Others
  <2>2. dataBuffer[Out][offset[Out]] = last[Out]
    BY <2>1 DEF IInv, LastDelivered, InOrder
  <2>3. CASE Read(i, last[Out])
    BY <1>0, <2>2, <2>3 DEF Comes, Read, Others
  <2>4. CASE ~Read(i, last[Out])
    BY <1>0, <2>4 DEF Comes, Written, Queued, Served, Fanning, Delivering, Others
  <2> QED BY <2>3, <2>4
<1> QED BY <1>1, <1>2, <1>3, <1>4, <1>5, <1>6 DEF IInv

LEMMA ReadSlotKeeps ==
  ASSUME IInv, NEW t \in Connectors, ReadSlot(t)
  PROVE  IInv'
<1> USE DEF ReadSlot, At, Goto, bufVars, linkVars, history
<1>0. /\ t \in Threads /\ pc[t] = "fetch" /\ pc'[t] = "retain" /\ data'[t] = dataBuffer[Out][next[t]] /\ Others(t)
      /\ UNCHANGED <<bufVars, linkVars, queue, pin, next, old, todo, signal, history>>
  BY DEF IInv, TypeOK, Others
<1>1. TypeOK'
  <2>1. pc' \in [Threads -> Steps]
    BY DEF IInv, TypeOK, Steps
  <2>2. dataBuffer \in [Pins -> [0 .. 1 -> Values \cup {Nil}]] /\ next[t] \in 0 .. 1
    BY <1>0 DEF IInv, TypeOK
  <2>3. dataBuffer[Out][next[t]] \in Values \cup {Nil}
    BY <2>2
  <2>4. data' \in [Threads -> Values \cup {Nil}]
    BY <2>3 DEF IInv, TypeOK
  <2> HIDE DEF ReadSlot, Goto
  <2> QED BY <1>0, <2>1, <2>4 DEF IInv, TypeOK, Signals
<1> HIDE DEF ReadSlot, Goto
<1>2. Roles'
  BY <1>0 DEF IInv, Roles, Delivering, Others
<1>3. OneFan'
  BY <1>0 DEF IInv, OneFan, Fanning, Delivering, Others
<1>4. Slots' /\ LastDelivered' /\ RetainsBalance' /\ FanOutsDoNotOverlap'
  BY <1>0, BystanderKeeps
<1>5. InOrder'
  BY <1>0 DEF IInv, InOrder, OneWriter, Dropping, Reading, Others
<1>6. Newest'
  BY <1>0, NewestStands DEF Comes, Written, Queued, Served, Read, Fanning, Delivering, Others
<1> QED BY <1>1, <1>2, <1>3, <1>4, <1>5, <1>6 DEF IInv

LEMMA SendOnConnectKeeps ==
  ASSUME IInv, NEW t \in Connectors, SendOnConnect(t)
  PROVE  IInv'
<1> DEFINE i == pin[t]
           v == data[t]
<1> USE DEF SendOnConnect, At, bufVars, linkVars
<1>0. /\ t \in Threads /\ pc[t] = "retain" /\ ~Delivering(t) /\ Deliver(t, i, v)
      /\ i \in Pins \ {Out} /\ i \in receivers \ Attached /\ v \in Values \cup {Nil}
      /\ laps' = [laps EXCEPT ![t] = 0]
      /\ UNCHANGED <<bufVars, linkVars, queue, old, todo, signal, written, told>>
  BY DEF IInv, TypeOK, Roles, Delivering
<1>00. /\ Others(t) /\ last'[Out] = last[Out] /\ overlapped'[Out] = overlapped[Out]
       /\ \/ pc'[t] = "take" /\ pin'[t] = i /\ data'[t] \in Values
          \/ pc'[t] = "idle"
       /\ \A q \in Pins \ {i} : overlapped'[q] = overlapped[q]
  <2> HIDE DEF v, i
  <2>1. CASE v \in Accepts[i]
    BY <1>0, <2>1, Accepted
  <2>2. CASE v \notin Accepts[i]
    BY <1>0, <2>2, Rejected DEF Home
  <2> QED BY <2>1, <2>2
<1> HIDE DEF SendOnConnect, i
<1>1. TypeOK'
  <2>1. laps' \in [Connectors -> Nat]
    BY <1>0 DEF IInv, TypeOK
  <2> QED BY <1>0, <2>1, DeliverTypes DEF IInv, TypeOK
<1>2. Roles'
  BY <1>0, <1>00 DEF IInv, Roles, Delivering, Others
<1>3. OneFan'
  BY <1>0, <1>00 DEF IInv, OneFan, Fanning, Delivering, Others
<1>4. Slots' /\ LastDelivered' /\ RetainsBalance'
  BY <1>0, StartKeeps
<1>5. FanOutsDoNotOverlap'
  BY <1>0, <1>00 DEF IInv, FanOutsDoNotOverlap
<1>6. InOrder'
  <2>1. \A c \in Connectors \ {t} : laps'[c] = laps[c]
    BY <1>0 DEF IInv, TypeOK
  <2> QED BY <1>0, <1>00, <2>1 DEF IInv, InOrder, OneWriter, Dropping, Reading, Others
<1>7. Newest'
  <2> SUFFICES ASSUME NEW j \in receivers, owned[Out], OneWriter, last[Out] \in Accepts[j],
                      ~(last[Out] = Initial /\ j \in Attached), ~(got'[j][last[Out]] > 0)
               PROVE  Comes(j, last[Out])'
    BY <1>0, <1>00 DEF Newest, Comes, OneWriter
  <2>1. j \in Inputs /\ last[Out] \in Values
    BY DEF IInv, TypeOK
  <2>2. got'[j][last[Out]] = got[j][last[Out]] \/ (i = j /\ v = last[Out] /\ v \in Accepts[i])
    BY <1>0, <2>1, Accepted, Rejected
  <2>3. got[j][v] \in Nat \/ v \notin Values
    BY <2>1 DEF IInv, TypeOK
  <2>4. ~(i = j /\ v = last[Out])
    BY <1>0, <2>1, <2>3, Accepted
  <2>5. Comes(j, last[Out])
    BY <2>2, <2>4 DEF IInv, Newest, Comes
  <2>6. CASE Written(last[Out])
    BY <1>0, <1>00, <2>6 DEF Comes, Written, Delivering, Others
  <2>7. CASE Queued(last[Out])
    BY <1>0, <1>00, <2>7 DEF Comes, Queued
  <2>8. CASE Served(j, last[Out])
    BY <1>0, <1>00, <2>8 DEF Comes, Served, Fanning, Delivering, Others
  <2>9. CASE Read(j, last[Out])
    BY <1>0, <1>00, <2>4, <2>9 DEF Comes, Read, Others, i
  <2> QED BY <2>5, <2>6, <2>7, <2>8, <2>9 DEF Comes
<1> QED BY <1>1, <1>2, <1>3, <1>4, <1>5, <1>6, <1>7 DEF IInv

LEMMA DetachOwnerKeeps ==
  ASSUME IInv, NEW p \in Detachable, DetachOwner(p)
  PROVE  IInv'
<1> USE DEF DetachOwner, bufVars, threadVars, history
<1>0. /\ \A q \in Pins : owned'[q] => owned[q]
      /\ UNCHANGED <<bufVars, receivers, receiversLock, queue, threadVars, history>>
  BY DEF IInv, TypeOK
<1>1. TypeOK'
  <2>1. owned' \in [Pins -> BOOLEAN]
    BY DEF IInv, TypeOK
  <2> HIDE DEF DetachOwner
  <2> QED BY <1>0, <2>1 DEF IInv, TypeOK, Signals
<1> HIDE DEF DetachOwner
<1>2. Roles' /\ OneFan'
  BY <1>0 DEF IInv, Roles, OneFan, Fanning, Delivering, At
<1>3. Slots' /\ LastDelivered'
  BY <1>0 DEF IInv, Slots, Undisturbed, LastDelivered, Storing, NextOffset, At
<1>4. RetainsBalance'
  BY <1>0, BalanceStands
<1>5. FanOutsDoNotOverlap'
  BY <1>0 DEF IInv, FanOutsDoNotOverlap
<1>6. InOrder'
  BY <1>0 DEF IInv, InOrder, OneWriter, Dropping, Reading, At
<1>7. Newest'
  BY <1>0 DEF IInv, Newest, Comes, OneWriter, Written, Queued, Served, Read, Fanning, Delivering, At
<1> QED BY <1>1, <1>2, <1>3, <1>4, <1>5, <1>6, <1>7 DEF IInv

LEMMA StutterKeeps ==
  ASSUME IInv, UNCHANGED vars
  PROVE  IInv'
<1> USE DEF vars, bufVars, linkVars, threadVars, history
<1>1. TypeOK'
  BY DEF IInv, TypeOK, Signals
<1>2. Roles' /\ OneFan'
  BY DEF IInv, Roles, OneFan, Fanning, Delivering, At
<1>3. Slots' /\ LastDelivered'
  BY DEF IInv, Slots, Undisturbed, LastDelivered, Storing, NextOffset, At
<1>4. RetainsBalance'
  BY BalanceStands
<1>5. FanOutsDoNotOverlap'
  BY DEF IInv, FanOutsDoNotOverlap
<1>6. InOrder'
  BY DEF IInv, InOrder, OneWriter, Dropping, Reading, At
<1>7. Newest'
  BY DEF IInv, Newest, Comes, OneWriter, Written, Queued, Served, Read, Fanning, Delivering, At
<1> QED BY <1>1, <1>2, <1>3, <1>4, <1>5, <1>6, <1>7 DEF IInv

-----------------------------------------------------------------------------
(***************************************************************************)
(* The theorems.                                                           *)
(***************************************************************************)
LEMMA NextIInv == IInv /\ [Next]_vars => IInv'
<1> SUFFICES ASSUME IInv, [Next]_vars PROVE IInv'
  OBVIOUS
<1> HIDE DEF Threads
<1>1. ASSUME NEW t \in Threads, DeliverStep(t) PROVE IInv'
  BY <1>1, TakeOldKeeps, StoreKeeps, BumpKeeps, DropKeeps, PostKeeps DEF DeliverStep
<1>2. ASSUME NEW w \in Workers, WorkerStep(w) PROVE IInv'
  BY <1>2, TakeSignalKeeps, FanLockKeeps, FanNextKeeps, FanUnlockKeeps, CallOwnerKeeps DEF WorkerStep
<1>3. ASSUME NEW t \in Connectors, ConnectStep(t) PROVE IInv'
  BY <1>3, ReadOffsetKeeps, ReadSlotKeeps, SendOnConnectKeeps DEF ConnectStep
<1> QED BY <1>1, <1>2, <1>3, WriteKeeps, AttachKeeps, DetachOwnerKeeps, StutterKeeps DEF Next

LEMMA Invariant == Spec => []IInv
<1> QED BY InitIInv, NextIInv, PTL DEF Spec

\* What the pins hold, what is queued and where every thread stands has the type it should
\* have, in particular the offset into the two slots and the values in the signals
\* (deliverData:fromSender: of JMXPin.mm).
THEOREM TypeCorrect == Spec => []TypeOK
<1>1. IInv => TypeOK
  BY DEF IInv
<1> QED BY <1>1, Invariant, PTL

\* As long as two deliveries to a pin have not overlapped, the pin has retained each object as
\* often as it is in a slot or still has to be released (the retain and the release of
\* deliverData:fromSender:).
THEOREM RetainsAreBalanced == Spec => []RetainsBalance
<1>1. IInv => RetainsBalance
  BY DEF IInv
<1> QED BY <1>1, Invariant, PTL

\* As long as two deliveries to a pin have not overlapped, its data is the last value that was
\* delivered, except in the middle of a delivery.
THEOREM PinHoldsLastDelivered == Spec => []LastDelivered
<1>1. IInv => LastDelivered
  BY DEF IInv
<1> QED BY <1>1, Invariant, PTL

\* The fan-outs of any number of signal threads take turns at receiversLock, so that they never
\* deliver to one receiver at the same time.
THEOREM FanOutsTakeTurns == Spec => []FanOutsDoNotOverlap
<1>1. IInv => FanOutsDoNotOverlap
  BY DEF IInv
<1> QED BY <1>1, Invariant, PTL

\* With one writer, whatever the signal threads and the connecting threads do, every receiver
\* has got the newest value once nothing moves: attachObject: of JMXOutputPin attaches first
\* and reads afterwards.
THEOREM NoGapOnConnect == Spec => []NewestReachesAll
<1>1. ASSUME IInv PROVE NewestReachesAll
  <2> SUFFICES ASSUME Quiet, owned[Out], OneWriter, NEW i \in receivers
               PROVE  \/ last[Out] \notin Accepts[i]
                      \/ got[i][last[Out]] > 0
                      \/ last[Out] = Initial /\ i \in Attached
    BY DEF NewestReachesAll
  <2>1. ~Written(last[Out]) /\ ~Served(i, last[Out]) /\ ~Read(i, last[Out])
    BY DEF Quiet, Written, Served, Read, Fanning, Delivering, At
  <2>2. ~Queued(last[Out])
    BY DEF Quiet, Queued
  <2> QED BY <1>1, <2>1, <2>2 DEF IInv, Newest, Comes
<1> QED BY <1>1, Invariant, PTL

\* With one writer, a thread that reads the output pin without a lock retains an object that is
\* still alive, unless two deliveries were finished since it loaded the offset (readData of
\* JMXPin.mm).
THEOREM SecondSlotProtectsReaders == Spec => []ReadersFindLiveData
<1>1. ASSUME IInv PROVE ReadersFindLiveData
  <2> SUFFICES ASSUME OneWriter, NEW t \in Connectors, At(t, "retain"), laps[t] <= 1, data[t] # Nil
               PROVE  \E p \in Pins : retains[p][data[t]] > 0
    BY DEF ReadersFindLiveData, Alive
  <2> DEFINE v == data[t]
  <2>1. laps[t] \in {0, 1} /\ v \in Values /\ next[t] \in 0 .. 1
    BY <1>1 DEF IInv, TypeOK
  <2>2. dataBuffer[Out][next[t]] = v \/ Dropping(v)
    BY <1>1, <2>1 DEF IInv, InOrder
  <2>3. retains[Out][v] = Places(Out, v) + Pending(Out, v)
    BY <1>1, <2>1 DEF IInv, InOrder, RetainsBalance
  <2>4. Pending(Out, v) \in Nat /\ Places(Out, v) \in Nat
    BY ReleasersCount, PlacesCount
  <2>5. CASE dataBuffer[Out][next[t]] = v
    <3>1. Places(Out, v) > 0
      BY <2>1, <2>5, PlacesCount
    <3> QED BY <2>3, <2>4, <3>1
  <2>6. CASE Dropping(v)
    <3>1. Releasers(Out, v) # {}
      BY <1>1, <2>6 DEF Dropping, Releasers, IInv, Roles
    <3>2. Pending(Out, v) # 0
      BY <3>1, ReleasersCount, FS_EmptySet
    <3> QED BY <2>3, <2>4, <3>2
  <2> QED BY <2>2, <2>5, <2>6
<1> QED BY <1>1, Invariant, PTL
=============================================================================
