-------------------------- MODULE PinSignals_proofs --------------------------
(***************************************************************************)
(* Every delivery is one call of the owner: a count of the signals on      *)
(* their way, on top of the invariant of PinDelivery_proofs.               *)
(***************************************************************************)
EXTENDS PinDelivery_proofs

-----------------------------------------------------------------------------
(***************************************************************************)
(* What is counted.                                                        *)
(***************************************************************************)
Signal(p, v) == [pin |-> p, data |-> v]

\* The places in the queues q where signal s waits.
WaitingIn(q, s) == UNION {{w} \X {k \in 1 .. Len(q[w]) : q[w][k] = s} : w \in Workers}

\* Threads with a delivery of v to i, or a signal about it, in their hands.
Carrying(i, v) == {t \in Threads : /\ pin[t] = i /\ data[t] = v
                                   /\ pc[t] \in {"take", "store", "bump", "drop", "post", "call"}}

\* Writers with v, fan-outs that have still to bring v to i, threads that connect i and have yet
\* to deliver what they read.
WritersWith(v) == {t \in Writers : Delivering(t) /\ data[t] = v}
FansWith(i, v) ==
  {w \in Workers : signal[w] = v /\ (At(w, "fanLock") \/ (Fanning(w) /\ i \in todo[w]))}
ReadersOf(i) == {c \in Connectors : pin[c] = i /\ pc[c] \in {"read", "fetch", "retain"}}

FiniteQueues == \A s \in Signals : IsFiniteSet(WaitingIn(queue, s))

Conserved ==
  \A i \in Inputs, v \in Values :
    owned[i] => told[i][v] + Cardinality(WaitingIn(queue, Signal(i, v)))
                           + Cardinality(Carrying(i, v)) = got[i][v]

\* A value reaches a receiver through its fan-out, once, and through a connect, once.  What is
\* to come of either is counted with what has come.
Spent(i, v) ==
  got[i][v] + Cardinality(WaitingIn(queue, Signal(Out, v))) + Cardinality(WritersWith(v))
            + Cardinality(FansWith(i, v)) + Cardinality(ReadersOf(i))
            + (IF v > written THEN 1 ELSE 0) + (IF i \in receivers THEN 0 ELSE 1)
Budget ==
  \A i \in Inputs, v \in Values : Spent(i, v) \in Int /\ Spent(i, v) <= IF i \in Attached THEN 1 ELSE 2

Counts == FiniteQueues /\ Conserved /\ Budget

USE DeliveryAssumption DEF DeliveryAssumption, Threads, Pins, Values, Nil, DeliverSteps

-----------------------------------------------------------------------------
(***************************************************************************)
(* Counting.                                                               *)
(***************************************************************************)
LEMMA FiniteCounts ==
  ASSUME NEW i, NEW v
  PROVE  /\ IsFiniteSet(Carrying(i, v)) /\ Cardinality(Carrying(i, v)) \in Nat
         /\ IsFiniteSet(WritersWith(v)) /\ Cardinality(WritersWith(v)) \in Nat
         /\ IsFiniteSet(FansWith(i, v)) /\ Cardinality(FansWith(i, v)) \in Nat
         /\ IsFiniteSet(ReadersOf(i)) /\ Cardinality(ReadersOf(i)) \in Nat
<1>1. Carrying(i, v) \in SUBSET Threads
  BY DEF Carrying
<1>2. WritersWith(v) \in SUBSET Writers
  BY DEF WritersWith
<1>3. FansWith(i, v) \in SUBSET Workers
  BY DEF FansWith
<1>4. ReadersOf(i) \in SUBSET Connectors
  BY DEF ReadersOf
<1>5. /\ IsFiniteSet(Carrying(i, v)) /\ IsFiniteSet(WritersWith(v))
      /\ IsFiniteSet(FansWith(i, v)) /\ IsFiniteSet(ReadersOf(i))
  BY <1>1, <1>2, <1>3, <1>4, FiniteThreads, FS_Subset
<1> QED BY <1>5, FS_CardinalityType

LEMMA OneMore ==
  ASSUME NEW S, NEW x, IsFiniteSet(S), x \notin S
  PROVE  /\ IsFiniteSet(S \cup {x}) /\ Cardinality(S) \in Nat /\ Cardinality(S \cup {x}) \in Nat
         /\ Cardinality(S \cup {x}) = Cardinality(S) + 1
BY FS_AddElement, FS_CardinalityType

LEMMA OneLess ==
  ASSUME NEW S, NEW x, IsFiniteSet(S)
  PROVE  /\ IsFiniteSet(S \ {x}) /\ Cardinality(S) \in Nat /\ Cardinality(S \ {x}) \in Nat
         /\ Cardinality(S \ {x}) = Cardinality(S) - (IF x \in S THEN 1 ELSE 0)
<1>1. IsFiniteSet(S \ {x}) /\ Cardinality(S) \in Nat
  BY FS_RemoveElement, FS_CardinalityType
<1>2. Cardinality(S \ {x}) \in Nat
  BY <1>1, FS_CardinalityType
<1>3. Cardinality(S \ {x}) = IF x \in S THEN Cardinality(S) - 1 ELSE Cardinality(S)
  BY FS_RemoveElement
<1> QED BY <1>1, <1>2, <1>3

LEMMA WaitingMember ==
  ASSUME NEW q, NEW s, NEW x
  PROVE  x \in WaitingIn(q, s) <=> /\ x = <<x[1], x[2]>> /\ x[1] \in Workers
                                   /\ x[2] \in 1 .. Len(q[x[1]]) /\ q[x[1]][x[2]] = s
BY DEF WaitingIn

LEMMA WaitingPair ==
  ASSUME NEW q, NEW s, NEW u, NEW k
  PROVE  <<u, k>> \in WaitingIn(q, s) <=> u \in Workers /\ k \in 1 .. Len(q[u]) /\ q[u][k] = s
BY DEF WaitingIn

\* The queues q2 are q with s appended to the one of w, and q without s at its head.
Longer(q, q2, w, s) ==
  /\ w \in Workers /\ Len(q[w]) \in Nat
  /\ Len(q2[w]) = Len(q[w]) + 1 /\ q2[w][Len(q[w]) + 1] = s
  /\ \A k \in 1 .. Len(q[w]) : q2[w][k] = q[w][k]
  /\ \A u \in Workers \ {w} : q2[u] = q[u]
Shorter(q, q2, w, s) ==
  /\ w \in Workers /\ Len(q[w]) \in Nat \ {0} /\ q[w][1] = s
  /\ Len(q2[w]) = Len(q[w]) - 1
  /\ \A k \in 1 .. Len(q[w]) - 1 : q2[w][k] = q[w][k + 1]
  /\ \A u \in Workers \ {w} : q2[u] = q[u]

\* A signal is queued.
LEMMA AppendCount ==
  ASSUME NEW q, NEW q2, NEW w, NEW s, NEW r, IsFiniteSet(WaitingIn(q, r)), Longer(q, q2, w, s)
  PROVE  /\ IsFiniteSet(WaitingIn(q2, r))
         /\ Cardinality(WaitingIn(q2, r)) = Cardinality(WaitingIn(q, r)) + (IF r = s THEN 1 ELSE 0)
<1> DEFINE x == <<w, Len(q[w]) + 1>>
<1>1. /\ w \in Workers /\ Len(q[w]) \in Nat /\ Len(q2[w]) = Len(q[w]) + 1 /\ q2[w][Len(q[w]) + 1] = s
      /\ \A k \in 1 .. Len(q[w]) : q2[w][k] = q[w][k]
      /\ \A u \in Workers \ {w} : q2[u] = q[u]
  BY DEF Longer
<1>2. x \notin WaitingIn(q, r)
  BY <1>1, WaitingMember
<1>3. \A y : y \in WaitingIn(q2, r) <=> y \in WaitingIn(q, r) \/ (r = s /\ y = x)
  <2> TAKE y
  <2>1. CASE y[1] = w
    <3>1. y[2] \in 1 .. Len(q[w]) + 1 <=> y[2] \in 1 .. Len(q[w]) \/ y[2] = Len(q[w]) + 1
      BY <1>1
    <3>2. y \in WaitingIn(q, r) <=> y = <<w, y[2]>> /\ y[2] \in 1 .. Len(q[w]) /\ q[w][y[2]] = r
      BY <1>1, <2>1, WaitingMember
    <3>3. y \in WaitingIn(q2, r) <=> y = <<w, y[2]>> /\ y[2] \in 1 .. Len(q[w]) + 1 /\ q2[w][y[2]] = r
      BY <1>1, <2>1, WaitingMember
    <3>4. y = x => y[2] = Len(q[w]) + 1
      OBVIOUS
    <3>5. Len(q[w]) + 1 \notin 1 .. Len(q[w])
      BY <1>1
    <3> QED BY <1>1, <3>1, <3>2, <3>3, <3>4, <3>5
  <2>2. CASE y[1] # w
    <3>1. y # x
      BY <2>2
    <3> QED BY <1>1, <2>2, <3>1, WaitingMember
  <2> QED BY <2>1, <2>2
<1> HIDE DEF x
<1>4. CASE r = s
  <2>1. WaitingIn(q2, r) = WaitingIn(q, r) \cup {x}
    BY <1>3, <1>4
  <2>2. /\ IsFiniteSet(WaitingIn(q, r) \cup {x})
        /\ Cardinality(WaitingIn(q, r) \cup {x}) = Cardinality(WaitingIn(q, r)) + 1
    BY <1>2, OneMore
  <2> QED BY <1>4, <2>1, <2>2
<1>5. CASE r # s
  <2>1. WaitingIn(q2, r) = WaitingIn(q, r)
    BY <1>3, <1>5
  <2>2. Cardinality(WaitingIn(q, r)) \in Nat
    BY FS_CardinalityType
  <2> QED BY <1>5, <2>1, <2>2
<1> QED BY <1>4, <1>5

\* A run loop takes its next signal.
LEMMA TailCount ==
  ASSUME NEW q, NEW q2, NEW w, NEW s, NEW r, IsFiniteSet(WaitingIn(q, r)), Shorter(q, q2, w, s)
  PROVE  /\ IsFiniteSet(WaitingIn(q2, r))
         /\ Cardinality(WaitingIn(q2, r)) = Cardinality(WaitingIn(q, r)) - (IF r = s THEN 1 ELSE 0)
<1> DEFINE x == <<w, 1>>
           A == WaitingIn(q, r) \ {x}
           B == WaitingIn(q2, r)
           f == [y \in A |-> IF y[1] = w THEN <<w, y[2] - 1>> ELSE y]
<1>1. /\ Len(q[w]) \in Nat \ {0} /\ Len(q2[w]) = Len(q[w]) - 1 /\ q[w][1] = s
      /\ \A k \in 1 .. Len(q[w]) - 1 : q2[w][k] = q[w][k + 1]
      /\ w \in Workers /\ \A u \in Workers \ {w} : q2[u] = q[u]
  BY DEF Shorter
<1>2. x \in WaitingIn(q, r) <=> r = s
  BY <1>1, WaitingMember
<1>3. \A y \in A : y = <<y[1], y[2]>> /\ (y[1] = w => y[2] \in 2 .. Len(q[w]))
  BY <1>1, WaitingMember
<1>4. \A y \in A : f[y] \in B
  <2> SUFFICES ASSUME NEW y \in A PROVE f[y] \in B
    OBVIOUS
  <2>1. CASE y[1] = w
    <3>1. y[2] \in 2 .. Len(q[w]) /\ q[w][y[2]] = r
      BY <1>3, <2>1, WaitingMember
    <3>2. y[2] - 1 \in 1 .. Len(q[w]) - 1 /\ q2[w][y[2] - 1] = q[w][y[2]]
      <4> DEFINE k == y[2] - 1
      <4>1. k \in 1 .. Len(q[w]) - 1 /\ k + 1 = y[2]
        BY <1>1, <3>1
      <4> HIDE DEF k
      <4>2. q2[w][k] = q[w][y[2]]
        BY <1>1, <4>1
      <4> QED BY <4>1, <4>2 DEF k
    <3>3. <<w, y[2] - 1>> \in B
      BY <1>1, <3>1, <3>2, WaitingPair
    <3> QED BY <2>1, <3>3
  <2>2. CASE y[1] # w
    BY <1>1, <2>2, WaitingMember
  <2> QED BY <2>1, <2>2
<1>5. \A y, z \in A : f[y] = f[z] => y = z
  <2> SUFFICES ASSUME NEW y \in A, NEW z \in A, f[y] = f[z] PROVE y = z
    OBVIOUS
  <2>0. /\ y[1] = w => f[y] = <<w, y[2] - 1>>
        /\ z[1] = w => f[z] = <<w, z[2] - 1>>
        /\ y[1] # w => f[y] = y
        /\ z[1] # w => f[z] = z
    OBVIOUS
  <2> HIDE DEF A, f
  <2>1. CASE y[1] = w /\ z[1] = w
    <3>1. <<w, y[2] - 1>> = <<w, z[2] - 1>>
      BY <2>0, <2>1
    <3>2. y[2] - 1 = z[2] - 1
      BY <3>1
    <3>3. y[2] \in Int /\ z[2] \in Int
      BY <1>1, <1>3, <2>1
    <3>4. y[2] = z[2]
      BY <3>2, <3>3
    <3>5. y = <<y[1], y[2]>> /\ z = <<z[1], z[2]>>
      BY <1>3
    <3> QED BY <2>1, <3>4, <3>5
  <2>2. CASE y[1] = w /\ z[1] # w
    <3>1. z = <<w, y[2] - 1>>
      BY <2>0, <2>2
    <3>2. z[1] = w
      BY <3>1
    <3> QED BY <2>2, <3>2
  <2>3. CASE y[1] # w /\ z[1] = w
    <3>1. y = <<w, z[2] - 1>>
      BY <2>0, <2>3
    <3>2. y[1] = w
      BY <3>1
    <3> QED BY <2>3, <3>2
  <2>4. CASE y[1] # w /\ z[1] # w
    BY <2>0, <2>4
  <2> QED BY <2>1, <2>2, <2>3, <2>4
<1>6. \A z \in B : \E y \in A : f[y] = z
  <2> SUFFICES ASSUME NEW z \in B PROVE \E y \in A : f[y] = z
    OBVIOUS
  <2>1. CASE z[1] = w
    <3>1. z = <<w, z[2]>> /\ z[2] \in 1 .. Len(q[w]) - 1 /\ q2[w][z[2]] = r
      BY <1>1, <2>1, WaitingMember
    <3>2. z[2] + 1 \in 1 .. Len(q[w]) /\ q[w][z[2] + 1] = r /\ <<w, z[2] + 1>> # x
      BY <1>1, <3>1
    <3>3. <<w, z[2] + 1>> \in A
      BY <1>1, <3>2, WaitingPair
    <3> DEFINE y == <<w, z[2] + 1>>
    <3>4. y[1] = w /\ y[2] = z[2] + 1
      OBVIOUS
    <3> HIDE DEF y, A
    <3>5. f[y] = <<w, y[2] - 1>>
      BY <3>3, <3>4 DEF y
    <3>6. z[2] + 1 - 1 = z[2]
      BY <1>1, <3>1
    <3> HIDE DEF f
    <3>7. f[y] = z
      BY <3>1, <3>4, <3>5, <3>6
    <3>8. y \in A
      BY <3>3 DEF y
    <3> QED BY <3>7, <3>8
  <2>2. CASE z[1] # w
    BY <1>1, <2>2, WaitingMember
  <2> QED BY <2>1, <2>2
<1>7. f \in Bijection(A, B)
  <2>1. f \in [A -> B]
    BY <1>4
  <2> HIDE DEF f, A, B
  <2>2. f \in Injection(A, B)
    BY <1>5, <2>1 DEF Injection, IsInjective
  <2>3. f \in Surjection(A, B)
    BY <1>6, <2>1 DEF Surjection
  <2> QED BY <2>2, <2>3 DEF Bijection
<1>8. IsFiniteSet(A) /\ Cardinality(A) = Cardinality(WaitingIn(q, r)) - (IF r = s THEN 1 ELSE 0)
  <2> HIDE DEF x
  <2> QED BY <1>2, OneLess
<1>9. IsFiniteSet(B) /\ Cardinality(B) = Cardinality(A)
  <2> HIDE DEF f, A, B
  <2> QED BY <1>7, <1>8, FS_Bijection DEF ExistsBijection
<1> QED BY <1>8, <1>9

-----------------------------------------------------------------------------
(***************************************************************************)
(* Steps that count nothing anew.                                          *)
(***************************************************************************)
LEMMA CountTypes ==
  ASSUME IInv, Counts, NEW i \in Inputs, NEW v \in Values
  PROVE  /\ Cardinality(FansWith(i, v)) \in Nat /\ Cardinality(WritersWith(v)) \in Nat
         /\ Cardinality(ReadersOf(i)) \in Nat /\ Cardinality(Carrying(i, v)) \in Nat
         /\ Cardinality(WaitingIn(queue, Signal(Out, v))) \in Nat
         /\ Cardinality(WaitingIn(queue, Signal(i, v))) \in Nat
         /\ got[i][v] \in Nat /\ told[i][v] \in Nat
<1>1. Signal(Out, v) \in Signals /\ Signal(i, v) \in Signals
  BY DEF Signal, Signals
<1>2. /\ Cardinality(WaitingIn(queue, Signal(Out, v))) \in Nat
      /\ Cardinality(WaitingIn(queue, Signal(i, v))) \in Nat
  BY <1>1, FS_CardinalityType DEF Counts, FiniteQueues
<1>3. got[i][v] \in Nat /\ told[i][v] \in Nat
  BY DEF IInv, TypeOK
<1> QED BY <1>2, <1>3, FiniteCounts

LEMMA SpentNext ==
  ASSUME NEW i, NEW v
  PROVE  Spent(i, v)' = got'[i][v] + Cardinality(WaitingIn(queue', Signal(Out, v)))
                      + Cardinality(WritersWith(v)') + Cardinality(FansWith(i, v)')
                      + Cardinality(ReadersOf(i)')
                      + (IF v > written' THEN 1 ELSE 0) + (IF i \in receivers' THEN 0 ELSE 1)
BY DEF Spent, Signal

LEMMA BudgetStands ==
  ASSUME IInv, Counts,
         \A i \in Inputs, v \in Values : Spent(i, v)' \in Int /\ Spent(i, v)' <= Spent(i, v)
  PROVE  Budget'
BY DEF Counts, Budget

LEMMA CountsStand ==
  ASSUME Counts, UNCHANGED <<queue, got, told, written, receivers>>,
         \A i \in Inputs : owned'[i] => owned[i],
         \A i \in Inputs, v \in Values :
           /\ Carrying(i, v)' = Carrying(i, v) /\ WritersWith(v)' = WritersWith(v)
           /\ FansWith(i, v)' = FansWith(i, v) /\ ReadersOf(i)' = ReadersOf(i)
  PROVE  Counts'
<1>1. FiniteQueues'
  BY DEF Counts, FiniteQueues
<1>2. Conserved'
  BY DEF Counts, Conserved
<1>3. Budget'
  BY DEF Counts, Budget, Spent, Signal
<1> QED BY <1>1, <1>2, <1>3 DEF Counts

LEMMA InitCounts == Init => Counts
<1> SUFFICES ASSUME Init PROVE Counts
  OBVIOUS
<1>1. \A s : WaitingIn(queue, s) = {}
  BY DEF Init, WaitingIn
<1>2. \A i, v : Carrying(i, v) = {} /\ WritersWith(v) = {} /\ FansWith(i, v) = {} /\ ReadersOf(i) = {}
  BY DEF Init, Carrying, WritersWith, FansWith, ReadersOf, Delivering, Fanning, At
<1>3. FiniteQueues
  BY <1>1, FS_EmptySet DEF FiniteQueues
<1>4. \A i \in Inputs, v \in Values : got[i][v] = 0 /\ told[i][v] = 0
  BY DEF Init
<1>5. Conserved
  <2> SUFFICES ASSUME NEW i \in Inputs, NEW v \in Values
               PROVE  0 + 0 + 0 = 0
    BY <1>1, <1>2, <1>4, FS_EmptySet DEF Conserved
  <2> QED OBVIOUS
<1>6. Budget
  <2> SUFFICES ASSUME NEW i \in Inputs, NEW v \in Values
               PROVE  Spent(i, v) \in Int /\ Spent(i, v) <= IF i \in Attached THEN 1 ELSE 2
    BY DEF Budget
  <2>1. Spent(i, v) = 0 + 0 + 0 + 0 + 0 + (IF v > written THEN 1 ELSE 0)
                        + (IF i \in receivers THEN 0 ELSE 1)
    BY <1>1, <1>2, <1>4, FS_EmptySet DEF Spent
  <2> QED BY <2>1 DEF Init
<1> QED BY <1>3, <1>5, <1>6 DEF Counts

LEMMA DeliverStepCounts ==
  ASSUME IInv, Counts, NEW t \in Threads,
         TakeOld(t) \/ Store(t) \/ Bump(t) \/ Drop(t)
  PROVE  Counts'
<1>1. /\ pc[t] \in {"take", "store", "bump", "drop"}
      /\ pc'[t] \in DeliverSteps /\ \A u \in Threads \ {t} : pc'[u] = pc[u]
      /\ UNCHANGED <<owned, receivers, queue, pin, data, todo, signal, written, got, told>>
  BY DEF TakeOld, Store, Bump, Drop, At, Goto, bufVars, linkVars, history, IInv, TypeOK
<1>2. \A i \in Inputs, v \in Values :
        /\ Carrying(i, v)' = Carrying(i, v) /\ WritersWith(v)' = WritersWith(v)
        /\ FansWith(i, v)' = FansWith(i, v) /\ ReadersOf(i)' = ReadersOf(i)
  BY <1>1 DEF Carrying, WritersWith, FansWith, ReadersOf, Delivering, Fanning, At
<1> QED BY <1>1, <1>2, CountsStand

LEMMA ReadCounts ==
  ASSUME IInv, Counts, NEW t \in Connectors, ReadOffset(t) \/ ReadSlot(t)
  PROVE  Counts'
<1>1. /\ t \in Threads /\ pc[t] \in {"read", "fetch"} /\ pc'[t] \in {"fetch", "retain"}
      /\ \A u \in Threads \ {t} : pc'[u] = pc[u] /\ data'[u] = data[u]
      /\ UNCHANGED <<owned, receivers, queue, pin, todo, signal, written, got, told>>
  BY DEF ReadOffset, ReadSlot, At, Goto, linkVars, history, IInv, TypeOK
<1>2. \A i \in Inputs, v \in Values :
        /\ Carrying(i, v)' = Carrying(i, v) /\ WritersWith(v)' = WritersWith(v)
        /\ FansWith(i, v)' = FansWith(i, v) /\ ReadersOf(i)' = ReadersOf(i)
  BY <1>1 DEF Carrying, WritersWith, FansWith, ReadersOf, Delivering, Fanning, At
<1> QED BY <1>1, <1>2, CountsStand

LEMMA DetachOwnerCounts ==
  ASSUME IInv, Counts, NEW p \in Detachable, DetachOwner(p)
  PROVE  Counts'
<1>1. /\ \A i \in Inputs : owned'[i] => owned[i]
      /\ UNCHANGED <<receivers, queue, threadVars, written, got, told>>
  BY DEF DetachOwner, history, IInv, TypeOK
<1>2. \A i \in Inputs, v \in Values :
        /\ Carrying(i, v)' = Carrying(i, v) /\ WritersWith(v)' = WritersWith(v)
        /\ FansWith(i, v)' = FansWith(i, v) /\ ReadersOf(i)' = ReadersOf(i)
  BY <1>1 DEF Carrying, WritersWith, FansWith, ReadersOf, Delivering, Fanning, At, threadVars
<1> QED BY <1>1, <1>2, CountsStand

LEMMA StutterCounts ==
  ASSUME Counts, UNCHANGED vars
  PROVE  Counts'
<1>1. \A i \in Inputs, v \in Values :
        /\ Carrying(i, v)' = Carrying(i, v) /\ WritersWith(v)' = WritersWith(v)
        /\ FansWith(i, v)' = FansWith(i, v) /\ ReadersOf(i)' = ReadersOf(i)
  BY DEF Carrying, WritersWith, FansWith, ReadersOf, Delivering, Fanning, At, vars, threadVars
<1> QED BY <1>1, CountsStand DEF vars, linkVars, history

-----------------------------------------------------------------------------
(***************************************************************************)
(* Steps of the signal threads.                                            *)
(***************************************************************************)
LEMMA FanUnlockCounts ==
  ASSUME IInv, Counts, NEW w \in Workers, FanUnlock(w)
  PROVE  Counts'
<1>1. /\ w \in Threads /\ pc[w] = "fan" /\ pc'[w] = "idle" /\ todo[w] = {}
      /\ \A u \in Threads \ {w} : pc'[u] = pc[u] /\ signal'[u] = signal[u]
      /\ UNCHANGED <<owned, receivers, queue, pin, data, todo, written, got, told>>
  BY DEF FanUnlock, At, Goto, bufVars, history, IInv, TypeOK
<1>2. \A i \in Inputs, v \in Values :
        /\ Carrying(i, v)' = Carrying(i, v) /\ WritersWith(v)' = WritersWith(v)
        /\ FansWith(i, v)' = FansWith(i, v) /\ ReadersOf(i)' = ReadersOf(i)
  BY <1>1 DEF Carrying, WritersWith, FansWith, ReadersOf, Delivering, Fanning, At
<1> QED BY <1>1, <1>2, CountsStand

LEMMA FanLockCounts ==
  ASSUME IInv, Counts, NEW w \in Workers, FanLock(w)
  PROVE  Counts'
<1>1. /\ w \in Threads /\ pc[w] = "fanLock" /\ pc'[w] = "fan"
      /\ \A u \in Threads \ {w} : pc'[u] = pc[u] /\ todo'[u] = todo[u]
      /\ UNCHANGED <<owned, receivers, queue, pin, data, signal, written, got, told>>
  BY DEF FanLock, At, Goto, bufVars, history, IInv, TypeOK
<1>2. \A i \in Inputs, v \in Values :
        /\ Carrying(i, v)' = Carrying(i, v) /\ WritersWith(v)' = WritersWith(v)
        /\ ReadersOf(i)' = ReadersOf(i)
  BY <1>1 DEF Carrying, WritersWith, ReadersOf, Delivering
<1>3. FiniteQueues' /\ Conserved'
  BY <1>1, <1>2 DEF Counts, FiniteQueues, Conserved
<1>4. ASSUME NEW i \in Inputs, NEW v \in Values
      PROVE  Spent(i, v)' \in Int /\ Spent(i, v)' <= Spent(i, v)
  <2>1. FansWith(i, v)' \in SUBSET FansWith(i, v)
    BY <1>1 DEF FansWith, Fanning, Delivering, At
  <2>2. Cardinality(FansWith(i, v)') <= Cardinality(FansWith(i, v)) /\ Cardinality(FansWith(i, v)') \in Nat
    BY <2>1, FiniteCounts, FS_Subset, FS_CardinalityType
  <2> QED BY <1>1, <1>2, <2>2, CountTypes, SpentNext DEF Spent
<1>5. Budget'
  BY <1>4, BudgetStands
<1> QED BY <1>3, <1>5 DEF Counts

LEMMA TakeSignalCounts ==
  ASSUME IInv, Counts, NEW w \in Workers, TakeSignal(w)
  PROVE  Counts'
<1> DEFINE s == Head(queue[w])
<1>0. queue \in [Workers -> Seq(Signals)] /\ queue' \in [Workers -> Seq(Signals)]
  BY TakeSignalKeeps DEF IInv, TypeOK
<1>1. /\ Len(queue[w]) > 0 /\ queue[w][1] = s /\ Len(queue'[w]) = Len(queue[w]) - 1
      /\ \A k \in 1 .. Len(queue[w]) - 1 : queue'[w][k] = queue[w][k + 1]
      /\ \A u \in Workers \ {w} : queue'[u] = queue[u]
      /\ s \in Signals
  BY <1>0 DEF TakeSignal
<1>2. /\ w \in Threads /\ pc[w] = "idle"
      /\ s.pin = Out => pc'[w] = "fanLock" /\ signal'[w] = s.data
      /\ s.pin # Out /\ owned[s.pin] => pc'[w] = "call" /\ pin'[w] = s.pin /\ data'[w] = s.data
      /\ s.pin # Out /\ ~owned[s.pin] => pc'[w] = "idle"
      /\ \A u \in Threads \ {w} : /\ pc'[u] = pc[u] /\ signal'[u] = signal[u]
                                  /\ pin'[u] = pin[u] /\ data'[u] = data[u]
      /\ UNCHANGED <<owned, receivers, todo, written, got, told>>
  BY DEF TakeSignal, At, Goto, linkVars, history, IInv, TypeOK
<1>3. \A r \in Signals :
        /\ IsFiniteSet(WaitingIn(queue', r))
        /\ Cardinality(WaitingIn(queue', r))
             = Cardinality(WaitingIn(queue, r)) - (IF r = s THEN 1 ELSE 0)
  <2> TAKE r \in Signals
  <2>1. IsFiniteSet(WaitingIn(queue, r))
    BY DEF Counts, FiniteQueues
  <2>2. Shorter(queue, queue', w, s)
    BY <1>0, <1>1 DEF Shorter
  <2> QED BY <2>1, <2>2, TailCount
<1>4. FiniteQueues'
  BY <1>3 DEF FiniteQueues
<1>5. \A p \in Pins, v \in Values : Signal(p, v) \in Signals /\ (Signal(p, v) = s <=> s.pin = p /\ s.data = v)
  BY <1>1 DEF Signal, Signals
<1> HIDE DEF s
<1>6. ASSUME NEW i \in Inputs, NEW v \in Values, owned[i]
      PROVE  Cardinality(Carrying(i, v)') = Cardinality(Carrying(i, v)) + (IF Signal(i, v) = s THEN 1 ELSE 0)
  <2>1. w \notin Carrying(i, v)
    BY <1>2 DEF Carrying
  <2>2. CASE Signal(i, v) = s
    <3>1. Carrying(i, v)' = Carrying(i, v) \cup {w}
      BY <1>2, <1>5, <1>6, <2>2 DEF Carrying
    <3>2. Cardinality(Carrying(i, v) \cup {w}) = Cardinality(Carrying(i, v)) + 1
      BY <2>1, FiniteCounts, OneMore
    <3> QED BY <2>2, <3>1, <3>2
  <2>3. CASE Signal(i, v) # s
    <3>1. Carrying(i, v)' = Carrying(i, v)
      BY <1>2, <1>5, <2>3 DEF Carrying
    <3> QED BY <2>3, <3>1, FiniteCounts
  <2> QED BY <2>2, <2>3
<1>7. Conserved'
  <2> SUFFICES ASSUME NEW i \in Inputs, NEW v \in Values, owned[i]
               PROVE  told[i][v] + Cardinality(WaitingIn(queue', Signal(i, v)))
                                 + Cardinality(Carrying(i, v)') = got[i][v]
    BY <1>2 DEF Conserved, Signal
  <2> QED BY <1>3, <1>5, <1>6, CountTypes DEF Counts, Conserved
<1>8. ASSUME NEW i \in Inputs, NEW v \in Values
      PROVE  /\ Cardinality(FansWith(i, v)') = Cardinality(FansWith(i, v)) + (IF Signal(Out, v) = s THEN 1 ELSE 0)
             /\ WritersWith(v)' = WritersWith(v) /\ ReadersOf(i)' = ReadersOf(i)
  <2>0. WritersWith(v)' = WritersWith(v) /\ ReadersOf(i)' = ReadersOf(i)
    BY <1>2 DEF WritersWith, ReadersOf, Delivering
  <2>1. w \notin FansWith(i, v)
    BY <1>2 DEF FansWith, Fanning, Delivering, At
  <2>2. CASE Signal(Out, v) = s
    <3>1. FansWith(i, v)' = FansWith(i, v) \cup {w}
      BY <1>2, <1>5, <2>2 DEF FansWith, Fanning, Delivering, At
    <3>2. Cardinality(FansWith(i, v) \cup {w}) = Cardinality(FansWith(i, v)) + 1
      BY <2>1, FiniteCounts, OneMore
    <3> QED BY <2>0, <2>2, <3>1, <3>2
  <2>3. CASE Signal(Out, v) # s
    <3>1. FansWith(i, v)' = FansWith(i, v)
      BY <1>2, <1>5, <2>3 DEF FansWith, Fanning, Delivering, At
    <3> QED BY <2>0, <2>3, <3>1, FiniteCounts
  <2> QED BY <2>2, <2>3
<1>9. ASSUME NEW i \in Inputs, NEW v \in Values
      PROVE  Spent(i, v)' \in Int /\ Spent(i, v)' <= Spent(i, v)
  <2>1. /\ Cardinality(WaitingIn(queue', Signal(Out, v)))
             = Cardinality(WaitingIn(queue, Signal(Out, v))) - (IF Signal(Out, v) = s THEN 1 ELSE 0)
        /\ Cardinality(FansWith(i, v)') = Cardinality(FansWith(i, v)) + (IF Signal(Out, v) = s THEN 1 ELSE 0)
        /\ WritersWith(v)' = WritersWith(v) /\ ReadersOf(i)' = ReadersOf(i)
    BY <1>3, <1>5, <1>8
  <2>2. /\ Cardinality(FansWith(i, v)) \in Nat /\ Cardinality(WritersWith(v)) \in Nat
        /\ Cardinality(ReadersOf(i)) \in Nat /\ got[i][v] \in Nat
        /\ Cardinality(WaitingIn(queue, Signal(Out, v))) \in Nat
    BY CountTypes
  <2> QED BY <1>2, <2>1, <2>2, SpentNext DEF Spent
<1>10. Budget'
  BY <1>9, BudgetStands
<1> QED BY <1>4, <1>7, <1>10 DEF Counts

LEMMA CallOwnerCounts ==
  ASSUME IInv, Counts, NEW w \in Workers, CallOwner(w)
  PROVE  Counts'
<1> DEFINE i == pin[w]
           v == data[w]
<1>1. /\ w \in Threads /\ pc[w] = "call" /\ pc'[w] = "idle" /\ i \in Inputs
      /\ \A u \in Threads \ {w} : pc'[u] = pc[u] /\ pin'[u] = pin[u] /\ data'[u] = data[u]
      /\ UNCHANGED <<owned, receivers, queue, todo, signal, written, got>>
  BY DEF CallOwner, At, Goto, Leave, linkVars, IInv, TypeOK, Roles
<1>2. ASSUME NEW j \in Inputs, NEW x \in Values, owned[j]
      PROVE  told'[j][x] = told[j][x] + (IF w \in Carrying(j, x) THEN 1 ELSE 0)
  <2>1. w \in Carrying(j, x) <=> i = j /\ v = x
    BY <1>1 DEF Carrying
  <2>2. told \in [Inputs -> [Values -> Nat]] /\ told[i] \in [Values -> Nat] /\ told[j][x] \in Nat
    <3>1. told \in [Inputs -> [Values -> Nat]]
      BY DEF IInv, TypeOK
    <3> HIDE DEF i
    <3> QED BY <1>1, <3>1
  <2>3. CASE told' = [told EXCEPT ![i] = [told[i] EXCEPT ![v] = @ + 1]]
    <3> HIDE DEF i, v
    <3> QED BY <1>1, <2>1, <2>2, <2>3
  <2>4. CASE ~owned[i] /\ UNCHANGED told
    BY <1>2, <2>1, <2>2, <2>4
  <2> QED BY <2>3, <2>4 DEF CallOwner
<1>3. ASSUME NEW j \in Inputs, NEW x \in Values
      PROVE  Cardinality(Carrying(j, x)') = Cardinality(Carrying(j, x)) - (IF w \in Carrying(j, x) THEN 1 ELSE 0)
  <2>1. Carrying(j, x)' = Carrying(j, x) \ {w}
    BY <1>1 DEF Carrying
  <2> QED BY <2>1, FiniteCounts, OneLess
<1>4. FiniteQueues'
  BY <1>1 DEF Counts, FiniteQueues
<1>5. Conserved'
  <2> SUFFICES ASSUME NEW j \in Inputs, NEW x \in Values, owned[j]
               PROVE  told'[j][x] + Cardinality(WaitingIn(queue, Signal(j, x)))
                                  + Cardinality(Carrying(j, x)') = got[j][x]
    BY <1>1 DEF Conserved, Signal
  <2> QED BY <1>2, <1>3, CountTypes DEF Counts, Conserved
<1>6. \A j \in Inputs, x \in Values : /\ FansWith(j, x)' = FansWith(j, x)
                                      /\ WritersWith(x)' = WritersWith(x) /\ ReadersOf(j)' = ReadersOf(j)
  BY <1>1 DEF FansWith, WritersWith, ReadersOf, Fanning, Delivering, At
<1>7. ASSUME NEW j \in Inputs, NEW x \in Values
      PROVE  Spent(j, x)' \in Int /\ Spent(j, x)' <= Spent(j, x)
  <2>1. /\ Cardinality(FansWith(j, x)) \in Nat /\ Cardinality(WritersWith(x)) \in Nat
        /\ Cardinality(ReadersOf(j)) \in Nat /\ got[j][x] \in Nat
        /\ Cardinality(WaitingIn(queue, Signal(Out, x))) \in Nat
    BY CountTypes
  <2> QED BY <1>1, <1>6, <2>1, SpentNext DEF Spent
<1>8. Budget'
  BY <1>7, BudgetStands
<1> QED BY <1>4, <1>5, <1>8 DEF Counts

LEMMA PostCounts ==
  ASSUME IInv, Counts, NEW t \in Threads, Post(t)
  PROVE  Counts'
<1> DEFINE p == pin[t]
           s == [pin |-> p, data |-> IF owned[p] THEN data[t] ELSE Nil]
<1> PICK w \in Workers : queue' = [queue EXCEPT ![w] = Append(@, s)]
  BY DEF Post
<1>0. queue \in [Workers -> Seq(Signals)] /\ queue' \in [Workers -> Seq(Signals)]
  BY PostKeeps DEF IInv, TypeOK
<1>1. /\ Len(queue'[w]) = Len(queue[w]) + 1 /\ queue'[w][Len(queue[w]) + 1] = s
      /\ \A k \in 1 .. Len(queue[w]) : queue'[w][k] = queue[w][k]
      /\ \A u \in Workers \ {w} : queue'[u] = queue[u]
  <2> HIDE DEF s
  <2> QED BY <1>0
<1>2. /\ pc[t] = "post" /\ pc'[t] = Home(t) /\ Home(t) \in {"idle", "fan"} /\ (t \in Workers => Home(t) = "fan")
      /\ p \in Pins /\ data[t] \in Values /\ s \in Signals
      /\ \A u \in Threads \ {t} : pc'[u] = pc[u] /\ pin'[u] = pin[u] /\ data'[u] = data[u]
      /\ UNCHANGED <<owned, receivers, todo, signal, written, got, told>>
  BY DEF Post, At, Goto, Leave, Home, linkVars, history, IInv, TypeOK, Roles, Delivering, Signals
<1>3. \A r \in Signals :
        /\ IsFiniteSet(WaitingIn(queue', r))
        /\ Cardinality(WaitingIn(queue', r))
             = Cardinality(WaitingIn(queue, r)) + (IF r = s THEN 1 ELSE 0)
  <2> TAKE r \in Signals
  <2>1. IsFiniteSet(WaitingIn(queue, r))
    BY DEF Counts, FiniteQueues
  <2>2. Longer(queue, queue', w, s)
    <3> HIDE DEF s
    <3> QED BY <1>0, <1>1 DEF Longer
  <2> QED BY <2>1, <2>2, AppendCount
<1>4. FiniteQueues'
  BY <1>3 DEF FiniteQueues
<1>5. \A q \in Pins, v \in Values :
        /\ Signal(q, v) \in Signals
        /\ Signal(q, v) = s <=> p = q /\ owned[p] /\ data[t] = v
  BY <1>2 DEF Signal, Signals
<1> HIDE DEF s
<1>6. ASSUME NEW i \in Inputs, NEW v \in Values, owned[i]
      PROVE  Cardinality(Carrying(i, v)') = Cardinality(Carrying(i, v)) - (IF Signal(i, v) = s THEN 1 ELSE 0)
  <2>1. Carrying(i, v)' = Carrying(i, v) \ {t}
    BY <1>2 DEF Carrying
  <2>2. t \in Carrying(i, v) <=> Signal(i, v) = s
    BY <1>2, <1>5, <1>6 DEF Carrying
  <2>3. Cardinality(Carrying(i, v) \ {t}) = Cardinality(Carrying(i, v)) - (IF t \in Carrying(i, v) THEN 1 ELSE 0)
    BY FiniteCounts, OneLess
  <2> QED BY <2>1, <2>2, <2>3
<1>7. Conserved'
  <2> SUFFICES ASSUME NEW i \in Inputs, NEW v \in Values, owned[i]
               PROVE  told[i][v] + Cardinality(WaitingIn(queue', Signal(i, v)))
                                 + Cardinality(Carrying(i, v)') = got[i][v]
    BY <1>2 DEF Conserved, Signal
  <2>1. /\ Cardinality(WaitingIn(queue', Signal(i, v)))
             = Cardinality(WaitingIn(queue, Signal(i, v))) + (IF Signal(i, v) = s THEN 1 ELSE 0)
        /\ Cardinality(Carrying(i, v)') = Cardinality(Carrying(i, v)) - (IF Signal(i, v) = s THEN 1 ELSE 0)
    BY <1>3, <1>5, <1>6
  <2>2. /\ Cardinality(WaitingIn(queue, Signal(i, v))) \in Nat /\ Cardinality(Carrying(i, v)) \in Nat
        /\ got[i][v] \in Nat /\ told[i][v] \in Nat
    BY CountTypes
  <2>3. told[i][v] + Cardinality(WaitingIn(queue, Signal(i, v))) + Cardinality(Carrying(i, v)) = got[i][v]
    BY DEF Counts, Conserved
  <2> QED BY <2>1, <2>2, <2>3
<1>8. ASSUME NEW i \in Inputs, NEW v \in Values
      PROVE  /\ Cardinality(WritersWith(v)') + (IF Signal(Out, v) = s THEN 1 ELSE 0)
                  <= Cardinality(WritersWith(v))
             /\ Cardinality(WritersWith(v)') \in Int
             /\ FansWith(i, v)' = FansWith(i, v) /\ ReadersOf(i)' = ReadersOf(i)
  <2>1. FansWith(i, v)' = FansWith(i, v) /\ ReadersOf(i)' = ReadersOf(i)
    BY <1>2 DEF FansWith, ReadersOf, Fanning, Delivering, At
  <2>2. WritersWith(v)' = WritersWith(v) \ {t}
    BY <1>2 DEF WritersWith, Delivering
  <2>3. p = Out => t \in Writers
    BY <1>2 DEF IInv, TypeOK, Roles, Delivering
  <2>4. Signal(Out, v) = s => t \in WritersWith(v)
    BY <1>2, <1>5, <2>3 DEF WritersWith, Delivering
  <2>5. /\ Cardinality(WritersWith(v) \ {t})
             = Cardinality(WritersWith(v)) - (IF t \in WritersWith(v) THEN 1 ELSE 0)
        /\ Cardinality(WritersWith(v) \ {t}) \in Nat /\ Cardinality(WritersWith(v)) \in Nat
    BY FiniteCounts, OneLess
  <2> QED BY <2>1, <2>2, <2>4, <2>5
<1>9. ASSUME NEW i \in Inputs, NEW v \in Values
      PROVE  Spent(i, v)' \in Int /\ Spent(i, v)' <= Spent(i, v)
  <2>1. /\ Cardinality(WaitingIn(queue', Signal(Out, v)))
             = Cardinality(WaitingIn(queue, Signal(Out, v))) + (IF Signal(Out, v) = s THEN 1 ELSE 0)
        /\ Cardinality(WritersWith(v)') + (IF Signal(Out, v) = s THEN 1 ELSE 0) <= Cardinality(WritersWith(v))
        /\ Cardinality(WritersWith(v)') \in Int
        /\ FansWith(i, v)' = FansWith(i, v) /\ ReadersOf(i)' = ReadersOf(i)
    BY <1>3, <1>5, <1>8
  <2>2. /\ Cardinality(FansWith(i, v)) \in Nat /\ Cardinality(WritersWith(v)) \in Nat
        /\ Cardinality(ReadersOf(i)) \in Nat /\ got[i][v] \in Nat
        /\ Cardinality(WaitingIn(queue, Signal(Out, v))) \in Nat
    BY CountTypes
  <2> DEFINE a == Cardinality(WaitingIn(queue, Signal(Out, v)))
             b == Cardinality(WaitingIn(queue', Signal(Out, v)))
             c == Cardinality(WritersWith(v))
             d == Cardinality(WritersWith(v)')
             y == IF v > written THEN 1 ELSE 0
             z == IF i \in receivers THEN 0 ELSE 1
  <2>3. y \in Int /\ z \in Int /\ b \in Int /\ d \in Int /\ b + d <= a + c
    BY <2>1, <2>2
  <2>4. Spent(i, v) = got[i][v] + a + c + Cardinality(FansWith(i, v)) + Cardinality(ReadersOf(i)) + y + z
    BY DEF Spent
  <2>5. Spent(i, v)' = got'[i][v] + b + d + Cardinality(FansWith(i, v)') + Cardinality(ReadersOf(i)')
                         + (IF v > written' THEN 1 ELSE 0) + (IF i \in receivers' THEN 0 ELSE 1)
    BY SpentNext
  <2>6. Spent(i, v)' = got[i][v] + b + d + Cardinality(FansWith(i, v)) + Cardinality(ReadersOf(i)) + y + z
    BY <1>2, <2>1, <2>5
  <2>7. a \in Int /\ c \in Int
    BY <2>2
  <2> HIDE DEF a, b, c, d, y, z
  <2> DEFINE f == Cardinality(FansWith(i, v))
             r == Cardinality(ReadersOf(i))
             g == got[i][v]
  <2>8. /\ g + b + d + f + r + y + z \in Int
        /\ g + b + d + f + r + y + z <= g + a + c + f + r + y + z
    <3>1. g \in Int /\ f \in Int /\ r \in Int
      BY <2>2
    <3> HIDE DEF f, r, g
    <3> QED BY <2>3, <2>7, <3>1
  <2> QED BY <2>4, <2>6, <2>8
<1>10. Budget'
  BY <1>9, BudgetStands
<1> QED BY <1>4, <1>7, <1>10 DEF Counts

LEMMA FanNextCounts ==
  ASSUME IInv, Counts, NEW w \in Workers, FanNext(w)
  PROVE  Counts'
<1> PICK j \in todo[w] : Deliver(w, j, signal[w]) /\ todo' = [todo EXCEPT ![w] = @ \ {j}]
  BY DEF FanNext
<1> DEFINE x == signal[w]
<1>1. /\ w \in Threads /\ pc[w] = "fan" /\ j \in Inputs /\ j \in Pins /\ x \in Values \cup {Nil}
      /\ todo'[w] = todo[w] \ {j} /\ \A u \in Threads \ {w} : todo'[u] = todo[u]
      /\ UNCHANGED <<owned, receivers, queue, old, signal, written, told>>
  BY DEF FanNext, At, linkVars, IInv, TypeOK
<1>2. /\ Others(w)
      /\ \/ /\ x \in Accepts[j] /\ pc'[w] = "take" /\ pin'[w] = j /\ data'[w] = x
            /\ got'[j][x] = got[j][x] + 1
            /\ \A i \in Inputs, v \in Values : i # j \/ v # x => got'[i][v] = got[i][v]
         \/ /\ x \notin Accepts[j] /\ pc'[w] = "fan" /\ UNCHANGED got
  <2> HIDE DEF x
  <2>1. CASE x \in Accepts[j]
    BY <1>1, <2>1, Accepted DEF x
  <2>2. CASE x \notin Accepts[j]
    BY <1>1, <2>2, Rejected DEF x, Home
  <2> QED BY <2>1, <2>2
<1> DEFINE Now(i, v) == i = j /\ v = x /\ x \in Accepts[j]
<1>3. ASSUME NEW i \in Inputs, NEW v \in Values
      PROVE  /\ got'[i][v] = got[i][v] + (IF Now(i, v) THEN 1 ELSE 0)
             /\ Cardinality(Carrying(i, v)') = Cardinality(Carrying(i, v)) + (IF Now(i, v) THEN 1 ELSE 0)
  <2>1. w \notin Carrying(i, v)
    BY <1>1 DEF Carrying
  <2>2. CASE Now(i, v)
    <3>1. Carrying(i, v)' = Carrying(i, v) \cup {w}
      BY <1>1, <1>2, <2>2 DEF Carrying, Others
    <3>2. got'[i][v] = got[i][v] + 1
      BY <1>2, <2>2
    <3> QED BY <2>1, <2>2, <3>1, <3>2, FiniteCounts, OneMore
  <2>3. CASE ~Now(i, v)
    <3>1. Carrying(i, v)' = Carrying(i, v)
      BY <1>1, <1>2, <2>3 DEF Carrying, Others
    <3>2. got'[i][v] = got[i][v]
      BY <1>2, <2>3
    <3> QED BY <2>3, <3>1, <3>2, FiniteCounts, CountTypes
  <2> QED BY <2>2, <2>3
<1>4. ASSUME NEW i \in Inputs, NEW v \in Values
      PROVE  /\ Cardinality(FansWith(i, v)') + (IF Now(i, v) THEN 1 ELSE 0) <= Cardinality(FansWith(i, v))
             /\ Cardinality(FansWith(i, v)') \in Int
             /\ WritersWith(v)' = WritersWith(v) /\ ReadersOf(i)' = ReadersOf(i)
  <2>1. WritersWith(v)' = WritersWith(v) /\ ReadersOf(i)' = ReadersOf(i)
    BY <1>1, <1>2 DEF WritersWith, ReadersOf, Delivering, Others
  <2>2. FansWith(i, v)' = IF i = j /\ v = x THEN FansWith(i, v) \ {w} ELSE FansWith(i, v)
    BY <1>1, <1>2 DEF FansWith, Fanning, Delivering, At, Others
  <2>3. i = j /\ v = x => w \in FansWith(i, v)
    BY <1>1 DEF FansWith, Fanning, At
  <2>4. /\ Cardinality(FansWith(i, v) \ {w})
             = Cardinality(FansWith(i, v)) - (IF w \in FansWith(i, v) THEN 1 ELSE 0)
        /\ Cardinality(FansWith(i, v) \ {w}) \in Nat /\ Cardinality(FansWith(i, v)) \in Nat
    BY FiniteCounts, OneLess
  <2> HIDE DEF x
  <2> QED BY <2>1, <2>2, <2>3, <2>4
<1>5. FiniteQueues'
  BY <1>1 DEF Counts, FiniteQueues
<1> HIDE DEF x, Now
<1>6. Conserved'
  <2> SUFFICES ASSUME NEW i \in Inputs, NEW v \in Values, owned[i]
               PROVE  told[i][v] + Cardinality(WaitingIn(queue, Signal(i, v)))
                                 + Cardinality(Carrying(i, v)') = got'[i][v]
    BY <1>1 DEF Conserved, Signal
  <2> QED BY <1>3, CountTypes DEF Counts, Conserved
<1>7. ASSUME NEW i \in Inputs, NEW v \in Values
      PROVE  Spent(i, v)' \in Int /\ Spent(i, v)' <= Spent(i, v)
  <2>1. /\ Cardinality(FansWith(i, v)) \in Nat /\ Cardinality(WritersWith(v)) \in Nat
        /\ Cardinality(ReadersOf(i)) \in Nat /\ got[i][v] \in Nat
        /\ Cardinality(WaitingIn(queue, Signal(Out, v))) \in Nat
    BY CountTypes
  <2>2. /\ got'[i][v] = got[i][v] + (IF Now(i, v) THEN 1 ELSE 0)
        /\ Cardinality(FansWith(i, v)') + (IF Now(i, v) THEN 1 ELSE 0) <= Cardinality(FansWith(i, v))
        /\ Cardinality(FansWith(i, v)') \in Int
        /\ WritersWith(v)' = WritersWith(v) /\ ReadersOf(i)' = ReadersOf(i)
    BY <1>3, <1>4
  <2> QED BY <1>1, <2>1, <2>2, SpentNext DEF Spent
<1>8. Budget'
  BY <1>7, BudgetStands
<1> QED BY <1>5, <1>6, <1>8 DEF Counts

-----------------------------------------------------------------------------
(***************************************************************************)
(* Steps of the other threads.                                             *)
(***************************************************************************)
LEMMA WriteCounts ==
  ASSUME IInv, Counts, NEW t \in Writers, Write(t)
  PROVE  Counts'
<1> DEFINE x == written + 1
<1>1. /\ t \in Threads /\ pc[t] = "idle" /\ written \in Int /\ written' = x /\ x \in Values
      /\ Out \in Pins /\ Out \notin Inputs /\ Home(t) = "idle" /\ Deliver(t, Out, x)
      /\ UNCHANGED <<owned, receivers, queue, old, todo, signal, told>>
  BY DEF Write, At, linkVars, Home, IInv, TypeOK
<1>2. /\ Others(t) /\ pin'[t] = Out
      /\ \/ pc'[t] = "take" /\ data'[t] = x
         \/ pc'[t] = "idle"
      /\ \A i \in Inputs, v \in Values : got'[i][v] = got[i][v]
  <2> HIDE DEF x
  <2>1. CASE x \in Accepts[Out]
    BY <1>1, <2>1, Accepted
  <2>2. CASE x \notin Accepts[Out]
    BY <1>1, <2>2, Rejected
  <2> QED BY <2>1, <2>2
<1>3. \A i \in Inputs, v \in Values : /\ FansWith(i, v)' = FansWith(i, v)
                                      /\ ReadersOf(i)' = ReadersOf(i)
                                      /\ Carrying(i, v)' = Carrying(i, v)
  BY <1>1, <1>2 DEF FansWith, ReadersOf, Carrying, Fanning, Delivering, At, Others
<1>4. FiniteQueues'
  BY <1>1 DEF Counts, FiniteQueues
<1>5. Conserved'
  BY <1>1, <1>2, <1>3 DEF Counts, Conserved, Signal
<1>6. ASSUME NEW v \in Values
      PROVE  /\ Cardinality(WritersWith(v)') \in Nat
             /\ Cardinality(WritersWith(v)') + (IF v > written' THEN 1 ELSE 0)
                  <= Cardinality(WritersWith(v)) + (IF v > written THEN 1 ELSE 0)
  <2>1. t \notin WritersWith(v)
    BY <1>1 DEF WritersWith, Delivering
  <2>2. IsFiniteSet(WritersWith(v)) /\ Cardinality(WritersWith(v)) \in Nat
    BY FiniteCounts
  <2>3. CASE v = x
    <3>1. WritersWith(v)' \in {WritersWith(v), WritersWith(v) \cup {t}}
      BY <1>1, <1>2 DEF WritersWith, Delivering, Others
    <3>2. /\ Cardinality(WritersWith(v)') \in Nat
          /\ Cardinality(WritersWith(v)') <= Cardinality(WritersWith(v)) + 1
      <4>1. /\ Cardinality(WritersWith(v) \cup {t}) = Cardinality(WritersWith(v)) + 1
            /\ Cardinality(WritersWith(v) \cup {t}) \in Nat
        BY <2>1, <2>2, OneMore
      <4>2. CASE WritersWith(v)' = WritersWith(v)
        BY <2>2, <4>2
      <4>3. CASE WritersWith(v)' = WritersWith(v) \cup {t}
        BY <2>2, <4>1, <4>3
      <4> QED BY <3>1, <4>2, <4>3
    <3> QED BY <1>1, <2>2, <2>3, <3>2
  <2>4. CASE v # x
    <3>1. WritersWith(v)' = WritersWith(v)
      BY <1>1, <1>2, <2>4 DEF WritersWith, Delivering, Others
    <3> QED BY <1>1, <2>2, <2>4, <3>1
  <2> QED BY <2>3, <2>4
<1>7. ASSUME NEW i \in Inputs, NEW v \in Values
      PROVE  Spent(i, v)' \in Int /\ Spent(i, v)' <= Spent(i, v)
  <2> DEFINE a == Cardinality(WaitingIn(queue, Signal(Out, v)))
             c == Cardinality(WritersWith(v))
             d == Cardinality(WritersWith(v)')
             f == Cardinality(FansWith(i, v))
             r == Cardinality(ReadersOf(i))
             g == got[i][v]
             y == IF v > written THEN 1 ELSE 0
             u == IF v > written' THEN 1 ELSE 0
             z == IF i \in receivers THEN 0 ELSE 1
  <2>1. /\ a \in Int /\ c \in Int /\ d \in Int /\ f \in Int /\ r \in Int /\ g \in Int
        /\ y \in Int /\ u \in Int /\ z \in Int
    BY <1>6, CountTypes
  <2>2. d + u <= c + y
    BY <1>6
  <2>3. Spent(i, v) = g + a + c + f + r + y + z
    BY DEF Spent
  <2>4. Spent(i, v)' = got'[i][v] + Cardinality(WaitingIn(queue', Signal(Out, v)))
                      + d + Cardinality(FansWith(i, v)') + Cardinality(ReadersOf(i)')
                      + u + (IF i \in receivers' THEN 0 ELSE 1)
    BY SpentNext
  <2>5. Spent(i, v)' = g + a + d + f + r + u + z
    BY <1>1, <1>2, <1>3, <2>4
  <2>6. g + a + d + f + r + u + z \in Int /\ g + a + d + f + r + u + z <= g + a + c + f + r + y + z
    <3> HIDE DEF a, c, d, f, r, g, y, u, z
    <3> QED BY <2>1, <2>2
  <2> QED BY <2>3, <2>5, <2>6
<1>8. Budget'
  BY <1>7, BudgetStands
<1> QED BY <1>4, <1>5, <1>8 DEF Counts

LEMMA AttachCounts ==
  ASSUME IInv, Counts, NEW t \in Connectors, NEW j \in Inputs, Attach(t, j)
  PROVE  Counts'
<1>1. /\ t \in Threads /\ pc[t] = "idle" /\ pc'[t] = "read" /\ pin'[t] = j
      /\ j \notin receivers /\ receivers' = receivers \cup {j}
      /\ \A u \in Threads \ {t} : pc'[u] = pc[u] /\ pin'[u] = pin[u]
      /\ UNCHANGED <<owned, queue, data, old, todo, signal, written, got, told>>
  BY DEF Attach, At, Goto, history, IInv, TypeOK
<1>2. \A i \in Inputs, v \in Values : /\ Carrying(i, v)' = Carrying(i, v)
                                      /\ WritersWith(v)' = WritersWith(v)
                                      /\ FansWith(i, v)' = FansWith(i, v)
  BY <1>1 DEF Carrying, WritersWith, FansWith, Fanning, Delivering, At
<1>3. FiniteQueues'
  BY <1>1 DEF Counts, FiniteQueues
<1>4. Conserved'
  BY <1>1, <1>2 DEF Counts, Conserved, Signal
<1>5. ASSUME NEW i \in Inputs
      PROVE  /\ Cardinality(ReadersOf(i)') \in Nat
             /\ Cardinality(ReadersOf(i)') + (IF i \in receivers' THEN 0 ELSE 1)
                  <= Cardinality(ReadersOf(i)) + (IF i \in receivers THEN 0 ELSE 1)
  <2>1. t \notin ReadersOf(i)
    BY <1>1 DEF ReadersOf
  <2>2. IsFiniteSet(ReadersOf(i)) /\ Cardinality(ReadersOf(i)) \in Nat
    BY FiniteCounts
  <2>3. CASE i = j
    <3>1. ReadersOf(i)' = ReadersOf(i) \cup {t}
      BY <1>1, <2>3 DEF ReadersOf
    <3>2. /\ Cardinality(ReadersOf(i)') \in Nat
          /\ Cardinality(ReadersOf(i)') = Cardinality(ReadersOf(i)) + 1
      BY <2>1, <2>2, <3>1, OneMore
    <3> QED BY <1>1, <2>2, <2>3, <3>2
  <2>4. CASE i # j
    <3>1. ReadersOf(i)' = ReadersOf(i)
      BY <1>1, <2>4 DEF ReadersOf
    <3> QED BY <1>1, <2>2, <2>4, <3>1
  <2> QED BY <2>3, <2>4
<1>6. ASSUME NEW i \in Inputs, NEW v \in Values
      PROVE  Spent(i, v)' \in Int /\ Spent(i, v)' <= Spent(i, v)
  <2> DEFINE a == Cardinality(WaitingIn(queue, Signal(Out, v)))
             c == Cardinality(WritersWith(v))
             f == Cardinality(FansWith(i, v))
             r == Cardinality(ReadersOf(i))
             q == Cardinality(ReadersOf(i)')
             g == got[i][v]
             y == IF v > written THEN 1 ELSE 0
             z == IF i \in receivers THEN 0 ELSE 1
             u == IF i \in receivers' THEN 0 ELSE 1
  <2>1. /\ a \in Int /\ c \in Int /\ f \in Int /\ r \in Int /\ q \in Int /\ g \in Int
        /\ y \in Int /\ u \in Int /\ z \in Int
    BY <1>5, CountTypes
  <2>2. q + u <= r + z
    BY <1>5
  <2>3. Spent(i, v) = g + a + c + f + r + y + z
    BY DEF Spent
  <2>4. Spent(i, v)' = got'[i][v] + Cardinality(WaitingIn(queue', Signal(Out, v)))
                      + Cardinality(WritersWith(v)') + Cardinality(FansWith(i, v)') + q
                      + (IF v > written' THEN 1 ELSE 0) + u
    BY SpentNext
  <2>5. Spent(i, v)' = g + a + c + f + q + y + u
    BY <1>1, <1>2, <2>4
  <2>6. g + a + c + f + q + y + u \in Int /\ g + a + c + f + q + y + u <= g + a + c + f + r + y + z
    <3> HIDE DEF a, c, f, r, q, g, y, u, z
    <3> QED BY <2>1, <2>2
  <2> QED BY <2>3, <2>5, <2>6
<1>7. Budget'
  BY <1>6, BudgetStands
<1> QED BY <1>3, <1>4, <1>7 DEF Counts

LEMMA SendOnConnectCounts ==
  ASSUME IInv, Counts, NEW t \in Connectors, SendOnConnect(t)
  PROVE  Counts'
<1> DEFINE j == pin[t]
           x == data[t]
<1>1. /\ t \in Threads /\ pc[t] = "retain" /\ j \in Inputs /\ j \in Pins /\ t \notin Workers
      /\ Home(t) = "idle" /\ Deliver(t, j, x)
      /\ UNCHANGED <<owned, receivers, queue, old, todo, signal, written, told>>
  BY DEF SendOnConnect, At, linkVars, Home, IInv, TypeOK, Roles
<1> DEFINE Now(i, v) == i = j /\ v = x /\ x \in Accepts[j]
<1>2. /\ Others(t)
      /\ \/ /\ x \in Accepts[j] /\ pc'[t] = "take" /\ pin'[t] = j /\ data'[t] = x
            /\ got'[j][x] = got[j][x] + 1
            /\ \A i \in Inputs, v \in Values : i # j \/ v # x => got'[i][v] = got[i][v]
         \/ x \notin Accepts[j] /\ pc'[t] = "idle" /\ UNCHANGED got
  <2> HIDE DEF x, j
  <2>1. CASE x \in Accepts[j]
    BY <1>1, <2>1, Accepted
  <2>2. CASE x \notin Accepts[j]
    BY <1>1, <2>2, Rejected
  <2> QED BY <2>1, <2>2
<1>3. ASSUME NEW i \in Inputs, NEW v \in Values
      PROVE  /\ got'[i][v] = got[i][v] + (IF Now(i, v) THEN 1 ELSE 0)
             /\ Cardinality(Carrying(i, v)') = Cardinality(Carrying(i, v)) + (IF Now(i, v) THEN 1 ELSE 0)
  <2>1. t \notin Carrying(i, v)
    BY <1>1 DEF Carrying
  <2>2. CASE Now(i, v)
    <3>1. Carrying(i, v)' = Carrying(i, v) \cup {t}
      BY <1>1, <1>2, <2>2 DEF Carrying, Others
    <3>2. got'[i][v] = got[i][v] + 1
      BY <1>2, <2>2
    <3> QED BY <2>1, <2>2, <3>1, <3>2, FiniteCounts, OneMore
  <2>3. CASE ~Now(i, v)
    <3>1. Carrying(i, v)' = Carrying(i, v)
      BY <1>1, <1>2, <2>3 DEF Carrying, Others
    <3>2. got'[i][v] = got[i][v]
      BY <1>2, <2>3
    <3> QED BY <2>3, <3>1, <3>2, FiniteCounts, CountTypes
  <2> QED BY <2>2, <2>3
<1>4. ASSUME NEW i \in Inputs, NEW v \in Values
      PROVE  /\ Cardinality(ReadersOf(i)') + (IF Now(i, v) THEN 1 ELSE 0) <= Cardinality(ReadersOf(i))
             /\ Cardinality(ReadersOf(i)') \in Int
             /\ FansWith(i, v)' = FansWith(i, v) /\ WritersWith(v)' = WritersWith(v)
  <2>1. FansWith(i, v)' = FansWith(i, v) /\ WritersWith(v)' = WritersWith(v)
    BY <1>1, <1>2 DEF FansWith, WritersWith, Fanning, Delivering, At, Others
  <2>2. ReadersOf(i)' = ReadersOf(i) \ {t}
    BY <1>1, <1>2 DEF ReadersOf, Others
  <2>3. i = j => t \in ReadersOf(i)
    BY <1>1 DEF ReadersOf
  <2>4. /\ Cardinality(ReadersOf(i) \ {t})
             = Cardinality(ReadersOf(i)) - (IF t \in ReadersOf(i) THEN 1 ELSE 0)
        /\ Cardinality(ReadersOf(i) \ {t}) \in Nat /\ Cardinality(ReadersOf(i)) \in Nat
    BY FiniteCounts, OneLess
  <2> HIDE DEF x, j
  <2> QED BY <2>1, <2>2, <2>3, <2>4
<1>5. FiniteQueues'
  BY <1>1 DEF Counts, FiniteQueues
<1> HIDE DEF x, j, Now
<1>6. Conserved'
  <2> SUFFICES ASSUME NEW i \in Inputs, NEW v \in Values, owned[i]
               PROVE  told[i][v] + Cardinality(WaitingIn(queue, Signal(i, v)))
                                 + Cardinality(Carrying(i, v)') = got'[i][v]
    BY <1>1 DEF Conserved, Signal
  <2> QED BY <1>3, CountTypes DEF Counts, Conserved
<1>7. ASSUME NEW i \in Inputs, NEW v \in Values
      PROVE  Spent(i, v)' \in Int /\ Spent(i, v)' <= Spent(i, v)
  <2>1. /\ Cardinality(FansWith(i, v)) \in Nat /\ Cardinality(WritersWith(v)) \in Nat
        /\ Cardinality(ReadersOf(i)) \in Nat /\ got[i][v] \in Nat
        /\ Cardinality(WaitingIn(queue, Signal(Out, v))) \in Nat
    BY CountTypes
  <2>2. /\ got'[i][v] = got[i][v] + (IF Now(i, v) THEN 1 ELSE 0)
        /\ Cardinality(ReadersOf(i)') + (IF Now(i, v) THEN 1 ELSE 0) <= Cardinality(ReadersOf(i))
        /\ Cardinality(ReadersOf(i)') \in Int
        /\ FansWith(i, v)' = FansWith(i, v) /\ WritersWith(v)' = WritersWith(v)
    BY <1>3, <1>4
  <2> QED BY <1>1, <2>1, <2>2, SpentNext DEF Spent
<1>8. Budget'
  BY <1>7, BudgetStands
<1> QED BY <1>5, <1>6, <1>8 DEF Counts

-----------------------------------------------------------------------------
LEMMA NextCounts == IInv /\ Counts /\ [Next]_vars => Counts'
<1> SUFFICES ASSUME IInv, Counts, [Next]_vars PROVE Counts'
  OBVIOUS
<1> HIDE DEF Threads
<1>1. ASSUME NEW t \in Threads, DeliverStep(t) PROVE Counts'
  BY <1>1, DeliverStepCounts, PostCounts DEF DeliverStep
<1>2. ASSUME NEW w \in Workers, WorkerStep(w) PROVE Counts'
  BY <1>2, TakeSignalCounts, FanLockCounts, FanNextCounts, FanUnlockCounts, CallOwnerCounts DEF WorkerStep
<1>3. ASSUME NEW t \in Connectors, ConnectStep(t) PROVE Counts'
  BY <1>3, ReadCounts, SendOnConnectCounts DEF ConnectStep
<1> QED BY <1>1, <1>2, <1>3, WriteCounts, AttachCounts, DetachOwnerCounts, StutterCounts DEF Next

LEMMA CountsInvariant == Spec => [](IInv /\ Counts)
<1>1. Init => IInv /\ Counts
  BY InitIInv, InitCounts
<1>2. IInv /\ Counts /\ [Next]_vars => (IInv /\ Counts)'
  BY NextIInv, NextCounts
<1> QED BY <1>1, <1>2, PTL DEF Spec

\* As long as an input pin has an owner, every delivery to the pin is one call of the owner with
\* that value, made, queued or under way, however many signal threads share the work; and a
\* receiver gets a value once, or twice if it was connected while the value was new
\* (deliverData:fromSender: and performSignal: of JMXPin.mm).
THEOREM DeliveriesAreCalls == Spec => []EveryDeliveryOneCall
<1>1. ASSUME IInv, Counts PROVE EveryDeliveryOneCall
  <2> SUFFICES ASSUME NEW i \in Inputs, NEW v \in Values
               PROVE  /\ owned[i] => told[i][v] + Waiting(i, v) + InHand(i, v) = got[i][v]
                      /\ got[i][v] <= IF i \in Attached THEN 1 ELSE 2
    BY DEF EveryDeliveryOneCall
  <2>1. Waiting(i, v) = Cardinality(WaitingIn(queue, Signal(i, v)))
    BY DEF Waiting, WaitingIn, Signal
  <2>2. InHand(i, v) = Cardinality(Carrying(i, v))
    BY DEF InHand, Carrying
  <2>3. owned[i] => told[i][v] + Waiting(i, v) + InHand(i, v) = got[i][v]
    BY <1>1, <2>1, <2>2 DEF Counts, Conserved
  <2>4. Spent(i, v) \in Int /\ Spent(i, v) <= IF i \in Attached THEN 1 ELSE 2
    BY <1>1 DEF Counts, Budget
  <2>5. got[i][v] <= Spent(i, v)
    BY <1>1, CountTypes DEF Spent
  <2>6. got[i][v] \in Nat
    BY <1>1, CountTypes
  <2> QED BY <2>3, <2>4, <2>5, <2>6
<1> QED BY <1>1, CountsInvariant, PTL
=============================================================================
