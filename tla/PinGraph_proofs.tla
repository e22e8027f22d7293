--------------------------- MODULE PinGraph_proofs ---------------------------
(***************************************************************************)
(* Proofs about PinGraph, for any sets of pins and threads, any choice of  *)
(* the repaired pins and any bound on the calls.                           *)
(***************************************************************************)
EXTENDS PinGraph, TLAPS

-----------------------------------------------------------------------------
(***************************************************************************)
(* Types.  A thread inside a method has the pins that method works on.     *)
(***************************************************************************)
CallPins ==
  \A t \in Threads :
    /\ pc[t] \in LinkSteps => in[t] \in InputPins /\ out[t] \in OutputPins
    /\ pc[t] \in InputSteps => in[t] \in InputPins
    /\ pc[t] \in OutputSteps => out[t] \in OutputPins

Typed == TypeOK /\ CallPins

LEMMA InitTyped == Init => Typed
BY PinAssumption DEF Init, Typed, TypeOK, CallPins, PinAssumption, Steps,
   LinkSteps, InputSteps, OutputSteps

\* Entering a method keeps the types.
LEMMA CallTyped ==
  ASSUME Typed, NEW t \in Threads, Call(t)
  PROVE  Typed'
<1> USE DEF Typed, TypeOK, CallPins, Steps, LinkSteps, InputSteps, OutputSteps,
            Enter, At, Begin, inVars, outVars
<1>0. calls + 1 \in Int /\ MaxCalls \in Int
  BY PinAssumption DEF PinAssumption
<1>1. CASE \E i \in InputPins, o \in OutputPins : CallConnect(t, i, o)
  BY <1>0, <1>1 DEF CallConnect
<1>2. CASE \E i \in InputPins, o \in OutputPins : CallDisconnect(t, i, o)
  BY <1>0, <1>2 DEF CallDisconnect
<1>3. CASE \E i \in InputPins : CallInput(t, i)
  BY <1>0, <1>3 DEF CallInput
<1>4. CASE \E o \in OutputPins : CallOutput(t, o)
  BY <1>0, <1>4 DEF CallOutput
<1> QED BY <1>1, <1>2, <1>3, <1>4 DEF Call

\* So does returning from a method ...
LEMMA ReturnTyped ==
  ASSUME Typed, NEW t \in Threads, Return(t),
         producers' \in [InputPins -> [OutputPins -> Nat]],
         passiveCount' \in [InputPins -> Int],
         producersLock' \in [InputPins -> BOOLEAN],
         receiversLock' \in [OutputPins -> BOOLEAN],
         UNCHANGED <<inConnected, receivers, outConnected, calls>>
  PROVE  Typed'
<1>1. TypeOK'
  BY DEF Typed, TypeOK, Return, Begin, Steps
<1>2. \A u \in Threads : u # t => pc'[u] = pc[u] /\ in'[u] = in[u] /\ out'[u] = out[u]
  BY DEF Typed, TypeOK, Return, Begin
<1>3. pc'[t] = "idle"
  BY DEF Typed, TypeOK, Return, Begin
<1>4. CallPins'
  BY <1>2, <1>3 DEF Typed, CallPins, LinkSteps, InputSteps, OutputSteps
<1> QED BY <1>1, <1>4 DEF Typed

\* ... and every step of a method.
LEMMA StepTyped ==
  ASSUME Typed, NEW t \in Threads, Step(t)
  PROVE  Typed'
<1> USE DEF Typed, TypeOK, CallPins, Steps, LinkSteps, InputSteps, OutputSteps,
            At, Goto, Begin, Return, inVars, outVars, thVars, Free, DetachObject
<1>1. CASE ConnectLock(t)         BY <1>1 DEF ConnectLock
<1>2. CASE Evict(t)               BY <1>2 DEF Evict, Linked
<1>3. CASE Evicted(t)
  BY <1>3 DEF Evicted, Linked
<1>4. CASE Attach(t)              BY <1>4 DEF Attach
<1>5. CASE Attached(t)            BY <1>5 DEF Attached
<1>6. CASE Connected(t)           BY <1>6 DEF Connected
<1>7. CASE DisconnectLock(t)      BY <1>7 DEF DisconnectLock
<1>8. CASE Detach(t)              BY <1>8 DEF Detach
<1>9. CASE DisconnectUnlock(t)    BY <1>9 DEF DisconnectUnlock
<1>10. CASE Disconnected(t)
  <2>1. CASE todo[t] = {}
    <3>1. Return(t) /\ UNCHANGED <<inVars, outVars, calls>>
      BY <1>10, <2>1 DEF Disconnected
    <3> HIDE DEF Return
    <3> QED BY <3>1, ReturnTyped
  <2>2. CASE todo[t] # {}
    <3>1. PICK i \in todo[t] : Begin(t, "disconnect", i, out[t], todo[t] \ {i})
      BY <1>10, <2>2 DEF Disconnected
    <3>2. i \in InputPins /\ out[t] \in OutputPins /\ todo[t] \ {i} \subseteq InputPins
      BY <1>10 DEF Disconnected
    <3> QED BY <1>10, <3>1, <3>2 DEF Disconnected
  <2> QED BY <2>1, <2>2
<1>11. CASE DisconnectAllInput(t)
  <2>1. CASE Linked(in[t]) = {}
    <3>1. /\ Return(t)
          /\ passiveCount' = [passiveCount EXCEPT ![in[t]] = 0]
          /\ UNCHANGED <<producers, producersLock, inConnected, outVars, calls>>
      BY <1>11, <2>1 DEF DisconnectAllInput
    <3>2. passiveCount' \in [InputPins -> Int]
      <4>1. passiveCount \in [InputPins -> Int] /\ 0 \in Int
        OBVIOUS
      <4>2. passiveCount' = [passiveCount EXCEPT ![in[t]] = 0]
        BY <3>1
      <4> QED BY ONLY <4>1, <4>2, Zenon
    <3>3. /\ producers' \in [InputPins -> [OutputPins -> Nat]]
          /\ producersLock' \in [InputPins -> BOOLEAN]
          /\ receiversLock' \in [OutputPins -> BOOLEAN]
          /\ UNCHANGED <<inConnected, receivers, outConnected, calls>>
      BY <3>1
    <3> HIDE DEF Return, Typed
    <3> QED BY <3>1, <3>2, <3>3, ReturnTyped
  <2>2. CASE Linked(in[t]) # {}   BY <1>11, <2>2 DEF DisconnectAllInput
  <2> QED BY <2>1, <2>2
<1>12. CASE DisconnectAllOutput(t)
  <2>1. CASE receivers[out[t]] = {}
    <3>1. Return(t) /\ UNCHANGED <<inVars, outVars, calls>>
      BY <1>12, <2>1 DEF DisconnectAllOutput
    <3> HIDE DEF Return
    <3> QED BY <3>1, ReturnTyped
  <2>2. CASE receivers[out[t]] # {}
    <3>1. PICK i \in receivers[out[t]] :
            Begin(t, "disconnect", i, out[t], receivers[out[t]] \ {i})
      BY <1>12, <2>2 DEF DisconnectAllOutput
    <3>2. /\ i \in InputPins
          /\ out[t] \in OutputPins
          /\ receivers[out[t]] \ {i} \subseteq InputPins
      BY <1>12 DEF DisconnectAllOutput
    <3> QED BY <1>12, <3>1, <3>2 DEF DisconnectAllOutput
  <2> QED BY <2>1, <2>2
<1>13. CASE MoveProducer(t)       BY <1>13 DEF MoveProducer
<1>14. CASE ReadProducers(t)      BY <1>14 DEF ReadProducers
<1>15. CASE ReadData(t)
  <2>1. CASE passiveCount[in[t]] # 0
    BY <1>15, <2>1 DEF ReadData
  <2>2. CASE passiveCount[in[t]] = 0
    <3>1. Return(t) /\ UNCHANGED <<inVars, outVars, calls>>
      BY <1>15, <2>2 DEF ReadData
    <3> HIDE DEF Return
    <3> QED BY <3>1, ReturnTyped
  <2> QED BY <2>1, <2>2
<1>16. CASE FetchProducer(t)
  <2>1. CASE Linked(in[t]) = {}
    BY <1>16, <2>1 DEF FetchProducer
  <2>2. CASE Linked(in[t]) # {}
    <3>1. Return(t) /\ UNCHANGED <<inVars, outVars, calls>>
      BY <1>16, <2>2 DEF FetchProducer
    <3> HIDE DEF Return
    <3> QED BY <3>1, ReturnTyped
  <2> QED BY <2>1, <2>2
<1>17. CASE SignalLock(t)         BY <1>17 DEF SignalLock
<1>18. CASE SignalUnlock(t)       BY <1>18 DEF SignalUnlock
<1> QED
  BY <1>1, <1>2, <1>3, <1>4, <1>5, <1>6, <1>7, <1>8, <1>9, <1>10, <1>11, <1>12,
     <1>13, <1>14, <1>15, <1>16, <1>17, <1>18 DEF Step

LEMMA StutterTyped == Typed /\ UNCHANGED vars => Typed'
BY DEF Typed, TypeOK, CallPins, vars, inVars, outVars, thVars

LEMMA NextTyped == Typed /\ [Next]_vars => Typed'
BY CallTyped, StepTyped, StutterTyped DEF Next

\* The pins and the calls keep their types whatever the threads do.
THEOREM TypeCorrect == Spec => []TypeOK
<1>1. Spec => []Typed
  BY InitTyped, NextTyped, PTL DEF Spec
<1>2. Typed => TypeOK
  BY DEF Typed
<1> QED BY <1>1, <1>2, PTL

-----------------------------------------------------------------------------
(***************************************************************************)
(* The inductive invariant.  A thread in the critical section of i has the *)
(* lock of i, so nobody else changes the links of i, and what it has seen  *)
(* of them stays true: that is what Seen records.                          *)
(***************************************************************************)
Locked == \A t \in Threads, i \in InputPins : Holds(t, i) => producersLock[i]

Seen ==
  \A t \in Threads, i \in InputPins : in[t] = i =>
    /\ At(t, "connecting") => out[t] \in Linked(i)
    /\ At(t, "attached") => i \in receivers[out[t]]
    /\ At(t, "detach") => out[t] \notin Linked(i)
    /\ At(t, "evicted") => \A o \in Linked(i) : i \notin receivers[o]
    /\ At(t, "nested") => Linked(i) # {}
    /\ pc[t] \in {"evict", "evicted"} => i \notin Multiple /\ Linked(i) # {}
    /\ pc[t] \in {"attach", "attached"} /\ i \notin Multiple => Linked(i) = {}
    /\ pc[t] \in {"detach", "detached"} /\ Linked(i) # {} => inConnected[i]

IInv == /\ Typed
        /\ Locked
        /\ MutualExclusion
        /\ Seen
        /\ SingleProducer
        /\ LinkAgreement
        /\ AbandonedOnlyWhenConnected
        /\ FlagAgreement

LEMMA InitIInv == Init => IInv
<1> SUFFICES ASSUME Init PROVE IInv
  OBVIOUS
<1>1. Typed
  BY InitTyped
<1>2. \A i \in InputPins : Linked(i) = {}
  <2>1. \A i \in InputPins, o \in OutputPins : producers[i][o] = 0
    BY DEF Init
  <2>2. \A i \in InputPins, o \in OutputPins : o \notin Linked(i)
    BY <2>1 DEF Linked
  <2> QED BY <2>2 DEF Linked
<1>3. \A t \in Threads, i \in InputPins : ~Holds(t, i)
  BY PinAssumption DEF Init, Holds, Holding
<1>4. Locked /\ MutualExclusion /\ AbandonedOnlyWhenConnected
  BY <1>3 DEF Init, Locked, MutualExclusion, AbandonedOnlyWhenConnected
<1>5. Seen
  BY DEF Init, Seen, At
<1>6. SingleProducer /\ LinkAgreement /\ FlagAgreement
  BY <1>2 DEF Init, SingleProducer, LinkAgreement, FlagAgreement
<1> QED BY <1>1, <1>4, <1>5, <1>6 DEF IInv

\* A step that leaves the links, their flags and the producer locks alone, by a thread that is
\* in no critical section before or after it.
LEMMA OutsideKeeps ==
  ASSUME IInv, Typed', NEW t \in Threads,
         UNCHANGED <<producers, producersLock, inConnected, receivers, outConnected>>,
         pc[t] \notin Holding, pc'[t] \notin Holding,
         \A u \in Threads \ {t} : pc'[u] = pc[u] /\ in'[u] = in[u] /\ out'[u] = out[u]
  PROVE  IInv'
<1> USE DEF IInv
<1>1. \A u \in Threads, i \in InputPins : Holds(u, i)' = Holds(u, i)
  BY DEF Holds
<1>2. \A i \in InputPins : Linked(i)' = Linked(i)
  BY DEF Linked
<1>3. Locked' /\ MutualExclusion' /\ AbandonedOnlyWhenConnected'
  BY <1>1, <1>2 DEF Locked, MutualExclusion, AbandonedOnlyWhenConnected
<1>4. Seen'
  BY <1>2 DEF Seen, At, Holding
<1>5. SingleProducer'
  BY <1>2 DEF SingleProducer
<1>6. LinkAgreement'
  BY <1>2 DEF LinkAgreement, Unsettled, Holding
<1>7. FlagAgreement'
  BY <1>2 DEF FlagAgreement, Holding
<1> QED BY <1>3, <1>4, <1>5, <1>6, <1>7

\* A thread that can take the lock of i is alone with i.
LEMMA FreeMeansAlone ==
  ASSUME Locked, NEW i \in InputPins, Free(i)
  PROVE  \A u \in Threads : ~Holds(u, i)
BY DEF Locked, Free

LEMMA ConnectLockKeeps ==
  ASSUME IInv, Typed', NEW t \in Threads, ConnectLock(t)
  PROVE  IInv'
<1> DEFINE i == in[t]
<1> USE DEF IInv
<1>0. i \in InputPins /\ out[t] \in OutputPins
  BY DEF ConnectLock, At, Typed, CallPins, LinkSteps
<1>1. \A u \in Threads : ~Holds(u, i)
  BY <1>0, FreeMeansAlone DEF ConnectLock
<1>2. /\ UNCHANGED <<in, out, producers, inConnected, receivers, outConnected>>
      /\ producersLock'[i] = TRUE
      /\ \A j \in InputPins \ {i} : producersLock'[j] = producersLock[j]
      /\ pc'[t] = IF Replaces(i) THEN "evict" ELSE "attach"
      /\ \A u \in Threads \ {t} : pc'[u] = pc[u]
  BY <1>0 DEF ConnectLock, Goto, Typed, TypeOK, outVars
<1>3. \A j \in InputPins : Linked(j)' = Linked(j)
  BY <1>2 DEF Linked
<1>4. Locked'
  BY <1>0, <1>2 DEF Locked, Holds
<1>5. MutualExclusion'
  BY <1>0, <1>1, <1>2 DEF MutualExclusion, Holds
<1>6. Seen'
  BY <1>0, <1>1, <1>2, <1>3 DEF Seen, At, Holds, Replaces
<1>7. SingleProducer'
  BY <1>2, <1>3 DEF SingleProducer
<1>8. LinkAgreement'
  BY <1>1, <1>2, <1>3 DEF LinkAgreement, Unsettled, Holds, Holding, ConnectLock, At
<1>9. AbandonedOnlyWhenConnected'
  BY <1>0, <1>2, <1>3 DEF AbandonedOnlyWhenConnected, Holds, Holding
<1>10. FlagAgreement'
  BY <1>0, <1>1, <1>2, <1>3 DEF FlagAgreement, Holds, Holding, ConnectLock, At
<1> QED BY <1>4, <1>5, <1>6, <1>7, <1>8, <1>9, <1>10

\* The effect of detachObject: on the two ends of output pin o.
LEMMA DetachObjectEffect ==
  ASSUME Typed, NEW i \in InputPins, NEW o \in OutputPins, DetachObject(i, o)
  PROVE  /\ receivers'[o] = receivers[o] \ {i}
         /\ \A p \in OutputPins \ {o} : /\ receivers'[p] = receivers[p]
                                       /\ outConnected'[p] = outConnected[p]
         /\ outConnected'[o] <=> outConnected[o] /\ receivers[o] \ {i} # {}
BY DEF DetachObject, Typed, TypeOK

LEMMA EvictKeeps ==
  ASSUME IInv, Typed', NEW t \in Threads, Evict(t)
  PROVE  IInv'
<1> DEFINE i == in[t]
<1> USE DEF IInv
<1>0. i \in InputPins /\ out[t] \in OutputPins /\ Holds(t, i) /\ i \notin Multiple
  BY DEF Evict, At, Typed, CallPins, LinkSteps, Holds, Holding, Seen
<1>1. PICK p \in Linked(i) : DetachObject(i, p)
  BY DEF Evict
<1>2. p \in OutputPins /\ \A o \in Linked(i) : o = p
  BY <1>0, <1>1 DEF Linked, SingleProducer
<1>3. /\ UNCHANGED <<in, out, producers, producersLock, inConnected>>
      /\ pc[t] = "evict" /\ pc'[t] = "evicted"
      /\ \A u \in Threads \ {t} : pc'[u] = pc[u]
  BY DEF Evict, Goto, Typed, TypeOK, At, inVars
<1>4. \A u \in Threads, j \in InputPins : Holds(u, j)' = Holds(u, j)
  BY <1>3 DEF Holds, Holding
<1>5. \A u \in Threads \ {t} : ~Holds(u, i)
  BY <1>0 DEF MutualExclusion
<1>6. \A j \in InputPins : Linked(j)' = Linked(j)
  BY <1>3 DEF Linked
<1>7. /\ receivers'[p] = receivers[p] \ {i}
      /\ \A o \in OutputPins \ {p} : /\ receivers'[o] = receivers[o]
                                    /\ outConnected'[o] = outConnected[o]
      /\ outConnected'[p] <=> outConnected[p] /\ receivers[p] \ {i} # {}
  BY <1>0, <1>1, <1>2, DetachObjectEffect
<1>8. Locked' /\ MutualExclusion' /\ AbandonedOnlyWhenConnected' /\ SingleProducer'
  BY <1>3, <1>4, <1>6
     DEF Locked, MutualExclusion, AbandonedOnlyWhenConnected, SingleProducer
<1>9. Seen'
  <2>1. ASSUME NEW u \in Threads \ {t}, in[u] # i, in[u] \in InputPins,
               out[u] \in OutputPins, At(u, "attached")
        PROVE  in[u] \in receivers'[out[u]]
    BY <1>7, <2>1 DEF Seen
  <2>2. ASSUME NEW u \in Threads \ {t}, in[u] # i, in[u] \in InputPins,
               At(u, "evicted")
        PROVE  \A o \in Linked(in[u]) : in[u] \notin receivers'[o]
    BY <1>7, <2>2 DEF Seen, Linked
  <2>3. \A o \in Linked(i) : i \notin receivers'[o]
    BY <1>2, <1>7
  <2>4. Linked(i) # {}
    BY <1>1
  <2>5. \A u \in Threads : At(u, "attached") => out[u] \in OutputPins
    BY DEF At, Typed, CallPins, LinkSteps
  <2> QED BY <1>0, <1>3, <1>5, <1>6, <2>1, <2>2, <2>3, <2>4, <2>5
          DEF Seen, At, Holds, Holding
<1>10. LinkAgreement'
  BY <1>0, <1>2, <1>3, <1>5, <1>6, <1>7 DEF LinkAgreement, Unsettled, Holds, Holding
<1>11. FlagAgreement'
  BY <1>0, <1>2, <1>3, <1>5, <1>6, <1>7 DEF FlagAgreement, Holds, Holding
<1> QED BY <1>8, <1>9, <1>10, <1>11

LEMMA EvictedKeeps ==
  ASSUME IInv, Typed', NEW t \in Threads, Evicted(t)
  PROVE  IInv'
<1> DEFINE i == in[t]
<1> USE DEF IInv
<1>0. i \in InputPins /\ out[t] \in OutputPins /\ Holds(t, i) /\ i \notin Multiple
  BY DEF Evicted, At, Typed, CallPins, LinkSteps, Holds, Holding, Seen
<1>1. PICK p \in Linked(i) : producers' = [producers EXCEPT ![i][p] = @ - 1]
  BY DEF Evicted
<1>2. p \in OutputPins /\ producers[i][p] = 1 /\ \A o \in Linked(i) : o = p
  BY <1>0, <1>1 DEF Linked, SingleProducer, Typed, TypeOK
<1>3. /\ UNCHANGED <<in, out, receivers, outConnected, producersLock, inConnected>>
      /\ pc[t] = "evicted" /\ pc'[t] = "attach"
      /\ \A u \in Threads \ {t} : pc'[u] = pc[u]
  BY DEF Evicted, Goto, Typed, TypeOK, At, outVars
<1>4. \A u \in Threads, j \in InputPins : Holds(u, j)' = Holds(u, j)
  BY <1>3 DEF Holds, Holding
<1>5. \A u \in Threads \ {t} : ~Holds(u, i)
  BY <1>0 DEF MutualExclusion
<1>6. /\ producers'[i][p] = 0
      /\ \A o \in OutputPins \ {p} : producers'[i][o] = producers[i][o]
      /\ \A j \in InputPins \ {i} : producers'[j] = producers[j]
  BY <1>0, <1>1, <1>2 DEF Typed, TypeOK
<1>7. Linked(i)' = {} /\ \A j \in InputPins \ {i} : Linked(j)' = Linked(j)
  BY <1>0, <1>2, <1>3, <1>6 DEF Linked
<1>8. Locked' /\ MutualExclusion' /\ AbandonedOnlyWhenConnected'
  BY <1>0, <1>3, <1>4, <1>7
     DEF Locked, MutualExclusion, AbandonedOnlyWhenConnected
<1>9. SingleProducer'
  <2>1. \A j \in InputPins, o \in OutputPins :
          producers'[j][o] = producers[j][o] \/ producers'[j][o] = 0
    BY <1>2, <1>6
  <2>2. \A j \in InputPins \ Multiple, o \in OutputPins : producers'[j][o] <= 1
    <3> SUFFICES ASSUME NEW j \in InputPins \ Multiple, NEW o \in OutputPins
                 PROVE  producers'[j][o] <= 1
      OBVIOUS
    <3>1. CASE producers'[j][o] = producers[j][o]
      BY <3>1 DEF SingleProducer
    <3>2. CASE producers'[j][o] = 0
      BY <3>2
    <3> QED BY <2>1, <3>1, <3>2
  <2>3. \A j \in InputPins, o \in OutputPins : o \in Linked(j)' => o \in Linked(j)
    BY <1>0, <1>3, <1>7
  <2>4. \A j \in InputPins \ Multiple, o, q \in OutputPins :
          {o, q} \subseteq Linked(j)' => o = q
    BY <2>3 DEF SingleProducer
  <2> QED BY <2>2, <2>4 DEF SingleProducer
<1>10. Seen'
  BY <1>0, <1>3, <1>5, <1>7 DEF Seen, At, Holds, Holding
<1>11. LinkAgreement'
  BY <1>0, <1>3, <1>5, <1>7 DEF LinkAgreement, Unsettled, Holds, Holding, Seen, At
<1>12. FlagAgreement'
  BY <1>0, <1>3, <1>5, <1>7 DEF FlagAgreement, Holds, Holding
<1> QED BY <1>8, <1>9, <1>10, <1>11, <1>12

LEMMA AttachKeeps ==
  ASSUME IInv, Typed', NEW t \in Threads, Attach(t)
  PROVE  IInv'
<1> DEFINE i == in[t]
           o == out[t]
<1> USE DEF IInv
<1>0. i \in InputPins /\ o \in OutputPins /\ Holds(t, i)
  BY DEF Attach, At, Typed, CallPins, LinkSteps, Holds, Holding
<1>1. /\ UNCHANGED <<in, out, producers, producersLock, inConnected, outConnected>>
      /\ pc[t] = "attach" /\ pc'[t] = "attached"
      /\ \A u \in Threads \ {t} : pc'[u] = pc[u]
  BY DEF Attach, Goto, Typed, TypeOK, At, inVars
<1>2. /\ receivers'[o] = receivers[o] \cup {i}
      /\ \A p \in OutputPins \ {o} : receivers'[p] = receivers[p]
  BY <1>0 DEF Attach, Typed, TypeOK
<1>3. \A u \in Threads, j \in InputPins : Holds(u, j)' = Holds(u, j)
  BY <1>1 DEF Holds, Holding
<1>4. \A u \in Threads \ {t} : ~Holds(u, i)
  BY <1>0 DEF MutualExclusion
<1>5. \A j \in InputPins : Linked(j)' = Linked(j)
  BY <1>1 DEF Linked
<1>6. Locked' /\ MutualExclusion' /\ AbandonedOnlyWhenConnected' /\ SingleProducer'
  BY <1>1, <1>3, <1>5
     DEF Locked, MutualExclusion, AbandonedOnlyWhenConnected, SingleProducer
<1>7. \A j \in InputPins \ {i}, p \in OutputPins : j \in receivers'[p] <=> j \in receivers[p]
  BY <1>0, <1>2
<1>8. Seen'
  <2>1. \A u \in Threads : At(u, "attached") => out[u] \in OutputPins
    BY DEF At, Typed, CallPins, LinkSteps
  <2>2. \A j \in InputPins : Linked(j) \subseteq OutputPins
    BY DEF Linked
  <2> QED BY <1>0, <1>1, <1>2, <1>4, <1>5, <1>7, <2>1, <2>2 DEF Seen, At, Holds, Holding
<1>9. LinkAgreement'
  BY <1>0, <1>1, <1>2, <1>4, <1>5, <1>7 DEF LinkAgreement, Unsettled, Holds, Holding
<1>10. FlagAgreement'
  BY <1>0, <1>1, <1>2, <1>4, <1>5 DEF FlagAgreement, Holds, Holding
<1> QED BY <1>6, <1>8, <1>9, <1>10

LEMMA AttachedKeeps ==
  ASSUME IInv, Typed', NEW t \in Threads, Attached(t)
  PROVE  IInv'
<1> DEFINE i == in[t]
           o == out[t]
<1> USE DEF IInv
<1>0. i \in InputPins /\ o \in OutputPins /\ Holds(t, i) /\ i \in receivers[o]
  BY DEF Attached, At, Typed, CallPins, LinkSteps, Holds, Holding, Seen
<1>1. /\ UNCHANGED <<in, out, receivers, producersLock>>
      /\ pc[t] = "attached" /\ pc'[t] = "connecting"
      /\ \A u \in Threads \ {t} : pc'[u] = pc[u]
  BY DEF Attached, Goto, Typed, TypeOK, At
<1>2. /\ producers'[i][o] = producers[i][o] + 1
      /\ \A p \in OutputPins \ {o} : producers'[i][p] = producers[i][p]
      /\ \A j \in InputPins \ {i} : producers'[j] = producers[j]
  BY <1>0 DEF Attached, Typed, TypeOK
<1>3. /\ inConnected'[i] /\ outConnected'[o]
      /\ \A j \in InputPins \ {i} : inConnected'[j] = inConnected[j]
      /\ \A p \in OutputPins \ {o} : outConnected'[p] = outConnected[p]
  BY <1>0 DEF Attached, Typed, TypeOK
<1>4. \A u \in Threads, j \in InputPins : Holds(u, j)' = Holds(u, j)
  BY <1>1 DEF Holds, Holding
<1>5. \A u \in Threads \ {t} : ~Holds(u, i)
  BY <1>0 DEF MutualExclusion
<1>6. /\ o \in Linked(i)'
      /\ \A p \in OutputPins \ {o} : p \in Linked(i)' <=> p \in Linked(i)
      /\ \A j \in InputPins \ {i} : Linked(j)' = Linked(j)
  BY <1>0, <1>1, <1>2 DEF Linked, Typed, TypeOK
<1>7. Locked' /\ MutualExclusion' /\ AbandonedOnlyWhenConnected'
  BY <1>0, <1>1, <1>4, <1>6
     DEF Locked, MutualExclusion, AbandonedOnlyWhenConnected
<1>8. i \notin Multiple => Linked(i) = {}
  BY <1>0, <1>1 DEF Seen
<1>9. SingleProducer'
  <2>1. i \notin Multiple => producers[i][o] = 0
    BY <1>0, <1>8 DEF Linked, Typed, TypeOK
  <2>2. \A j \in InputPins \ Multiple, p \in OutputPins : producers'[j][p] <= 1
    <3> SUFFICES ASSUME NEW j \in InputPins \ Multiple, NEW p \in OutputPins
                 PROVE  producers'[j][p] <= 1
      OBVIOUS
    <3>1. CASE j = i /\ p = o
      BY <1>0, <1>2, <2>1, <3>1
    <3>2. CASE ~(j = i /\ p = o)
      BY <1>0, <1>2, <3>2 DEF SingleProducer
    <3> QED BY <3>1, <3>2
  <2>3. \A j \in InputPins \ Multiple, p, q \in OutputPins :
          p \in Linked(j)' /\ q \in Linked(j)' => p = q
    BY <1>0, <1>1, <1>6, <1>8 DEF SingleProducer
  <2> QED BY <2>2, <2>3 DEF SingleProducer
<1>10. Seen'
  <2>1. \A u \in Threads :
          pc[u] \in Holding => \/ in[u] \in InputPins /\ out[u] \in OutputPins
                              \/ pc[u] = "nested"
    BY DEF Typed, CallPins, LinkSteps, InputSteps, Holding
  <2> QED BY <1>0, <1>1, <1>3, <1>5, <1>6, <2>1 DEF Seen, At, Holds, Holding
<1>11. LinkAgreement'
  BY <1>0, <1>1, <1>5, <1>6 DEF LinkAgreement, Unsettled, Holds, Holding
<1>12. FlagAgreement'
  BY <1>0, <1>1, <1>3, <1>5, <1>6 DEF FlagAgreement, Holds, Holding
<1> QED BY <1>7, <1>9, <1>10, <1>11, <1>12

LEMMA ConnectedKeeps ==
  ASSUME IInv, Typed', NEW t \in Threads, Connected(t)
  PROVE  IInv'
<1> DEFINE i == in[t]
<1> USE DEF IInv
<1>0. i \in InputPins /\ out[t] \in OutputPins /\ Holds(t, i) /\ Linked(i) # {}
  BY DEF Connected, At, Typed, CallPins, LinkSteps, Holds, Holding, Seen
<1>1. /\ UNCHANGED <<producers, receivers, inConnected, outConnected>>
      /\ pc[t] = "connecting" /\ pc'[t] = "idle"
      /\ \A u \in Threads \ {t} : pc'[u] = pc[u] /\ in'[u] = in[u] /\ out'[u] = out[u]
      /\ \A j \in InputPins \ {i} : producersLock'[j] = producersLock[j]
  BY <1>0 DEF Connected, Return, Begin, Typed, TypeOK, At, outVars
<1>2. \A u \in Threads \ {t}, j \in InputPins : Holds(u, j)' = Holds(u, j)
  BY <1>1 DEF Holds
<1>3. \A u \in Threads \ {t} : ~Holds(u, i)
  BY <1>0 DEF MutualExclusion
<1>4. \A j \in InputPins : Linked(j)' = Linked(j)
  BY <1>1 DEF Linked
<1>5. \A j \in InputPins : ~Holds(t, j)'
  BY <1>1 DEF Holds, Holding
<1>6. Locked' /\ MutualExclusion' /\ SingleProducer'
  BY <1>0, <1>1, <1>2, <1>3, <1>4, <1>5 DEF Locked, MutualExclusion, SingleProducer
<1>7. AbandonedOnlyWhenConnected'
  BY <1>0, <1>1, <1>2, <1>4 DEF AbandonedOnlyWhenConnected, Holds
<1>8. Seen'
  BY <1>1, <1>4 DEF Seen, At
<1>9. LinkAgreement'
  BY <1>1, <1>4 DEF LinkAgreement, Unsettled
<1>10. FlagAgreement'
  BY <1>1, <1>4 DEF FlagAgreement
<1> QED BY <1>6, <1>7, <1>8, <1>9, <1>10

LEMMA DisconnectLockKeeps ==
  ASSUME IInv, Typed', NEW t \in Threads, DisconnectLock(t)
  PROVE  IInv'
<1> DEFINE i == in[t]
           o == out[t]
<1> USE DEF IInv
<1>0. i \in InputPins /\ o \in OutputPins
  BY DEF DisconnectLock, At, Typed, CallPins, LinkSteps
<1>1. \A u \in Threads : ~Holds(u, i)
  BY <1>0, FreeMeansAlone DEF DisconnectLock
<1>2. /\ UNCHANGED <<in, out, inConnected, receivers, outConnected>>
      /\ pc[t] = "disconnect" /\ pc'[t] = "detach"
      /\ \A u \in Threads \ {t} : pc'[u] = pc[u]
      /\ producersLock'[i] = TRUE
      /\ \A j \in InputPins \ {i} : producersLock'[j] = producersLock[j]
  BY <1>0 DEF DisconnectLock, Goto, At, Typed, TypeOK, outVars
<1>3. /\ producers'[i][o] = 0
      /\ \A p \in OutputPins \ {o} : producers'[i][p] = producers[i][p]
      /\ \A j \in InputPins \ {i} : producers'[j] = producers[j]
  BY <1>0 DEF DisconnectLock, Typed, TypeOK
<1>4. /\ o \notin Linked(i)'
      /\ \A p \in OutputPins \ {o} : p \in Linked(i)' <=> p \in Linked(i)
      /\ \A j \in InputPins \ {i} : Linked(j)' = Linked(j)
  BY <1>0, <1>2, <1>3 DEF Linked
<1>5. inConnected[i] <=> Linked(i) # {}
  BY <1>0, <1>1 DEF FlagAgreement, Holds, Holding
<1>6. Linked(i)' # {} => Linked(i) # {}
  <2>1. Linked(i)' \subseteq OutputPins
    BY DEF Linked
  <2> QED BY <1>4, <2>1
<1>7. Locked' /\ MutualExclusion'
  BY <1>0, <1>1, <1>2 DEF Locked, MutualExclusion, Holds
<1>8. Seen'
  BY <1>0, <1>1, <1>2, <1>4, <1>5, <1>6 DEF Seen, At, Holds, Holding
<1>9. SingleProducer'
  <2>1. \A j \in InputPins \ Multiple, p \in OutputPins : producers'[j][p] <= 1
    <3> SUFFICES ASSUME NEW j \in InputPins \ Multiple, NEW p \in OutputPins
                 PROVE  producers'[j][p] <= 1
      OBVIOUS
    <3>1. CASE j = i /\ p = o
      BY <1>3, <3>1
    <3>2. CASE ~(j = i /\ p = o)
      BY <1>3, <3>2 DEF SingleProducer
    <3> QED BY <3>1, <3>2
  <2>2. \A j \in InputPins \ Multiple, p, q \in OutputPins :
          p \in Linked(j)' /\ q \in Linked(j)' => p = q
    BY <1>0, <1>2, <1>4 DEF SingleProducer
  <2> QED BY <2>1, <2>2 DEF SingleProducer
<1>10. LinkAgreement'
  BY <1>0, <1>1, <1>2, <1>4 DEF LinkAgreement, Unsettled, Holds, Holding
<1>11. AbandonedOnlyWhenConnected'
  BY <1>0, <1>2, <1>4 DEF AbandonedOnlyWhenConnected, Holds, Holding
<1>12. FlagAgreement'
  BY <1>0, <1>1, <1>2, <1>4 DEF FlagAgreement, Holds, Holding
<1> QED BY <1>7, <1>8, <1>9, <1>10, <1>11, <1>12

LEMMA DetachKeeps ==
  ASSUME IInv, Typed', NEW t \in Threads, Detach(t)
  PROVE  IInv'
<1> DEFINE i == in[t]
           o == out[t]
<1> USE DEF IInv
<1>0. i \in InputPins /\ o \in OutputPins /\ Holds(t, i) /\ o \notin Linked(i)
  BY DEF Detach, At, Typed, CallPins, LinkSteps, Holds, Holding, Seen
<1>1. /\ UNCHANGED <<in, out, producers, producersLock, inConnected>>
      /\ pc[t] = "detach" /\ pc'[t] = "detached"
      /\ \A u \in Threads \ {t} : pc'[u] = pc[u]
  BY DEF Detach, Goto, Typed, TypeOK, At, inVars
<1>2. \A u \in Threads, j \in InputPins : Holds(u, j)' = Holds(u, j)
  BY <1>1 DEF Holds, Holding
<1>3. \A u \in Threads \ {t} : ~Holds(u, i)
  BY <1>0 DEF MutualExclusion
<1>4. \A j \in InputPins : Linked(j)' = Linked(j)
  BY <1>1 DEF Linked
<1>5. /\ receivers'[o] = receivers[o] \ {i}
      /\ \A p \in OutputPins \ {o} : /\ receivers'[p] = receivers[p]
                                    /\ outConnected'[p] = outConnected[p]
      /\ outConnected'[o] <=> outConnected[o] /\ receivers[o] \ {i} # {}
  BY <1>0, DetachObjectEffect DEF Detach
<1>6. Locked' /\ MutualExclusion' /\ AbandonedOnlyWhenConnected' /\ SingleProducer'
  BY <1>1, <1>2, <1>4
     DEF Locked, MutualExclusion, AbandonedOnlyWhenConnected, SingleProducer
<1>7. \A j \in InputPins \ {i}, p \in OutputPins : j \in receivers'[p] <=> j \in receivers[p]
  BY <1>0, <1>5
<1>8. Seen'
  <2>1. \A u \in Threads : At(u, "attached") => out[u] \in OutputPins
    BY DEF At, Typed, CallPins, LinkSteps
  <2>2. \A j \in InputPins : Linked(j) \subseteq OutputPins
    BY DEF Linked
  <2> QED BY <1>0, <1>1, <1>3, <1>4, <1>7, <2>1, <2>2 DEF Seen, At, Holds, Holding
<1>9. LinkAgreement'
  BY <1>0, <1>1, <1>3, <1>4, <1>5, <1>7 DEF LinkAgreement, Unsettled, Holds, Holding
<1>10. FlagAgreement'
  BY <1>0, <1>1, <1>3, <1>4, <1>5 DEF FlagAgreement, Holds, Holding
<1> QED BY <1>6, <1>8, <1>9, <1>10

LEMMA DisconnectUnlockKeeps ==
  ASSUME IInv, Typed', NEW t \in Threads, DisconnectUnlock(t)
  PROVE  IInv'
<1> DEFINE i == in[t]
<1> USE DEF IInv
<1>0. i \in InputPins /\ out[t] \in OutputPins /\ Holds(t, i)
  BY DEF DisconnectUnlock, At, Typed, CallPins, LinkSteps, Holds, Holding
<1>1. /\ UNCHANGED <<in, out, producers, receivers, outConnected>>
      /\ pc[t] = "detached" /\ pc'[t] = "disconnecting"
      /\ \A u \in Threads \ {t} : pc'[u] = pc[u]
      /\ \A j \in InputPins \ {i} : producersLock'[j] = producersLock[j]
      /\ \A j \in InputPins \ {i} : inConnected'[j] = inConnected[j]
      /\ producersLock'[i] = FALSE
      /\ inConnected'[i] <=> inConnected[i] /\ Linked(i) # {}
  BY <1>0 DEF DisconnectUnlock, Goto, Typed, TypeOK, At, outVars
<1>2. \A u \in Threads \ {t}, j \in InputPins : Holds(u, j)' = Holds(u, j)
  BY <1>1 DEF Holds
<1>3. \A u \in Threads \ {t} : ~Holds(u, i)
  BY <1>0 DEF MutualExclusion
<1>4. \A j \in InputPins : Linked(j)' = Linked(j)
  BY <1>1 DEF Linked
<1>5. \A j \in InputPins : ~Holds(t, j)'
  BY <1>1 DEF Holds, Holding
<1>6. Locked' /\ MutualExclusion' /\ SingleProducer'
  BY <1>0, <1>1, <1>2, <1>3, <1>4, <1>5 DEF Locked, MutualExclusion, SingleProducer
<1>7. AbandonedOnlyWhenConnected'
  BY <1>0, <1>1, <1>2, <1>4 DEF AbandonedOnlyWhenConnected, Holds
<1>8. Seen'
  BY <1>0, <1>1, <1>3, <1>4 DEF Seen, At, Holds, Holding
<1>9. LinkAgreement'
  BY <1>1, <1>4 DEF LinkAgreement, Unsettled
<1>10. FlagAgreement'
  <2>1. Linked(i) # {} => inConnected[i]
    BY <1>0, <1>1 DEF Seen
  <2> QED BY <1>0, <1>1, <1>4, <2>1 DEF FlagAgreement
<1> QED BY <1>6, <1>7, <1>8, <1>9, <1>10

\* disconnectAllPins and moveProducerFromIndex:toIndex: take the lock of a connected pin and
\* leave it taken; they change no link.
LEMMA TakenForGoodKeeps ==
  ASSUME IInv, Typed', NEW t \in Threads, NEW i \in InputPins,
         in[t] = i, Free(i), pc[t] \notin Holding, Linked(i) # {},
         (pc'[t] = "nested" /\ in'[t] = i) \/ pc'[t] = "idle",
         producersLock' = [producersLock EXCEPT ![i] = TRUE],
         UNCHANGED <<producers, inConnected, receivers, outConnected>>,
         \A u \in Threads \ {t} : pc'[u] = pc[u] /\ in'[u] = in[u] /\ out'[u] = out[u]
  PROVE  IInv'
<1> USE DEF IInv
<1>1. \A u \in Threads : ~Holds(u, i)
  BY FreeMeansAlone
<1>2. /\ producersLock'[i] = TRUE
      /\ \A j \in InputPins \ {i} : producersLock'[j] = producersLock[j]
  BY DEF Typed, TypeOK
<1>3. \A j \in InputPins : Linked(j)' = Linked(j)
  BY DEF Linked
<1>4. \A u \in Threads \ {t}, j \in InputPins : Holds(u, j)' = Holds(u, j)
  BY DEF Holds
<1>5. \A j \in InputPins \ {i} : ~Holds(t, j)' /\ ~Holds(t, j)
  BY DEF Holds, Holding
<1>6. Locked' /\ MutualExclusion' /\ SingleProducer'
  BY <1>1, <1>2, <1>3, <1>4, <1>5 DEF Locked, MutualExclusion, SingleProducer
<1>7. AbandonedOnlyWhenConnected'
  BY <1>2, <1>3, <1>4, <1>5 DEF AbandonedOnlyWhenConnected
<1>8. Seen'
  BY <1>3 DEF Seen, At
<1>9. LinkAgreement'
  BY <1>3 DEF LinkAgreement, Unsettled, Holding
<1>10. FlagAgreement'
  BY <1>3 DEF FlagAgreement, Holding
<1> QED BY <1>6, <1>7, <1>8, <1>9, <1>10

\* What a thread does to its own control state leaves the other threads' alone.
LEMMA OthersStand ==
  ASSUME Typed, NEW t \in Threads, NEW step, NEW i, NEW o, NEW rest,
         Begin(t, step, i, o, rest) \/ Goto(t, step)
  PROVE  /\ pc'[t] = step
         /\ Goto(t, step) => in'[t] = in[t]
         /\ \A u \in Threads \ {t} : pc'[u] = pc[u] /\ in'[u] = in[u] /\ out'[u] = out[u]
BY DEF Begin, Goto, Typed, TypeOK

LEMMA CallKeeps ==
  ASSUME IInv, Typed', NEW t \in Threads, Call(t)
  PROVE  IInv'
<1>1. PICK step, i, o : /\ Enter(t, step, i, o)
                        /\ step \in {"connect", "disconnect", "clear", "move", "gather",
                                     "read", "clearOut", "signal"}
  BY DEF Call, CallConnect, CallDisconnect, CallInput, CallOutput
<1>2. /\ pc[t] = "idle"
      /\ Begin(t, step, i, o, {})
      /\ UNCHANGED <<producers, producersLock, inConnected, receivers, outConnected>>
  BY <1>1 DEF Enter, At, inVars, outVars
<1>3. /\ pc'[t] = step
      /\ \A u \in Threads \ {t} : pc'[u] = pc[u] /\ in'[u] = in[u] /\ out'[u] = out[u]
  BY <1>2, OthersStand DEF IInv
<1>4. pc[t] \notin Holding /\ pc'[t] \notin Holding
  BY <1>1, <1>2, <1>3 DEF Holding
<1> QED BY <1>2, <1>3, <1>4, OutsideKeeps

\* The steps of a method that neither enter nor leave a critical section of an input pin.
Bystander(t) ==
  \/ Disconnected(t) \/ DisconnectAllOutput(t) \/ ReadProducers(t) \/ ReadData(t)
  \/ FetchProducer(t) \/ SignalLock(t) \/ SignalUnlock(t)

LEMMA BystanderKeeps ==
  ASSUME IInv, Typed', NEW t \in Threads, Bystander(t)
  PROVE  IInv'
<1>1. /\ pc[t] \notin Holding
      /\ UNCHANGED <<producers, producersLock, inConnected, receivers, outConnected>>
  BY DEF Bystander, Disconnected, DisconnectAllOutput, ReadProducers, ReadData, FetchProducer,
         SignalLock, SignalUnlock, At, Holding, inVars, outVars
<1>2. PICK step, i, o, rest : /\ Begin(t, step, i, o, rest) \/ Goto(t, step)
                              /\ step \notin Holding
  <2>1. CASE Return(t)
    BY <2>1 DEF Return, Holding
  <2>2. CASE \E i, o, rest : Begin(t, "disconnect", i, o, rest)
    BY <2>2 DEF Holding
  <2>3. CASE \E step \in {"fetch", "crashed", "fanOut"} : Goto(t, step)
    BY <2>3 DEF Holding
  <2> HIDE DEF Return, Begin, Goto
  <2> QED BY <2>1, <2>2, <2>3
          DEF Bystander, Disconnected, DisconnectAllOutput, ReadProducers, ReadData,
              FetchProducer, SignalLock, SignalUnlock
<1>3. /\ pc'[t] = step
      /\ \A u \in Threads \ {t} : pc'[u] = pc[u] /\ in'[u] = in[u] /\ out'[u] = out[u]
  BY <1>2, OthersStand DEF IInv
<1> QED BY <1>1, <1>2, <1>3, OutsideKeeps

LEMMA DisconnectAllInputKeeps ==
  ASSUME IInv, Typed', NEW t \in Threads, DisconnectAllInput(t)
  PROVE  IInv'
<1>1. in[t] \in InputPins /\ Free(in[t]) /\ pc[t] = "clear"
  BY DEF DisconnectAllInput, IInv, Typed, CallPins, InputSteps, At
<1>2. UNCHANGED <<producers, inConnected, receivers, outConnected>>
  BY DEF DisconnectAllInput, outVars
<1>3. CASE Linked(in[t]) = {}
  <2>1. Begin(t, "idle", None, None, {}) /\ UNCHANGED producersLock
    BY <1>3 DEF DisconnectAllInput, Return
  <2>2. /\ pc'[t] = "idle"
        /\ \A u \in Threads \ {t} : pc'[u] = pc[u] /\ in'[u] = in[u] /\ out'[u] = out[u]
    BY <2>1, OthersStand DEF IInv
  <2> QED BY <1>1, <1>2, <2>1, <2>2, OutsideKeeps DEF Holding
<1>4. CASE Linked(in[t]) # {}
  <2>1. Goto(t, "nested") /\ producersLock' = [producersLock EXCEPT ![in[t]] = TRUE]
    BY <1>4 DEF DisconnectAllInput
  <2>2. /\ pc'[t] = "nested" /\ in'[t] = in[t]
        /\ \A u \in Threads \ {t} : pc'[u] = pc[u] /\ in'[u] = in[u] /\ out'[u] = out[u]
    BY <2>1, OthersStand DEF IInv
  <2>3. pc[t] \notin Holding
    BY <1>1 DEF Holding
  <2> QED BY <1>1, <1>2, <1>4, <2>1, <2>2, <2>3, TakenForGoodKeeps
<1> QED BY <1>3, <1>4

LEMMA MoveProducerKeeps ==
  ASSUME IInv, Typed', NEW t \in Threads, MoveProducer(t)
  PROVE  IInv'
<1>1. in[t] \in InputPins /\ Free(in[t]) /\ pc[t] \notin Holding
  BY DEF MoveProducer, IInv, Typed, CallPins, InputSteps, At, Holding
<1>2. UNCHANGED <<producers, inConnected, receivers, outConnected>>
  BY DEF MoveProducer, outVars
<1>3. /\ pc'[t] = "idle"
      /\ \A u \in Threads \ {t} : pc'[u] = pc[u] /\ in'[u] = in[u] /\ out'[u] = out[u]
  <2>1. Begin(t, "idle", None, None, {})
    BY DEF MoveProducer, Return
  <2> QED BY <2>1, OthersStand DEF IInv
<1>4. CASE UNCHANGED producersLock
  BY <1>1, <1>2, <1>3, <1>4, OutsideKeeps DEF Holding
<1>5. CASE Linked(in[t]) # {} /\ producersLock' = [producersLock EXCEPT ![in[t]] = TRUE]
  BY <1>1, <1>2, <1>3, <1>5, TakenForGoodKeeps
<1> QED BY <1>4, <1>5 DEF MoveProducer

LEMMA NextIInv == IInv /\ [Next]_vars => IInv'
<1> SUFFICES ASSUME IInv, [Next]_vars PROVE IInv'
  OBVIOUS
<1>0. Typed'
  BY NextTyped DEF IInv
<1>1. CASE UNCHANGED vars
  BY <1>0, <1>1
     DEF IInv, Locked, MutualExclusion, Seen, SingleProducer, LinkAgreement, Unsettled,
         AbandonedOnlyWhenConnected, FlagAgreement, Holds, Linked, At,
         vars, inVars, outVars, thVars
<1>2. ASSUME NEW t \in Threads, Call(t) PROVE IInv'
  BY <1>0, <1>2, CallKeeps
<1>3. ASSUME NEW t \in Threads, Step(t) PROVE IInv'
  BY <1>0, <1>3, ConnectLockKeeps, EvictKeeps, EvictedKeeps, AttachKeeps, AttachedKeeps,
     ConnectedKeeps, DisconnectLockKeeps, DetachKeeps, DisconnectUnlockKeeps,
     DisconnectAllInputKeeps, MoveProducerKeeps, BystanderKeeps
     DEF Step, Bystander
<1> QED BY <1>1, <1>2, <1>3 DEF Next

LEMMA Invariant == Spec => []IInv
BY InitIInv, NextIInv, PTL DEF Spec

\* At most one thread is in the critical sections of an input pin, although two of the methods
\* that enter them return without unlocking.
THEOREM LockIsExclusive == Spec => []MutualExclusion
<1>1. IInv => MutualExclusion
  BY DEF IInv
<1> QED BY <1>1, Invariant, PTL

\* The array of producers and the dictionary of receivers describe the same links whenever no
\* thread is between the two updates.
THEOREM LinksAgree == Spec => []LinkAgreement
<1>1. IInv => LinkAgreement
  BY DEF IInv
<1> QED BY <1>1, Invariant, PTL

\* An input pin that takes one connection has at most one producer.
THEOREM OneProducer == Spec => []SingleProducer
<1>1. IInv => SingleProducer
  BY DEF IInv
<1> QED BY <1>1, Invariant, PTL

\* The connected flags tell whether there are links.
THEOREM FlagsAgree == Spec => []FlagAgreement
<1>1. IInv => FlagAgreement
  BY DEF IInv
<1> QED BY <1>1, Invariant, PTL

\* Only a connected pin is ever left locked.
THEOREM AbandonedPinsAreConnected == Spec => []AbandonedOnlyWhenConnected
<1>1. IInv => AbandonedOnlyWhenConnected
  BY DEF IInv
<1> QED BY <1>1, Invariant, PTL

\* The receivers of an output pin stand still while a fan-out holds receiversLock.
THEOREM FanOutIsStable == Spec => StableFanOut
<1>1. ASSUME Typed, [Next]_vars
      PROVE  [\A o \in OutputPins : receiversLock[o] => receivers'[o] = receivers[o]]_vars
  <2> SUFFICES ASSUME Next, NEW o \in OutputPins, receiversLock[o]
               PROVE  receivers'[o] = receivers[o]
    BY <1>1
  <2>1. ASSUME NEW t \in Threads, Evict(t) PROVE receivers'[o] = receivers[o]
    BY <1>1, <2>1 DEF Evict, DetachObject, Linked, Typed, TypeOK
  <2>2. ASSUME NEW t \in Threads, Attach(t) PROVE receivers'[o] = receivers[o]
    BY <1>1, <2>2 DEF Attach, Typed, TypeOK
  <2>3. ASSUME NEW t \in Threads, Detach(t) PROVE receivers'[o] = receivers[o]
    BY <1>1, <2>3 DEF Detach, DetachObject, Typed, TypeOK
  <2>4. ASSUME NEW t \in Threads, Call(t) \/ Step(t), ~Evict(t), ~Attach(t), ~Detach(t)
        PROVE  UNCHANGED receivers
    BY <2>4 DEF Call, CallConnect, CallDisconnect, CallInput, CallOutput, Enter, Step,
       ConnectLock, Evicted, Attached, Connected, DisconnectLock, DisconnectUnlock,
       Disconnected, DisconnectAllInput, DisconnectAllOutput, MoveProducer, ReadProducers,
       ReadData, FetchProducer, SignalLock, SignalUnlock, outVars
  <2> QED BY <2>1, <2>2, <2>3, <2>4 DEF Next
<1>2. Spec => []Typed
  BY InitTyped, NextTyped, PTL DEF Spec
<1> QED BY <1>1, <1>2, PTL DEF Spec, StableFanOut
=============================================================================
