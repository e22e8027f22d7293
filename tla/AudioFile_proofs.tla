-------------------------- MODULE AudioFile_proofs --------------------------
(***************************************************************************)
(* Proofs about AudioFile, for any number of readers, any size of the ring *)
(* and of the file, and any width of the offsets.                          *)
(***************************************************************************)
EXTENDS AudioFile, FiniteSetTheorems, SequenceTheorems, TLAPS

-----------------------------------------------------------------------------
(***************************************************************************)
(* Unsigned arithmetic.                                                    *)
(***************************************************************************)
Half == N \div 2

\* Half of the ring is less than the range of the offsets.
LEMMA HalfFits == Half \in Nat /\ 0 < Half /\ Half < W /\ W \in Nat
BY AudioAssumption DEF AudioAssumption, Half

\* Incrementing an offset.
LEMMA Increment ==
  ASSUME NEW n \in 0 .. W - 1
  PROVE  Wrap(n + 1) = IF n = W - 1 THEN 0 ELSE n + 1
<1>1. CASE n = W - 1
  BY <1>1, HalfFits DEF Wrap
<1>2. CASE n < W - 1
  BY <1>2, HalfFits DEF Wrap
<1> QED BY <1>1, <1>2, HalfFits

\* The difference of two offsets.
LEMMA Difference ==
  ASSUME NEW w \in 0 .. W - 1, NEW r \in 0 .. W - 1
  PROVE  Wrap(w - r) = IF r <= w THEN w - r ELSE w - r + W
<1> DEFINE d == w - r
<1>1. CASE r <= w
  <2>1. d \in 0 .. W - 1
    BY <1>1, HalfFits
  <2>2. d % W = d
    BY <2>1, HalfFits
  <2> QED BY <1>1, <2>2 DEF Wrap
<1>2. CASE w < r
  <2>1. d \in Int /\ d < 0 /\ d > -W
    BY <1>2, HalfFits
  <2>2. d % W = d + W
    BY <2>1, HalfFits
  <2> QED BY <1>2, <2>2, HalfFits DEF Wrap
<1> QED BY <1>1, <1>2, HalfFits

\* The slots are those of the ring, and Half is what fillBuffer compares with.
LEMMA SlotInRing == ASSUME NEW n \in Nat PROVE Slot(n) \in 0 .. N - 1
BY AudioAssumption DEF AudioAssumption, Slot

-----------------------------------------------------------------------------
(***************************************************************************)
(* The inductive invariant.                                                *)
(***************************************************************************)
\* isFilling is set while a filler runs, and there is one at most.
Alone ==
  /\ \A f, g \in Running : f = g
  /\ isFilling <=> Running # {}

\* A filler that goes to store a block has found room, and only the readers
\* have moved since.
RoomFound ==
  \A f \in Fillers : filler[f] \in {"readFrames", "store"} => Pending < Half

IInv == TypeOK /\ Alone /\ RoomFound /\ OffsetsAgree

LEMMA InitIInv == Init => IInv
<1> SUFFICES ASSUME Init PROVE IInv
  OBVIOUS
<1>1. TypeOK
  <2>1. 0 \in 0 .. W - 1 /\ 0 \in 0 .. Blocks
    BY HalfFits, AudioAssumption DEF AudioAssumption
  <2>2. samples \in [0 .. N - 1 -> Block \cup {None}]
    BY DEF Init
  <2>3. filler \in [Fillers -> FillerSteps] /\ newSample \in [Fillers -> Block \cup {None}]
    BY DEF Init, FillerSteps
  <2>4. reader \in [Readers -> ReaderSteps]
    BY DEF Init, ReaderSteps
  <2> QED BY <2>1, <2>2, <2>3, <2>4 DEF Init, TypeOK
<1>2. Alone
  <2>1. Fillers = 1 .. MaxFillers /\ 1 \in Fillers
    BY AudioAssumption DEF AudioAssumption, Fillers
  <2>2. Running = {1}
    BY <2>1 DEF Init, Running
  <2> QED BY <2>2 DEF Init, Alone
<1>3. RoomFound
  BY DEF Init, RoomFound
<1>4. Pending = 0
  <2>1. wOffset \in 0 .. W - 1 /\ rOffset \in 0 .. W - 1 /\ wOffset = 0 /\ rOffset = 0
    BY HalfFits DEF Init
  <2> QED BY ONLY <2>1, Difference DEF Pending
<1>5. OffsetsAgree
  BY <1>4, HalfFits DEF Init, OffsetsAgree, Half
<1> QED BY <1>1, <1>2, <1>3, <1>5 DEF IInv

-----------------------------------------------------------------------------
(***************************************************************************)
(* Steps of the fillers.                                                   *)
(***************************************************************************)
LEMMA TestKeeps ==
  ASSUME IInv, NEW f \in Fillers, Test(f)
  PROVE  IInv'
<1> USE DEF IInv, Test, FillerAt, ring, entity, history
<1>1. TypeOK'
  BY DEF TypeOK, FillerSteps
<1>2. Alone'
  BY DEF Alone, Running, TypeOK
<1>3. Pending' = Pending
  BY DEF Pending, Wrap
<1>4. RoomFound'
  BY <1>3 DEF RoomFound, TypeOK, Half
<1>5. OffsetsAgree'
  BY <1>3 DEF OffsetsAgree
<1> QED BY <1>1, <1>2, <1>4, <1>5

LEMMA ReadFramesKeeps ==
  ASSUME IInv, NEW f \in Fillers, ReadFrames(f)
  PROVE  IInv'
<1> USE DEF IInv, ReadFrames, FillerAt, ring, entity, history
<1>1. TypeOK'
  BY AudioAssumption DEF TypeOK, FillerSteps, Block, AudioAssumption
<1>2. Alone'
  BY DEF Alone, Running, TypeOK
<1>3. Pending' = Pending
  BY DEF Pending, Wrap
<1>4. RoomFound'
  BY <1>3 DEF RoomFound, TypeOK
<1>5. OffsetsAgree'
  BY <1>3 DEF OffsetsAgree
<1> QED BY <1>1, <1>2, <1>4, <1>5

\* The filler moves wOffset while it is less than Half ahead, so it cannot run
\* into rOffset from behind, whether it wraps around or not.
LEMMA StoreKeeps ==
  ASSUME IInv, NEW f \in Fillers, Store(f)
  PROVE  IInv'
<1> USE DEF IInv
<1>1. /\ wOffset \in 0 .. W - 1 /\ rOffset \in 0 .. W - 1 /\ rOffset' = rOffset
      /\ Pending < Half
  BY DEF Store, TypeOK, RoomFound
<1>2. wOffset' = wOffset \/ wOffset' = Wrap(wOffset + 1)
  BY DEF Store
<1>3. wOffset' \in 0 .. W - 1
  BY <1>1, <1>2, Increment, HalfFits
<1>4. Pending' = IF rOffset <= wOffset' THEN wOffset' - rOffset ELSE wOffset' - rOffset + W
  BY <1>1, <1>3, Difference DEF Pending
<1>5. TypeOK'
  <2>1. overflow' \in BOOLEAN /\ wrapped' \in BOOLEAN
    BY DEF TypeOK, Store
  <2>2. newSample' \in [Fillers -> Block \cup {None}] /\ filler' \in [Fillers -> FillerSteps]
    BY DEF TypeOK, Store, FillerAt, FillerSteps
  <2>3. samples' \in [0 .. N - 1 -> Block \cup {None}]
    BY DEF TypeOK, Store
  <2>4. UNCHANGED <<rOffset, isFilling, position, repeat, active, reader, last, overlapped>>
    BY DEF Store, entity
  <2> QED BY <1>3, <2>1, <2>2, <2>3, <2>4 DEF TypeOK
<1>6. Alone'
  BY DEF Alone, Running, TypeOK, Store, FillerAt
<1>7. RoomFound'
  BY DEF RoomFound, Alone, Running, TypeOK, Store, FillerAt
<1>8. OffsetsAgree'
  <2>1. Pending = IF rOffset <= wOffset THEN wOffset - rOffset ELSE wOffset - rOffset + W
    BY <1>1, Difference DEF Pending
  <2>2. CASE newSample[f] = None
    <3>1. wOffset' = wOffset /\ rOffset' = rOffset /\ overflow' = overflow
      BY <2>2 DEF Store
    <3> QED BY <3>1 DEF OffsetsAgree, Pending
  <2>3. CASE newSample[f] # None
    <3>1. wOffset' = (IF wOffset = W - 1 THEN 0 ELSE wOffset + 1)
      BY <1>1, <2>3, Increment DEF Store
    <3>2. overflow' <=> overflow \/ wOffset' = 0
      BY <2>3 DEF Store
    <3>3. Pending' <= Half
      BY <1>1, <1>4, <2>1, <3>1, HalfFits
    <3>4. overflow' <=> rOffset' > wOffset'
      BY <1>1, <2>1, <3>1, <3>2, HalfFits DEF OffsetsAgree
    <3> QED BY <3>3, <3>4 DEF OffsetsAgree, Half
  <2> QED BY <2>2, <2>3
<1> QED BY <1>5, <1>6, <1>7, <1>8

LEMMA FinishKeeps ==
  ASSUME IInv, NEW f \in Fillers, Finish(f)
  PROVE  IInv'
<1> USE DEF IInv, Finish, FillerAt, ring, entity, history
<1>1. TypeOK'
  BY DEF TypeOK, FillerSteps
<1>2. Alone'
  BY DEF Alone, Running, TypeOK
<1>3. Pending' = Pending
  BY DEF Pending, Wrap
<1>4. RoomFound'
  BY <1>3 DEF RoomFound, TypeOK
<1>5. OffsetsAgree'
  BY <1>3 DEF OffsetsAgree
<1> QED BY <1>1, <1>2, <1>4, <1>5

-----------------------------------------------------------------------------
(***************************************************************************)
(* Steps of the readers.                                                   *)
(***************************************************************************)
\* A reader takes a sample only if there is one, so rOffset does not overtake
\* wOffset, and overflow is reset when rOffset has wrapped around too.
LEMMA TakeKeeps ==
  ASSUME IInv, TakeSample, wOffset' = wOffset
  PROVE  /\ samples' \in [0 .. N - 1 -> Block \cup {None}]
         /\ rOffset' \in 0 .. W - 1 /\ overflow' \in BOOLEAN /\ last' \in Block \cup {-1}
         /\ Pending' <= Pending
         /\ OffsetsAgree'
<1> USE DEF IInv
<1>1. wOffset \in 0 .. W - 1 /\ rOffset \in 0 .. W - 1
  BY DEF TypeOK
<1>2. CASE ~Available
  <2>1. UNCHANGED <<samples, rOffset, overflow, last>>
    BY <1>2 DEF TakeSample
  <2>2. Pending' = Pending /\ Pending \in Int
    BY <1>1, <2>1, Difference, HalfFits DEF Pending
  <2> QED BY <2>1, <2>2 DEF TypeOK, OffsetsAgree
<1>3. CASE Available
  <2>1. /\ samples' = [samples EXCEPT ![Slot(rOffset)] = None]
        /\ rOffset' = Wrap(rOffset + 1)
        /\ overflow' = (overflow /\ rOffset' # 0)
        /\ last' = IF Sample = None THEN last ELSE Sample
    BY <1>3 DEF TakeSample
  <2>2. rOffset # wOffset /\ (overflow <=> rOffset > wOffset)
    BY <1>1, <1>3 DEF Available, OffsetsAgree
  <2>3. rOffset' = IF rOffset = W - 1 THEN 0 ELSE rOffset + 1
    BY <1>1, <2>1, Increment
  <2>4. rOffset' \in 0 .. W - 1
    BY <1>1, <2>3, HalfFits
  <2>5. /\ Pending = IF rOffset <= wOffset THEN wOffset - rOffset ELSE wOffset - rOffset + W
        /\ Pending' = IF rOffset' <= wOffset THEN wOffset - rOffset' ELSE wOffset - rOffset' + W
    BY <1>1, <2>4, Difference DEF Pending
  <2>6. Pending' <= Pending /\ Pending \in Int /\ Pending' \in Int
    BY <1>1, <2>2, <2>3, <2>5, HalfFits
  <2>7. overflow' <=> rOffset' > wOffset'
    <3>1. overflow' <=> overflow /\ rOffset' # 0
      BY <2>1
    <3> QED BY <1>1, <2>2, <2>3, <3>1, HalfFits
  <2>8. OffsetsAgree'
    BY <2>6, <2>7, HalfFits DEF OffsetsAgree, Half
  <2>9. samples' \in [0 .. N - 1 -> Block \cup {None}] /\ overflow' \in BOOLEAN
    BY <2>1 DEF TypeOK
  <2>10. last' \in Block \cup {-1}
    <3>1. Slot(rOffset) \in 0 .. N - 1
      BY <1>1, SlotInRing
    <3>2. samples[Slot(rOffset)] \in Block \cup {None}
      BY <3>1 DEF TypeOK
    <3> QED BY <1>3, <2>1, <3>2 DEF Sample, TypeOK
  <2> QED BY <2>4, <2>6, <2>8, <2>9, <2>10
<1> QED BY <1>2, <1>3

\* A filler is started only when none runs.
LEMMA StartKeeps ==
  ASSUME IInv, StartFilling
  PROVE  /\ filler' \in [Fillers -> FillerSteps] /\ isFilling' \in BOOLEAN
         /\ Alone'
         /\ \A f \in Fillers : filler'[f] \in {"readFrames", "store"} => filler'[f] = filler[f]
<1> USE DEF IInv
<1>1. CASE UNCHANGED <<isFilling, filler>>
  BY <1>1 DEF TypeOK, Alone, Running
<1>2. CASE ~UNCHANGED <<isFilling, filler>>
  <2>1. Running = {} /\ isFilling' = TRUE
    BY <1>2 DEF StartFilling, Alone
  <2>2. PICK f \in Fillers : filler' = [filler EXCEPT ![f] = "test"]
    BY <1>2 DEF StartFilling, Idle, FillerAt
  <2>3. Running' = {f}
    BY <2>1, <2>2 DEF Running, TypeOK
  <2> QED BY <2>1, <2>2, <2>3 DEF Alone, TypeOK, FillerSteps
<1> QED BY <1>1, <1>2

LEMMA ReadSampleKeeps ==
  ASSUME IInv, ReadSample, UNCHANGED <<entity, overlapped>>,
         reader' \in [Readers -> ReaderSteps]
  PROVE  IInv'
<1>1. TakeSample /\ StartFilling /\ UNCHANGED <<wOffset, position, newSample, wrapped>>
  BY DEF ReadSample
<1>2. TypeOK'
  BY <1>1, TakeKeeps, StartKeeps DEF IInv, TypeOK, entity
<1>3. Pending' <= Pending /\ Pending \in Int /\ Pending' \in Int
  <2>1. /\ wOffset \in 0 .. W - 1 /\ rOffset \in 0 .. W - 1
        /\ wOffset' \in 0 .. W - 1 /\ rOffset' \in 0 .. W - 1
    BY <1>2 DEF IInv, TypeOK
  <2>2. Pending = IF rOffset <= wOffset THEN wOffset - rOffset ELSE wOffset - rOffset + W
    BY <2>1, Difference DEF Pending
  <2>3. Pending' = IF rOffset' <= wOffset' THEN wOffset' - rOffset' ELSE wOffset' - rOffset' + W
    BY <2>1, Difference DEF Pending
  <2>4. Pending \in Int /\ Pending' \in Int
    BY <2>1, <2>2, <2>3, HalfFits
  <2> QED BY <1>1, <2>4, TakeKeeps
<1>4. RoomFound'
  BY <1>1, <1>3, StartKeeps, HalfFits DEF IInv, RoomFound
<1> QED BY <1>1, <1>2, <1>4, TakeKeeps, StartKeeps DEF IInv

LEMMA PullKeeps ==
  ASSUME IInv, NEW t \in Readers, Pull(t)
  PROVE  IInv'
<1>1. ReadSample /\ UNCHANGED <<entity, overlapped>>
  BY DEF Pull
<1>2. reader' \in [Readers -> ReaderSteps]
  BY DEF Pull, ReaderAt, IInv, TypeOK, ReaderSteps
<1> QED BY <1>1, <1>2, ReadSampleKeeps

LEMMA ReadAgainKeeps ==
  ASSUME IInv, NEW t \in Readers, ReadAgain(t)
  PROVE  IInv'
<1>1. ReadSample /\ UNCHANGED <<entity, overlapped>>
  BY DEF ReadAgain
<1>2. reader' \in [Readers -> ReaderSteps]
  BY DEF ReadAgain, ReaderAt, IInv, TypeOK, ReaderSteps
<1> QED BY <1>1, <1>2, ReadSampleKeeps

LEMMA FindEndKeeps ==
  ASSUME IInv, NEW t \in Readers, FindEnd(t)
  PROVE  IInv'
<1> USE DEF IInv, FindEnd, ReaderAt, ring, entity, history
<1>1. TypeOK'
  BY DEF TypeOK, ReaderSteps
<1>2. Alone'
  BY DEF Alone, Running
<1>3. Pending' = Pending
  BY DEF Pending, Wrap
<1>4. RoomFound'
  BY <1>3 DEF RoomFound
<1>5. OffsetsAgree'
  BY <1>3 DEF OffsetsAgree
<1> QED BY <1>1, <1>2, <1>4, <1>5

LEMMA RewindKeeps ==
  ASSUME IInv, NEW t \in Readers, Rewind(t)
  PROVE  IInv'
<1> USE DEF IInv, Rewind, ReaderAt, ring, entity, history
<1>1. TypeOK'
  BY AudioAssumption DEF TypeOK, ReaderSteps, AudioAssumption
<1>2. Alone'
  BY DEF Alone, Running
<1>3. Pending' = Pending
  BY DEF Pending, Wrap
<1>4. RoomFound'
  BY <1>3 DEF RoomFound
<1>5. OffsetsAgree'
  BY <1>3 DEF OffsetsAgree
<1> QED BY <1>1, <1>2, <1>4, <1>5

LEMMA DeactivateKeeps ==
  ASSUME IInv, NEW t \in Readers, Deactivate(t)
  PROVE  IInv'
<1> USE DEF IInv, Deactivate, ReaderAt, ring, entity, history
<1>1. TypeOK'
  BY DEF TypeOK, ReaderSteps
<1>2. Alone'
  BY DEF Alone, Running
<1>3. Pending' = Pending
  BY DEF Pending, Wrap
<1>4. RoomFound'
  BY <1>3 DEF RoomFound
<1>5. OffsetsAgree'
  BY <1>3 DEF OffsetsAgree
<1> QED BY <1>1, <1>2, <1>4, <1>5

LEMMA DoRepeatKeeps ==
  ASSUME IInv, NEW value \in BOOLEAN, DoRepeat(value)
  PROVE  IInv'
<1> USE DEF IInv, DoRepeat, ReaderAt, ring, entity, history
<1>1. TypeOK'
  BY DEF TypeOK
<1>2. Alone'
  BY DEF Alone, Running
<1>3. Pending' = Pending
  BY DEF Pending, Wrap
<1>4. RoomFound'
  BY <1>3 DEF RoomFound
<1>5. OffsetsAgree'
  BY <1>3 DEF OffsetsAgree
<1> QED BY <1>1, <1>2, <1>4, <1>5

-----------------------------------------------------------------------------
(***************************************************************************)
(* The invariant, and what follows from it.                                *)
(***************************************************************************)
LEMMA StutterKeeps ==
  ASSUME IInv, UNCHANGED vars
  PROVE  IInv'
BY DEF IInv, vars, ring, entity, history, TypeOK, Alone, Running, RoomFound, OffsetsAgree,
   Pending, Wrap

LEMMA NextIInv == IInv /\ [Next]_vars => IInv'
<1> SUFFICES ASSUME IInv, Next PROVE IInv'
  BY StutterKeeps
<1>1. ASSUME NEW f \in Fillers, Fill(f)
      PROVE  IInv'
  BY <1>1, TestKeeps, ReadFramesKeeps, StoreKeeps, FinishKeeps DEF Fill
<1>2. ASSUME NEW t \in Readers, Audio(t)
      PROVE  IInv'
  BY <1>2, PullKeeps, FindEndKeeps, RewindKeeps, ReadAgainKeeps, DeactivateKeeps DEF Audio
<1>3. ASSUME NEW value \in BOOLEAN, DoRepeat(value)
      PROVE  IInv'
  BY <1>3, DoRepeatKeeps
<1> QED BY <1>1, <1>2, <1>3 DEF Next

LEMMA Invariant == Spec => []IInv
BY InitIInv, NextIInv, PTL DEF Spec

\* The types of the variables.
THEOREM TypeCorrect == Spec => []TypeOK
<1>1. IInv => TypeOK
  BY DEF IInv
<1> QED BY <1>1, Invariant, PTL

\* The readers and the filler never overtake each other, across any number of
\* wraps of the offsets and whatever the size of the ring.
THEOREM OffsetsAlwaysAgree == Spec => []OffsetsAgree
<1>1. IInv => OffsetsAgree
  BY DEF IInv
<1> QED BY <1>1, Invariant, PTL

\* isFilling, cleared without the lock, lets one filler run at a time.
THEOREM FillerIsAlone == Spec => []OneFiller
<1>1. ASSUME IInv PROVE OneFiller
  <2>1. CASE Running = {}
    BY <1>1, <2>1, FS_EmptySet DEF IInv, Alone, OneFiller
  <2>2. CASE Running # {}
    <3>1. PICK f \in Running : Running = {f}
      BY <1>1, <2>2 DEF IInv, Alone
    <3>2. Cardinality(Running) = 1
      BY <3>1, FS_Singleton
    <3> QED BY <1>1, <3>2 DEF IInv, Alone, OneFiller
  <2> QED BY <2>1, <2>2
<1> QED BY <1>1, Invariant, PTL

-----------------------------------------------------------------------------
(***************************************************************************)
(* The ring implements the bounded queue of SampleQueue until wOffset      *)
(* wraps around.                                                           *)
(***************************************************************************)
\* A block that has been read is in the hands of the filler that stores it.
HandedOver == \A f \in Fillers : newSample[f] # None => filler[f] = "store"

\* Before the wrap the slots between the offsets hold the blocks.
Unwrapped ==
  ~wrapped => /\ ~overflow
              /\ \A n \in rOffset .. wOffset - 1 : samples[Slot(n)] # None

RInv == IInv /\ HandedOver /\ Unwrapped

\* a and b fall into different slots of the ring if they are less than N apart.
LEMMA Product == ASSUME NEW a \in Nat, NEW b \in Int, b >= 1 PROVE a * b >= a
OBVIOUS

LEMMA Quotient ==
  ASSUME NEW n \in Nat
  PROVE  /\ n \div N \in Int /\ n % N \in 0 .. N - 1
         /\ n = N * (n \div N) + (n % N)
BY AudioAssumption DEF AudioAssumption

LEMMA SlotsDiffer ==
  ASSUME NEW a \in Nat, NEW b \in Nat, a < b, b < a + N
  PROVE  Slot(a) # Slot(b)
<1> SUFFICES ASSUME a % N = b % N PROVE FALSE
  BY DEF Slot
<1> DEFINE p == a \div N
           q == b \div N
           d == q - p
<1>0. N \in Nat
  BY AudioAssumption DEF AudioAssumption
<1>1. /\ p \in Int /\ q \in Int /\ a % N \in Int
      /\ a = N * p + (a % N) /\ b = N * q + (b % N)
  BY Quotient
<1>2. b - a = N * q - N * p
  BY <1>0, <1>1
<1>3. N * q - N * p = N * d
  BY <1>0, <1>1
<1>4. d \in Int /\ 0 < N * d /\ N * d < N
  BY <1>0, <1>1, <1>2, <1>3
<1> HIDE DEF d
<1>5. CASE d >= 1
  BY <1>0, <1>4, <1>5, Product
<1>6. CASE d <= 0
  <2>1. N * d <= 0
    BY <1>0, <1>4, <1>6
  <2> QED BY <1>0, <1>4, <2>1
<1> QED BY <1>4, <1>5, <1>6

\* What Buffered is for a ring smp, a read offset r and a write offset w.
Between(smp, r, w) == [i \in 1 .. w - r |-> smp[Slot(r + i - 1)]]

LEMMA BetweenIsASeq ==
  ASSUME NEW smp \in [0 .. N - 1 -> Block \cup {None}],
         NEW r \in 0 .. W - 1, NEW w \in 0 .. W - 1, r <= w,
         \A n \in r .. w - 1 : smp[Slot(n)] # None
  PROVE  /\ Between(smp, r, w) \in Seq(Block)
         /\ Len(Between(smp, r, w)) = w - r
         /\ [i \in 1 .. Wrap(w - r) |-> smp[Slot(Wrap(r + i - 1))]] = Between(smp, r, w)
<1>1. w - r \in Nat
  BY HalfFits
<1>2. ASSUME NEW i \in 1 .. w - r
      PROVE  /\ smp[Slot(r + i - 1)] \in Block
             /\ Wrap(r + i - 1) = r + i - 1
  <2>1. r + i - 1 \in r .. w - 1 /\ r + i - 1 \in 0 .. W - 1 /\ r + i - 1 \in Nat
    BY HalfFits
  <2>2. Slot(r + i - 1) \in 0 .. N - 1
    BY <2>1, SlotInRing
  <2>3. (r + i - 1) % W = r + i - 1
    BY <2>1, HalfFits
  <2> QED BY <2>1, <2>2, <2>3 DEF Wrap
<1>3. Between(smp, r, w) \in [1 .. w - r -> Block]
  BY <1>2 DEF Between
<1>4. Between(smp, r, w) \in Seq(Block)
  BY <1>1, <1>3, SeqDef
<1>5. Len(Between(smp, r, w)) = w - r
  BY <1>1, <1>3, <1>4, LenProperties
<1>6. Wrap(w - r) = w - r
  BY Difference
<1> QED BY <1>2, <1>4, <1>5, <1>6 DEF Between

\* Adding and taking at the ends of such a sequence.
LEMMA BetweenGrows ==
  ASSUME NEW smp \in [0 .. N - 1 -> Block \cup {None}], NEW b \in Block,
         NEW r \in 0 .. W - 1, NEW w \in 0 .. W - 2, r <= w, w - r < N,
         \A n \in r .. w - 1 : smp[Slot(n)] # None
  PROVE  LET new == [smp EXCEPT ![Slot(w)] = b]
         IN  /\ \A n \in r .. w : new[Slot(n)] # None
             /\ Between(new, r, w + 1) = Append(Between(smp, r, w), b)
<1> DEFINE new == [smp EXCEPT ![Slot(w)] = b]
<1>0. w \in 0 .. W - 1 /\ w + 1 \in 0 .. W - 1 /\ w \in Nat /\ r <= w + 1
  BY HalfFits
<1>1. new \in [0 .. N - 1 -> Block \cup {None}] /\ Slot(w) \in 0 .. N - 1 /\ new[Slot(w)] = b
  BY <1>0, SlotInRing
<1>2. ASSUME NEW n \in r .. w - 1
      PROVE  new[Slot(n)] = smp[Slot(n)]
  <2>1. n \in Nat /\ n < w /\ w < n + N
    BY AudioAssumption DEF AudioAssumption
  <2>2. Slot(n) # Slot(w) /\ Slot(n) \in 0 .. N - 1
    BY <1>0, <2>1, SlotsDiffer, SlotInRing
  <2> QED BY <2>2
<1>3. b # None
  BY AudioAssumption DEF Block, None, AudioAssumption
<1>4. \A n \in r .. w : new[Slot(n)] # None
  <2> SUFFICES ASSUME NEW n \in r .. w PROVE new[Slot(n)] # None
    OBVIOUS
  <2>1. CASE n = w
    BY <1>1, <1>3, <2>1
  <2>2. CASE n # w
    <3>1. n \in r .. w - 1
      BY <2>2
    <3> QED BY <1>2, <3>1
  <2> QED BY <2>1, <2>2
<1> HIDE DEF new
<1>5. /\ Between(smp, r, w) \in Seq(Block) /\ Len(Between(smp, r, w)) = w - r
      /\ Between(new, r, w + 1) \in Seq(Block) /\ Len(Between(new, r, w + 1)) = w + 1 - r
  <2>1. Between(smp, r, w) \in Seq(Block) /\ Len(Between(smp, r, w)) = w - r
    BY <1>0, BetweenIsASeq
  <2> DEFINE v == w + 1
  <2>2. v \in 0 .. W - 1 /\ r <= v /\ v - 1 = w
    BY <1>0
  <2>3. \A n \in r .. v - 1 : new[Slot(n)] # None
    BY <1>4, <2>2
  <2> HIDE DEF v
  <2>4. Between(new, r, v) \in Seq(Block) /\ Len(Between(new, r, v)) = v - r
    BY <1>1, <2>2, <2>3, BetweenIsASeq
  <2> QED BY <2>1, <2>4 DEF v
<1>6. /\ Append(Between(smp, r, w), b) \in Seq(Block)
      /\ Len(Append(Between(smp, r, w), b)) = w - r + 1
      /\ \A i \in 1 .. w - r : Append(Between(smp, r, w), b)[i] = Between(smp, r, w)[i]
      /\ Append(Between(smp, r, w), b)[w - r + 1] = b
  BY <1>5, AppendProperties
<1>7. ASSUME NEW i \in 1 .. w - r + 1
      PROVE  Between(new, r, w + 1)[i] = Append(Between(smp, r, w), b)[i]
  <2>1. Between(new, r, w + 1)[i] = new[Slot(r + i - 1)]
    BY DEF Between
  <2>2. CASE i = w - r + 1
    <3>1. r + i - 1 = w
      BY <2>2
    <3> QED BY <1>1, <1>6, <2>1, <2>2, <3>1
  <2>3. CASE i # w - r + 1
    <3>1. i \in 1 .. w - r /\ r + i - 1 \in r .. w - 1
      BY <2>3
    <3>2. Between(smp, r, w)[i] = smp[Slot(r + i - 1)]
      BY <3>1 DEF Between
    <3> QED BY <1>2, <1>6, <2>1, <3>1, <3>2
  <2> QED BY <2>2, <2>3
<1>8. w + 1 - r = w - r + 1
  BY <1>0
<1>9. Between(new, r, w + 1) = Append(Between(smp, r, w), b)
  <2>1. Len(Between(new, r, w + 1)) = Len(Append(Between(smp, r, w), b))
    BY <1>5, <1>6, <1>8
  <2>2. \A i \in 1 .. Len(Between(new, r, w + 1)) :
          Between(new, r, w + 1)[i] = Append(Between(smp, r, w), b)[i]
    BY <1>5, <1>7, <1>8
  <2> QED BY <1>5, <1>6, <2>1, <2>2, SeqEqual
<1> QED BY <1>4, <1>9 DEF new

LEMMA BetweenShrinks ==
  ASSUME NEW smp \in [0 .. N - 1 -> Block \cup {None}],
         NEW r \in 0 .. W - 1, NEW w \in 0 .. W - 1, r < w, w - r < N,
         \A n \in r .. w - 1 : smp[Slot(n)] # None
  PROVE  LET new == [smp EXCEPT ![Slot(r)] = None]
         IN  /\ \A n \in r + 1 .. w - 1 : new[Slot(n)] # None
             /\ Between(smp, r, w) # << >>
             /\ Between(smp, r, w)[1] = smp[Slot(r)]
             /\ Between(new, r + 1, w) = Tail(Between(smp, r, w))
<1> DEFINE new == [smp EXCEPT ![Slot(r)] = None]
<1>0. r + 1 \in 0 .. W - 1 /\ r \in Nat /\ w - r >= 1 /\ r + 1 <= w
  BY HalfFits
<1>1. new \in [0 .. N - 1 -> Block \cup {None}]
  OBVIOUS
<1>2. ASSUME NEW n \in r + 1 .. w - 1
      PROVE  new[Slot(n)] = smp[Slot(n)]
  <2>1. n \in Nat /\ r < n /\ n < r + N
    BY <1>0, AudioAssumption DEF AudioAssumption
  <2>2. Slot(n) # Slot(r) /\ Slot(n) \in 0 .. N - 1
    BY <1>0, <2>1, SlotsDiffer, SlotInRing
  <2> QED BY <2>2
<1>3. \A n \in r + 1 .. w - 1 : new[Slot(n)] # None
  BY <1>0, <1>2
<1> HIDE DEF new
<1>4. /\ Between(smp, r, w) \in Seq(Block) /\ Len(Between(smp, r, w)) = w - r
      /\ Between(new, r + 1, w) \in Seq(Block) /\ Len(Between(new, r + 1, w)) = w - (r + 1)
  <2>1. Between(smp, r, w) \in Seq(Block) /\ Len(Between(smp, r, w)) = w - r
    <3>1. r <= w
      BY <1>0
    <3> QED BY <3>1, BetweenIsASeq
  <2> DEFINE q == r + 1
  <2>2. q \in 0 .. W - 1 /\ q <= w /\ \A n \in q .. w - 1 : new[Slot(n)] # None
    BY <1>0, <1>3
  <2> HIDE DEF q
  <2>3. Between(new, q, w) \in Seq(Block) /\ Len(Between(new, q, w)) = w - q
    BY <1>1, <2>2, BetweenIsASeq
  <2> QED BY <2>1, <2>3 DEF q
<1>5. Between(smp, r, w) # << >>
  BY <1>0, <1>4, EmptySeq
<1>6. /\ Tail(Between(smp, r, w)) \in Seq(Block)
      /\ Len(Tail(Between(smp, r, w))) = w - r - 1
      /\ \A i \in 1 .. w - r - 1 : Tail(Between(smp, r, w))[i] = Between(smp, r, w)[i + 1]
  BY <1>4, <1>5, HeadTailProperties
<1>7. ASSUME NEW i \in 1 .. w - r - 1
      PROVE  Between(new, r + 1, w)[i] = Tail(Between(smp, r, w))[i]
  <2>1. /\ i \in 1 .. w - (r + 1) /\ i + 1 \in 1 .. w - r
        /\ r + 1 + i - 1 = r + i /\ r + (i + 1) - 1 = r + i /\ r + i \in r + 1 .. w - 1
    BY <1>0
  <2>2. Between(new, r + 1, w)[i] = new[Slot(r + i)]
    BY <2>1 DEF Between
  <2>3. Between(smp, r, w)[i + 1] = smp[Slot(r + i)]
    BY <2>1 DEF Between
  <2> QED BY <1>2, <1>6, <2>1, <2>2, <2>3
<1>8. Between(new, r + 1, w) = Tail(Between(smp, r, w))
  <2>1. Len(Between(new, r + 1, w)) = w - r - 1
    BY <1>0, <1>4
  <2> QED BY <1>4, <1>6, <1>7, <2>1, SeqEqual
<1>9. Between(smp, r, w)[1] = smp[Slot(r)]
  <2>1. 1 \in 1 .. w - r /\ r + 1 - 1 = r
    BY <1>0
  <2> QED BY <2>1 DEF Between
<1> QED BY <1>3, <1>5, <1>8, <1>9 DEF new
-----------------------------------------------------------------------------
\* Before the wrap, Buffered is the stretch of the ring between the offsets.
LEMMA Stretch ==
  ASSUME RInv, ~wrapped
  PROVE  /\ rOffset <= wOffset /\ Pending = wOffset - rOffset /\ wOffset - rOffset < N
         /\ Buffered = Between(samples, rOffset, wOffset)
         /\ Buffered \in Seq(Block) /\ Len(Buffered) = Pending
<1>1. /\ samples \in [0 .. N - 1 -> Block \cup {None}]
      /\ rOffset \in 0 .. W - 1 /\ wOffset \in 0 .. W - 1
      /\ Pending <= Half
      /\ \A n \in rOffset .. wOffset - 1 : samples[Slot(n)] # None
  BY DEF RInv, IInv, TypeOK, OffsetsAgree, Half, Unwrapped
<1>2. rOffset <= wOffset
  BY <1>1 DEF RInv, IInv, OffsetsAgree, Unwrapped
<1>3. Pending = wOffset - rOffset
  BY <1>1, <1>2, Difference DEF Pending
<1>4. wOffset - rOffset < N
  BY <1>1, <1>3, AudioAssumption DEF AudioAssumption, Half
<1>5. /\ Between(samples, rOffset, wOffset) \in Seq(Block)
      /\ Len(Between(samples, rOffset, wOffset)) = wOffset - rOffset
      /\ Buffered = Between(samples, rOffset, wOffset)
  BY <1>1, <1>2, BetweenIsASeq DEF Buffered, Pending
<1> QED BY <1>2, <1>3, <1>4, <1>5

\* Stretch, of the state after a step.
LEMMA NextStretch ==
  ASSUME samples' \in [0 .. N - 1 -> Block \cup {None}],
         rOffset' \in 0 .. W - 1, wOffset' \in 0 .. W - 1, rOffset' <= wOffset',
         \A n \in rOffset' .. wOffset' - 1 : samples'[Slot(n)] # None
  PROVE  /\ Buffered' = Between(samples', rOffset', wOffset')
         /\ Buffered' \in Seq(Block)
<1> DEFINE smp == samples'  r == rOffset'  w == wOffset'
<1>1. /\ smp \in [0 .. N - 1 -> Block \cup {None}] /\ r \in 0 .. W - 1 /\ w \in 0 .. W - 1
      /\ r <= w /\ \A n \in r .. w - 1 : smp[Slot(n)] # None
  OBVIOUS
<1>2. Buffered' = [i \in 1 .. Wrap(w - r) |-> smp[Slot(Wrap(r + i - 1))]]
  BY DEF Buffered, Pending
<1> HIDE DEF smp, r, w
<1>3. Between(smp, r, w) \in Seq(Block) /\ Buffered' = Between(smp, r, w)
  BY <1>1, <1>2, BetweenIsASeq
<1> QED BY <1>3 DEF smp, r, w

LEMMA InitRInv == Init => RInv
<1>1. Init => HandedOver
  BY DEF Init, HandedOver
<1>2. Init => Unwrapped
  BY DEF Init, Unwrapped
<1> QED BY <1>1, <1>2, InitIInv DEF RInv

\* Blocks are in the hands of one filler.
LEMMA OneHand ==
  ASSUME RInv, NEW f \in Fillers, filler[f] # "none"
  PROVE  \A g \in Fillers : newSample[g] # None => g = f /\ filler[f] = "store"
BY DEF RInv, IInv, Alone, Running, HandedOver

\* What is held when one filler holds something, or none does.
LEMMA HeldBy ==
  /\ (\A g \in Fillers : newSample[g] = None) => Held = << >>
  /\ \A f \in Fillers :
       newSample[f] # None /\ (\A g \in Fillers : newSample[g] # None => g = f)
         => Held = <<newSample[f]>>
<1>1. ASSUME NEW f \in Fillers, newSample[f] # None,
             \A g \in Fillers : newSample[g] # None => g = f
      PROVE  Held = <<newSample[f]>>
  <2>1. (CHOOSE g \in Fillers : newSample[g] # None) = f
    BY <1>1
  <2> QED BY <1>1, <2>1 DEF Held
<1> QED BY <1>1 DEF Held

-----------------------------------------------------------------------------
(***************************************************************************)
(* Every step of the ring is a step of the queue, or none.                 *)
(***************************************************************************)
QueueStep == Queue!Next \/ wrapped' \/ UNCHANGED <<Buffered \o Held, position, last>>

LEMMA Untouched ==
  ASSUME RInv, UNCHANGED <<ring, newSample, wrapped>>
  PROVE  Unwrapped' /\ UNCHANGED <<Buffered, Held>>
BY DEF RInv, Unwrapped, ring, Buffered, Held, Pending

LEMMA FillerMoves ==
  ASSUME RInv, NEW f \in Fillers, Test(f) \/ Finish(f)
  PROVE  HandedOver' /\ Unwrapped' /\ QueueStep
<1>1. UNCHANGED <<ring, newSample, wrapped, position, last>>
  BY DEF Test, Finish, history
<1>2. HandedOver'
  BY DEF RInv, IInv, TypeOK, HandedOver, Test, Finish, FillerAt
<1> QED BY <1>1, <1>2, Untouched DEF QueueStep

LEMMA ReaderMoves ==
  ASSUME RInv, UNCHANGED <<ring, newSample, wrapped, position, last, filler>>
  PROVE  HandedOver' /\ Unwrapped' /\ QueueStep
<1>1. HandedOver'
  BY DEF RInv, HandedOver
<1> QED BY <1>1, Untouched DEF QueueStep

\* readFrames: is Read of the queue.
LEMMA ReadFramesQueues ==
  ASSUME RInv, NEW f \in Fillers, ReadFrames(f)
  PROVE  HandedOver' /\ Unwrapped' /\ QueueStep
<1>1. UNCHANGED <<ring, wrapped, last>> /\ filler[f] = "readFrames"
  BY DEF ReadFrames, history
<1>2. HandedOver'
  BY DEF RInv, IInv, TypeOK, HandedOver, ReadFrames, FillerAt
<1>3. Unwrapped'
  BY <1>1 DEF RInv, Unwrapped, ring
<1>4. Buffered' = Buffered
  BY <1>1 DEF ring, Buffered, Pending
<1>5. (\A g \in Fillers : newSample[g] = None) /\ Held = << >>
  BY <1>1, OneHand, HeldBy
<1>6. CASE position >= Blocks
  <2>1. UNCHANGED <<newSample, position>>
    BY <1>6, AudioAssumption DEF ReadFrames, RInv, IInv, TypeOK, AudioAssumption
  <2> QED BY <1>1, <1>2, <1>3, <1>4, <2>1 DEF QueueStep, Held
<1>7. CASE position < Blocks /\ ~wrapped
  <2>1. newSample' = [newSample EXCEPT ![f] = position] /\ position' = position + 1
    BY <1>7 DEF ReadFrames
  <2>2. position \in Block /\ position # None
    BY <1>7, AudioAssumption DEF RInv, IInv, TypeOK, Block, None, AudioAssumption
  <2>3. newSample'[f] = position /\ \A g \in Fillers : newSample'[g] # None => g = f
    BY <1>5, <2>1 DEF RInv, IInv, TypeOK
  <2>4. (CHOOSE g \in Fillers : newSample'[g] # None) = f
    BY <2>2, <2>3
  <2>5. Held' = <<position>>
    BY <2>2, <2>3, <2>4 DEF Held
  <2>6. Buffered \in Seq(Block) /\ Len(Buffered) < Half
    BY <1>1, <1>7, Stretch DEF RInv, IInv, RoomFound
  <2>7. Buffered \o Held = Buffered /\ Buffered \o <<position>> = Append(Buffered, position)
    BY <1>5, <2>2, <2>6, ConcatEmptySeq, AppendIsConcat
  <2>8. Queue!Read
    BY <1>1, <1>4, <1>7, <2>1, <2>5, <2>6, <2>7 DEF Queue!Read, Half
  <2> QED BY <1>2, <1>3, <2>8 DEF QueueStep, Queue!Next
<1>8. CASE wrapped
  BY <1>1, <1>2, <1>3, <1>8 DEF QueueStep
<1> QED BY <1>6, <1>7, <1>8, AudioAssumption DEF RInv, IInv, TypeOK, AudioAssumption

\* Storing moves the block from the hands of the filler into the ring.
LEMMA StoreQueues ==
  ASSUME RInv, NEW f \in Fillers, Store(f)
  PROVE  HandedOver' /\ Unwrapped' /\ QueueStep
<1>1. /\ UNCHANGED <<rOffset, position, last>>
      /\ filler[f] = "store" /\ newSample' = [newSample EXCEPT ![f] = None]
      /\ samples' = [samples EXCEPT ![Slot(wOffset)] = newSample[f]]
  BY DEF Store
<1>2. /\ samples \in [0 .. N - 1 -> Block \cup {None}]
      /\ newSample \in [Fillers -> Block \cup {None}]
      /\ rOffset \in 0 .. W - 1 /\ wOffset \in 0 .. W - 1
  BY DEF RInv, IInv, TypeOK
<1>3. HandedOver'
  BY <1>1 DEF RInv, IInv, TypeOK, HandedOver, Store, FillerAt
<1>4. (\A g \in Fillers : newSample'[g] = None) /\ Held' = << >>
  <2>1. \A g \in Fillers : newSample'[g] = None
    BY <1>1, <1>2, OneHand
  <2> QED BY <2>1 DEF Held
<1>5. CASE wrapped'
  BY <1>3, <1>5 DEF QueueStep, Unwrapped
<1>6. CASE ~wrapped' /\ newSample[f] = None
  <2>1. UNCHANGED <<wOffset, overflow, wrapped>>
    BY <1>6 DEF Store
  <2>2. ~wrapped
    BY <1>6, <2>1
  <2>3. Held = << >>
    BY <1>1, <1>6, OneHand, HeldBy
  <2>4. ASSUME NEW n \in rOffset .. wOffset - 1
        PROVE  samples'[Slot(n)] = samples[Slot(n)]
    <3>1. n \in Nat /\ wOffset \in Nat /\ n < wOffset /\ wOffset < n + N
      BY <1>2, <2>2, Stretch, AudioAssumption DEF AudioAssumption
    <3>2. Slot(n) # Slot(wOffset) /\ Slot(n) \in 0 .. N - 1
      BY <3>1, SlotsDiffer, SlotInRing
    <3> QED BY <1>1, <1>2, <3>2
  <2>5. Unwrapped'
    BY <1>1, <2>1, <2>2, <2>4 DEF RInv, Unwrapped
  <2>6. RInv'
    BY <1>3, <2>5, StoreKeeps DEF RInv
  <2>7. Buffered' = Between(samples', rOffset, wOffset)
    <3>1. \A n \in rOffset .. wOffset - 1 : samples'[Slot(n)] # None
      BY <2>2, <2>4 DEF RInv, Unwrapped
    <3>2. samples' \in [0 .. N - 1 -> Block \cup {None}] /\ rOffset <= wOffset
      BY <1>1, <1>2, <2>2, Stretch
    <3> QED BY <1>1, <1>2, <2>1, <3>1, <3>2, NextStretch
  <2>8. Between(samples', rOffset, wOffset) = Between(samples, rOffset, wOffset)
    <3>1. ASSUME NEW i \in 1 .. wOffset - rOffset
          PROVE  samples'[Slot(rOffset + i - 1)] = samples[Slot(rOffset + i - 1)]
      <4>1. rOffset + i - 1 \in rOffset .. wOffset - 1
        BY <1>2
      <4> QED BY <2>4, <4>1
    <3> QED BY <3>1 DEF Between
  <2>9. Buffered' = Buffered
    BY <2>2, <2>7, <2>8, Stretch
  <2> QED BY <1>1, <1>3, <1>4, <2>3, <2>5, <2>9 DEF QueueStep
<1>7. CASE ~wrapped' /\ newSample[f] # None
  <2>1. /\ wOffset' = Wrap(wOffset + 1) /\ wOffset' # 0 /\ ~wrapped
        /\ overflow' = (overflow \/ wOffset' = 0)
    BY <1>7 DEF Store
  <2>2. wOffset' = wOffset + 1 /\ wOffset \in 0 .. W - 2 /\ wOffset' \in 0 .. W - 1
    BY <1>2, <2>1, Increment, HalfFits
  <2>3. ~overflow'
    BY <2>1 DEF RInv, Unwrapped
  <2>4. newSample[f] \in Block /\ Held = <<newSample[f]>>
    BY <1>1, <1>2, <1>7, OneHand, HeldBy
  <2>5. /\ rOffset <= wOffset /\ wOffset - rOffset < N
        /\ \A n \in rOffset .. wOffset - 1 : samples[Slot(n)] # None
        /\ Buffered = Between(samples, rOffset, wOffset) /\ Buffered \in Seq(Block)
    BY <2>1, Stretch DEF RInv, Unwrapped
  <2>6. /\ \A n \in rOffset .. wOffset : samples'[Slot(n)] # None
        /\ Between(samples', rOffset, wOffset + 1) = Append(Buffered, newSample[f])
    <3> DEFINE b == newSample[f]
    <3>1. /\ samples \in [0 .. N - 1 -> Block \cup {None}] /\ b \in Block
          /\ rOffset \in 0 .. W - 1 /\ wOffset \in 0 .. W - 2
          /\ rOffset <= wOffset /\ wOffset - rOffset < N
          /\ \A n \in rOffset .. wOffset - 1 : samples[Slot(n)] # None
      BY <1>2, <2>2, <2>4, <2>5
    <3>2. samples' = [samples EXCEPT ![Slot(wOffset)] = b]
      BY <1>1
    <3> HIDE DEF b
    <3>3. /\ \A n \in rOffset .. wOffset : [samples EXCEPT ![Slot(wOffset)] = b][Slot(n)] # None
          /\ Between([samples EXCEPT ![Slot(wOffset)] = b], rOffset, wOffset + 1)
               = Append(Between(samples, rOffset, wOffset), b)
      BY <3>1, BetweenGrows
    <3>4. /\ \A n \in rOffset .. wOffset : samples'[Slot(n)] # None
          /\ Between(samples', rOffset, wOffset + 1) = Append(Between(samples, rOffset, wOffset), b)
      BY <3>2, <3>3
    <3> QED BY <2>5, <3>4 DEF b
  <2>7. wOffset' - 1 = wOffset
    BY <2>2
  <2>8. Unwrapped'
    BY <1>1, <2>3, <2>6, <2>7 DEF Unwrapped
  <2>9. Buffered' = Between(samples', rOffset, wOffset')
    <3>1. samples' \in [0 .. N - 1 -> Block \cup {None}]
      BY <1>1, <1>2
    <3>2. \A n \in rOffset .. wOffset' - 1 : samples'[Slot(n)] # None
      BY <2>6, <2>7
    <3>3. rOffset <= wOffset'
      BY <1>2, <2>2, <2>5
    <3> QED BY <1>1, <1>2, <2>2, <3>1, <3>2, <3>3, NextStretch
  <2>10. Buffered' = Append(Buffered, newSample[f])
    BY <2>2, <2>6, <2>9
  <2>11. Buffered' \o Held' = Buffered \o Held
    <3>1. Buffered' \in Seq(Block)
      BY <2>4, <2>5, <2>10, AppendProperties
    <3> QED BY <1>4, <2>4, <2>5, <2>10, <3>1, ConcatEmptySeq, AppendIsConcat
  <2> QED BY <1>1, <1>3, <2>8, <2>11 DEF QueueStep
<1> QED BY <1>5, <1>6, <1>7

\* Taking from the front of a sequence that another one follows.
LEMMA FrontOfConcat ==
  ASSUME NEW S, NEW s \in Seq(S), NEW t \in Seq(S), s # << >>
  PROVE  /\ s \o t # << >>
         /\ Head(s \o t) = s[1]
         /\ Tail(s \o t) = Tail(s) \o t
<1>1. Len(s) \in Nat /\ Len(s) > 0 /\ Len(t) \in Nat
  BY LenProperties, EmptySeq
<1>2. /\ s \o t \in Seq(S) /\ Len(s \o t) = Len(s) + Len(t)
      /\ \A i \in 1 .. Len(s) + Len(t) :
           (s \o t)[i] = IF i <= Len(s) THEN s[i] ELSE t[i - Len(s)]
  BY ConcatProperties
<1>3. s \o t # << >>
  BY <1>1, <1>2, EmptySeq
<1>4. Head(s \o t) = s[1]
  BY <1>1, <1>2, <1>3
<1>5. /\ Tail(s) \in Seq(S) /\ Len(Tail(s)) = Len(s) - 1
      /\ \A i \in 1 .. Len(s) - 1 : Tail(s)[i] = s[i + 1]
  BY <1>1, HeadTailProperties
<1>6. /\ Tail(s \o t) \in Seq(S) /\ Len(Tail(s \o t)) = Len(s) + Len(t) - 1
      /\ \A i \in 1 .. Len(s) + Len(t) - 1 : Tail(s \o t)[i] = (s \o t)[i + 1]
  BY <1>1, <1>2, <1>3, HeadTailProperties
<1>7. /\ Tail(s) \o t \in Seq(S) /\ Len(Tail(s) \o t) = Len(s) - 1 + Len(t)
      /\ \A i \in 1 .. Len(s) - 1 + Len(t) :
           (Tail(s) \o t)[i] = IF i <= Len(s) - 1 THEN Tail(s)[i] ELSE t[i - (Len(s) - 1)]
  BY <1>1, <1>5, ConcatProperties
<1>8. ASSUME NEW i \in 1 .. Len(s) + Len(t) - 1
      PROVE  Tail(s \o t)[i] = (Tail(s) \o t)[i]
  <2>1. Tail(s \o t)[i] = (s \o t)[i + 1] /\ i + 1 \in 1 .. Len(s) + Len(t)
    BY <1>1, <1>6
  <2>2. CASE i <= Len(s) - 1
    <3>1. (s \o t)[i + 1] = s[i + 1]
      BY <1>1, <1>2, <2>1, <2>2
    <3>2. (Tail(s) \o t)[i] = Tail(s)[i] /\ Tail(s)[i] = s[i + 1]
      BY <1>1, <1>5, <1>7, <2>2
    <3> QED BY <2>1, <3>1, <3>2
  <2>3. CASE i > Len(s) - 1
    <3>1. (s \o t)[i + 1] = t[i + 1 - Len(s)]
      BY <1>1, <1>2, <2>1, <2>3
    <3>2. (Tail(s) \o t)[i] = t[i - (Len(s) - 1)]
      BY <1>1, <1>7, <2>3
    <3>3. i - (Len(s) - 1) = i + 1 - Len(s)
      BY <1>1
    <3> QED BY <2>1, <3>1, <3>2, <3>3
  <2> QED BY <1>1, <2>2, <2>3
<1>9. Tail(s \o t) = Tail(s) \o t
  <2>1. Len(Tail(s \o t)) = Len(Tail(s) \o t)
    BY <1>1, <1>6, <1>7
  <2>2. \A i \in 1 .. Len(Tail(s \o t)) : Tail(s \o t)[i] = (Tail(s) \o t)[i]
    BY <1>6, <1>8
  <2> QED BY <1>6, <1>7, <2>1, <2>2, SeqEqual
<1> QED BY <1>3, <1>4, <1>9

\* readSample: is Take of the queue, or finds it empty but for the block that
\* is in the hands of the filler.
LEMMA TakeQueues ==
  ASSUME RInv, ReadSample
  PROVE  HandedOver' /\ Unwrapped' /\ QueueStep
<1>1. TakeSample /\ StartFilling /\ UNCHANGED <<wOffset, position, newSample, wrapped>>
  BY DEF ReadSample
<1>2. /\ samples \in [0 .. N - 1 -> Block \cup {None}]
      /\ newSample \in [Fillers -> Block \cup {None}]
      /\ rOffset \in 0 .. W - 1 /\ wOffset \in 0 .. W - 1
  BY DEF RInv, IInv, TypeOK
<1>3. HandedOver'
  BY <1>1 DEF RInv, IInv, TypeOK, HandedOver, StartFilling, Idle, FillerAt
<1>4. Held' = Held
  BY <1>1 DEF Held
<1>5. CASE wrapped
  BY <1>1, <1>3, <1>5 DEF QueueStep, Unwrapped
<1>6. CASE ~wrapped /\ ~Available
  <2>1. UNCHANGED <<ring, newSample, wrapped, last>>
    BY <1>1, <1>6 DEF TakeSample, ring
  <2> QED BY <1>1, <1>3, <1>4, <2>1, Untouched DEF QueueStep
<1>7. CASE ~wrapped /\ Available
  <2>1. /\ samples' = [samples EXCEPT ![Slot(rOffset)] = None]
        /\ rOffset' = Wrap(rOffset + 1)
        /\ overflow' = (overflow /\ rOffset' # 0)
        /\ last' = IF samples[Slot(rOffset)] = None THEN last ELSE samples[Slot(rOffset)]
    BY <1>1, <1>7 DEF TakeSample, Sample
  <2>2. /\ ~overflow /\ wOffset - rOffset < N
        /\ \A n \in rOffset .. wOffset - 1 : samples[Slot(n)] # None
        /\ Buffered = Between(samples, rOffset, wOffset) /\ Buffered \in Seq(Block)
    BY <1>7, Stretch DEF RInv, Unwrapped
  <2>3. rOffset < wOffset
    BY <1>7, <2>2 DEF Available
  <2>4. rOffset' = rOffset + 1 /\ rOffset' \in 0 .. W - 1 /\ rOffset' <= wOffset
    BY <1>2, <2>1, <2>3, Increment, HalfFits
  <2>5. ~overflow'
    BY <2>1, <2>2
  <2>6. /\ \A n \in rOffset + 1 .. wOffset - 1 : samples'[Slot(n)] # None
        /\ Buffered # << >>
        /\ Buffered[1] = samples[Slot(rOffset)]
        /\ Between(samples', rOffset + 1, wOffset) = Tail(Buffered)
    <3>1. /\ samples \in [0 .. N - 1 -> Block \cup {None}]
          /\ rOffset \in 0 .. W - 1 /\ wOffset \in 0 .. W - 1
          /\ rOffset < wOffset /\ wOffset - rOffset < N
          /\ \A n \in rOffset .. wOffset - 1 : samples[Slot(n)] # None
      BY <1>2, <2>2, <2>3
    <3>2. /\ \A n \in rOffset + 1 .. wOffset - 1 :
               [samples EXCEPT ![Slot(rOffset)] = None][Slot(n)] # None
          /\ Between(samples, rOffset, wOffset) # << >>
          /\ Between(samples, rOffset, wOffset)[1] = samples[Slot(rOffset)]
          /\ Between([samples EXCEPT ![Slot(rOffset)] = None], rOffset + 1, wOffset)
               = Tail(Between(samples, rOffset, wOffset))
      BY <3>1, BetweenShrinks, ZenonT(60)
    <3>3. samples' = [samples EXCEPT ![Slot(rOffset)] = None]
      BY <2>1
    <3> QED BY <2>2, <3>2, <3>3
  <2>7. Unwrapped'
    BY <1>1, <2>4, <2>5, <2>6 DEF Unwrapped
  <2>8. Buffered' = Tail(Buffered)
    <3>1. samples' \in [0 .. N - 1 -> Block \cup {None}]
      BY <1>2, <2>1
    <3>2. \A n \in rOffset' .. wOffset' - 1 : samples'[Slot(n)] # None
      BY <1>1, <2>4, <2>6
    <3>3. Buffered' = Between(samples', rOffset', wOffset')
      BY <1>1, <1>2, <2>4, <3>1, <3>2, NextStretch
    <3> QED BY <1>1, <2>4, <2>6, <3>3
  <2>9. Held \in Seq(Block)
    BY <1>2 DEF Held
  <2>10. /\ Buffered \o Held # << >> /\ Head(Buffered \o Held) = samples[Slot(rOffset)]
         /\ Tail(Buffered \o Held) = Buffered' \o Held'
    BY <1>4, <2>2, <2>6, <2>8, <2>9, FrontOfConcat
  <2>11. samples[Slot(rOffset)] # None
    BY <1>2, <2>2, <2>3
  <2>12. Queue!Take
    BY <1>1, <2>1, <2>10, <2>11 DEF Queue!Take
  <2> QED BY <1>3, <2>7, <2>12 DEF QueueStep, Queue!Next
<1> QED BY <1>5, <1>6, <1>7

\* seekToOffset: is Rewind of the queue.
LEMMA RewindQueues ==
  ASSUME RInv, NEW t \in Readers, Rewind(t)
  PROVE  HandedOver' /\ Unwrapped' /\ QueueStep
<1>1. UNCHANGED <<ring, newSample, wrapped, filler, last>> /\ position' = 0
  BY DEF Rewind, history
<1>2. HandedOver'
  BY <1>1 DEF RInv, HandedOver
<1>3. Unwrapped' /\ UNCHANGED <<Buffered, Held>>
  BY <1>1, Untouched
<1> QED BY <1>1, <1>2, <1>3 DEF QueueStep, Queue!Next, Queue!Rewind

LEMMA NextQueues ==
  ASSUME RInv, [Next]_vars
  PROVE  RInv' /\ QueueStep
<1>1. IInv'
  BY NextIInv DEF RInv
<1>2. ASSUME NEW f \in Fillers, Fill(f)
      PROVE  HandedOver' /\ Unwrapped' /\ QueueStep
  BY <1>2, FillerMoves, ReadFramesQueues, StoreQueues DEF Fill
<1>3. ASSUME NEW t \in Readers, Audio(t)
      PROVE  HandedOver' /\ Unwrapped' /\ QueueStep
  <2>1. CASE Pull(t) \/ ReadAgain(t)
    BY <2>1, TakeQueues DEF Pull, ReadAgain
  <2>2. CASE FindEnd(t) \/ Deactivate(t)
    <3>1. UNCHANGED <<ring, newSample, wrapped, position, last, filler>>
      BY <2>2 DEF FindEnd, Deactivate, history
    <3> QED BY <3>1, ReaderMoves
  <2>3. CASE Rewind(t)
    BY <2>3, RewindQueues
  <2> QED BY <1>3, <2>1, <2>2, <2>3 DEF Audio
<1>4. ASSUME NEW value \in BOOLEAN, DoRepeat(value)
      PROVE  HandedOver' /\ Unwrapped' /\ QueueStep
  <2>1. UNCHANGED <<ring, newSample, wrapped, position, last, filler>>
    BY <1>4 DEF DoRepeat, history
  <2> QED BY <2>1, ReaderMoves
<1>5. CASE UNCHANGED vars
  <2>1. UNCHANGED <<ring, newSample, wrapped, position, last, filler>>
    BY <1>5 DEF vars, history
  <2> QED BY <1>1, <2>1, ReaderMoves DEF RInv
<1> QED BY <1>1, <1>2, <1>3, <1>4, <1>5 DEF Next, RInv

\* Until wOffset wraps around, the ring that the readers and the filler share
\* implements a bounded queue: nothing is lost, repeated, reordered or
\* overwritten between readFrames: and readSample, whatever they do at once.
THEOREM RingIsQueue == Spec => QueueOfSamples
<1>1. Init => Queue!Init
  <2> SUFFICES ASSUME Init PROVE Queue!Init
    OBVIOUS
  <2>1. Pending = 0
    BY HalfFits DEF Init, Pending, Wrap
  <2>2. Buffered = << >>
    BY <2>1 DEF Buffered
  <2>3. Held = << >>
    BY DEF Init, Held
  <2>4. Buffered \o Held = << >>
    BY <2>2, <2>3
  <2> QED BY <2>4 DEF Init, Queue!Init
<1>2. Init => RInv
  BY InitRInv
<1>3. RInv /\ [Next]_vars => RInv' /\ [Queue!Next \/ wrapped']_(Queue!vars)
  BY NextQueues DEF QueueStep, Queue!vars
<1> QED BY <1>1, <1>2, <1>3, PTL DEF Spec, QueueOfSamples

-----------------------------------------------------------------------------
(***************************************************************************)
(* The order in which the blocks are handed out, until wOffset wraps       *)
(* around.                                                                 *)
(***************************************************************************)
\* Block b may come after block a (-1: the first of all), where over says that two readers have
\* found the end at once.
Follows(a, b, over) == b = a + 1 \/ (b = 0 /\ (a >= Blocks - EndZone - 1 \/ over))

\* The block of offset n; that of the offset before rOffset is the one handed out last.
BlockAt(n) == IF n = rOffset - 1 THEN last ELSE samples[Slot(n)]
Newest     == BlockAt(wOffset - 1)

\* Each block on its way follows the one before it: in the ring, in the hands of the filler, and
\* the next one of the file.
Linked ==
  ~wrapped =>
    /\ \A n \in rOffset .. wOffset - 1 : Follows(BlockAt(n - 1), BlockAt(n), overlapped)
    /\ \A f \in Fillers : newSample[f] # None =>
         Follows(Newest, newSample[f], overlapped) /\ Follows(newSample[f], position, overlapped)
    /\ (\A f \in Fillers : newSample[f] = None) => Follows(Newest, position, overlapped)

\* A reader that goes to rewind the file is alone in that, and the file stands at its end.
RewindsAtEnd ==
  ~overlapped => \A t \in Readers : reader[t] = "rewind" =>
                   NearEnd /\ \A u \in Readers : reader[u] = "rewind" => u = t

LInv == RInv /\ Linked /\ RewindsAtEnd

LEMMA InitLInv == Init => LInv
<1> SUFFICES ASSUME Init PROVE LInv
  OBVIOUS
<1>1. Newest = -1 /\ position = 0 /\ last = -1 /\ rOffset .. wOffset - 1 = {}
  BY DEF Init, Newest, BlockAt
<1>2. Linked
  BY <1>1 DEF Init, Linked, Follows
<1>3. RewindsAtEnd
  BY DEF Init, RewindsAtEnd
<1> QED BY <1>2, <1>3, InitRInv DEF LInv

LEMMA FollowsStays ==
  ASSUME NEW a, NEW b, NEW o \in BOOLEAN, NEW p \in BOOLEAN, o => p, Follows(a, b, o)
  PROVE  Follows(a, b, p)
BY DEF Follows

\* Neither the ring nor the file is touched.
LEMMA OrderStands ==
  ASSUME LInv, UNCHANGED <<ring, newSample, wrapped, position, last>>,
         overlapped' \in BOOLEAN, overlapped => overlapped'
  PROVE  Linked'
<1>0. overlapped \in BOOLEAN
  BY DEF LInv, RInv, IInv, TypeOK
<1>1. \A n : BlockAt(n)' = BlockAt(n)
  BY DEF BlockAt, ring
<1>2. Newest' = Newest
  BY DEF Newest, BlockAt, ring
<1> QED BY <1>0, <1>1, <1>2, FollowsStays DEF LInv, Linked, ring

\* Nobody goes to rewind the file.
LEMMA NobodyRewinds ==
  ASSUME LInv, position' \in Int, position' >= position, overlapped => overlapped',
         \A u \in Readers : reader'[u] = "rewind" => reader[u] = "rewind"
  PROVE  RewindsAtEnd'
<1>1. NearEnd => NearEnd'
  BY AudioAssumption DEF NearEnd, LInv, RInv, IInv, TypeOK, AudioAssumption
<1> QED BY <1>1 DEF LInv, RewindsAtEnd

LEMMA ReadFramesOrders ==
  ASSUME LInv, NEW f \in Fillers, ReadFrames(f)
  PROVE  Linked' /\ RewindsAtEnd'
<1>0. /\ newSample \in [Fillers -> Block \cup {None}] /\ position \in 0 .. Blocks /\ overlapped \in BOOLEAN
      /\ UNCHANGED <<ring, wrapped, last, overlapped, reader>> /\ filler[f] = "readFrames"
  BY DEF LInv, RInv, IInv, TypeOK, ReadFrames, history
<1>1. \A g \in Fillers : newSample[g] = None
  BY <1>0, OneHand DEF LInv
<1>2. \A n : BlockAt(n)' = BlockAt(n)
  BY <1>0 DEF BlockAt, ring
<1>3. Newest' = Newest
  BY <1>0 DEF Newest, BlockAt, ring
<1>4. Blocks \in Nat
  BY AudioAssumption DEF AudioAssumption
<1>5. Linked'
  <2>1. CASE position >= Blocks
    <3>1. UNCHANGED <<newSample, position>>
      BY <1>0, <1>4, <2>1 DEF ReadFrames
    <3> QED BY <1>0, <3>1, OrderStands
  <2>2. CASE position < Blocks
    <3>1. newSample' = [newSample EXCEPT ![f] = position] /\ position' = position + 1
      BY <2>2 DEF ReadFrames
    <3>2. newSample'[f] = position /\ \A g \in Fillers \ {f} : newSample'[g] = None
      BY <1>0, <1>1, <3>1
    <3>3. position # None
      BY <1>0, <1>4 DEF None
    <3>4. Follows(position, position', overlapped)
      BY <3>1 DEF Follows
    <3>5. ~wrapped => Follows(Newest, position, overlapped)
      BY <1>1 DEF LInv, Linked
    <3> QED BY <1>0, <1>2, <1>3, <3>2, <3>3, <3>4, <3>5 DEF LInv, Linked, ring
  <2> QED BY <1>0, <1>4, <2>1, <2>2
<1>6. position' \in Int /\ position' >= position
  BY <1>0 DEF ReadFrames
<1> QED BY <1>0, <1>5, <1>6, NobodyRewinds

LEMMA StoreOrders ==
  ASSUME LInv, NEW f \in Fillers, Store(f)
  PROVE  Linked' /\ RewindsAtEnd'
<1>1. /\ UNCHANGED <<rOffset, position, last, overlapped, reader>>
      /\ filler[f] = "store" /\ newSample' = [newSample EXCEPT ![f] = None]
      /\ samples' = [samples EXCEPT ![Slot(wOffset)] = newSample[f]]
  BY DEF Store
<1>2. /\ samples \in [0 .. N - 1 -> Block \cup {None}]
      /\ newSample \in [Fillers -> Block \cup {None}]
      /\ rOffset \in 0 .. W - 1 /\ wOffset \in 0 .. W - 1 /\ position \in 0 .. Blocks
  BY DEF LInv, RInv, IInv, TypeOK
<1>3. \A g \in Fillers : newSample'[g] = None /\ (g # f => newSample[g] = None)
  BY <1>1, <1>2, OneHand DEF LInv
<1>4. RewindsAtEnd'
  <2>1. position' \in Int /\ position' >= position
    BY <1>1, <1>2
  <2> QED BY <1>1, <2>1, NobodyRewinds
<1>5. CASE wrapped'
  BY <1>4, <1>5 DEF Linked
<1>6. CASE ~wrapped'
  <2>1. ~wrapped
    BY <1>6 DEF Store
  <2>2. rOffset <= wOffset /\ wOffset < rOffset + N /\ N \in Nat
    BY <1>2, <2>1, Stretch, AudioAssumption DEF LInv, AudioAssumption
  <2>3. ASSUME NEW n \in rOffset - 1 .. wOffset - 1
        PROVE  BlockAt(n)' = BlockAt(n)
    <3>1. CASE n = rOffset - 1
      BY <1>1, <3>1 DEF BlockAt
    <3>2. CASE n # rOffset - 1
      <4>1. n \in Nat /\ n < wOffset /\ wOffset < n + N /\ wOffset \in Nat
        BY <1>2, <2>2, <3>2
      <4>2. Slot(n) # Slot(wOffset) /\ Slot(n) \in 0 .. N - 1
        BY <4>1, SlotsDiffer, SlotInRing
      <4> QED BY <1>1, <1>2, <3>2, <4>2 DEF BlockAt
    <3> QED BY <3>1, <3>2
  <2>4. Linked
    BY DEF LInv
  <2>5. \A n \in rOffset .. wOffset - 1 : n - 1 \in rOffset - 1 .. wOffset - 1 /\ n \in rOffset - 1 .. wOffset - 1
    BY <1>2
  <2>6. \A n \in rOffset .. wOffset - 1 : Follows(BlockAt(n - 1)', BlockAt(n)', overlapped)
    BY <2>1, <2>3, <2>4, <2>5 DEF Linked
  <2> PICK m : m = wOffset - 1
    OBVIOUS
  <2>7. m \in rOffset - 1 .. wOffset - 1 /\ m + 1 = wOffset /\ Newest = BlockAt(m)
    BY <1>2, <2>2 DEF Newest
  <2>8. CASE newSample[f] = None
    <3>1. UNCHANGED <<wOffset, overflow, wrapped>>
      BY <2>8 DEF Store
    <3>2. Newest' = BlockAt(m)'
      BY <3>1 DEF Newest, BlockAt
    <3>3. Newest' = Newest
      BY <2>3, <2>7, <3>2
    <3>4. Follows(Newest, position, overlapped)
      BY <1>3, <2>1, <2>4, <2>8 DEF Linked
    <3> QED BY <1>1, <1>3, <1>4, <2>6, <3>1, <3>3, <3>4 DEF Linked
  <2>9. CASE newSample[f] # None
    <3>1. wOffset' = Wrap(wOffset + 1) /\ wOffset' # 0
      BY <1>6, <2>9 DEF Store
    <3>2. wOffset' = wOffset + 1
      BY <1>2, <3>1, Increment
    <3>3. Follows(BlockAt(m), newSample[f], overlapped) /\ Follows(newSample[f], position, overlapped)
      BY <2>1, <2>4, <2>7, <2>9 DEF Linked
    <3> PICK w : w = wOffset
      OBVIOUS
    <3>4. BlockAt(w)' = newSample[f]
      <4>1. Slot(wOffset) \in 0 .. N - 1
        BY <1>2, SlotInRing
      <4>2. w # rOffset - 1
        BY <1>2, <2>2
      <4> QED BY <1>1, <1>2, <4>1, <4>2 DEF BlockAt
    <3>5. Newest' = BlockAt(w)'
      <4>1. wOffset' - 1 = w
        BY <1>2, <3>2
      <4> QED BY <4>1 DEF Newest, BlockAt
    <3>6. BlockAt(w - 1)' = BlockAt(m)
      <4>1. w - 1 = m
        OBVIOUS
      <4>2. BlockAt(m)' = BlockAt(m)
        BY <2>3, <2>7
      <4> QED BY <4>1, <4>2
    <3>7. \A n \in rOffset .. wOffset' - 1 : n \in rOffset .. wOffset - 1 \/ n = w
      BY <1>2, <3>2
    <3>8. \A n \in rOffset .. wOffset' - 1 : Follows(BlockAt(n - 1)', BlockAt(n)', overlapped)
      BY <2>6, <3>3, <3>4, <3>6, <3>7
    <3>9. Follows(Newest', position, overlapped)
      BY <3>3, <3>4, <3>5
    <3> QED BY <1>1, <1>3, <1>4, <3>8, <3>9 DEF Linked
  <2> QED BY <2>8, <2>9
<1> QED BY <1>5, <1>6

\* What is handed out follows what was handed out before.
LEMMA TakeOrders ==
  ASSUME LInv, ReadSample, overlapped' = overlapped
  PROVE  Linked' /\ (rOffset' # rOffset /\ ~wrapped => Follows(last, last', overlapped))
<1>1. TakeSample /\ UNCHANGED <<wOffset, position, newSample, wrapped>>
  BY DEF ReadSample
<1>2. /\ samples \in [0 .. N - 1 -> Block \cup {None}] /\ overlapped \in BOOLEAN
      /\ rOffset \in 0 .. W - 1 /\ wOffset \in 0 .. W - 1
  BY DEF LInv, RInv, IInv, TypeOK
<1>3. CASE wrapped
  BY <1>1, <1>3 DEF Linked
<1>4. CASE ~wrapped /\ ~Available
  <2>1. UNCHANGED <<ring, last, rOffset>>
    BY <1>1, <1>4 DEF TakeSample, ring
  <2> QED BY <1>1, <1>2, <2>1, OrderStands
<1>5. CASE ~wrapped /\ Available
  <2>1. /\ samples' = [samples EXCEPT ![Slot(rOffset)] = None]
        /\ rOffset' = Wrap(rOffset + 1)
        /\ last' = IF samples[Slot(rOffset)] = None THEN last ELSE samples[Slot(rOffset)]
    BY <1>1, <1>5 DEF TakeSample, Sample
  <2>2. /\ ~overflow /\ wOffset - rOffset < N /\ N \in Nat
        /\ \A n \in rOffset .. wOffset - 1 : samples[Slot(n)] # None
    BY <1>5, Stretch, AudioAssumption DEF LInv, RInv, Unwrapped, AudioAssumption
  <2>3. rOffset < wOffset
    BY <1>5, <2>2 DEF Available
  <2>4. rOffset' = rOffset + 1
    BY <1>2, <2>1, <2>3, Increment
  <2>5. last' = samples[Slot(rOffset)]
    <3>1. rOffset \in rOffset .. wOffset - 1
      BY <1>2, <2>3
    <3> QED BY <2>1, <2>2, <3>1
  <2>6. ASSUME NEW n \in rOffset .. wOffset - 1
        PROVE  BlockAt(n)' = BlockAt(n)
    <3>1. n # rOffset - 1 /\ (n = rOffset' - 1 <=> n = rOffset)
      BY <1>2, <2>4
    <3>2. CASE n = rOffset
      BY <2>5, <3>1, <3>2 DEF BlockAt
    <3>3. CASE n # rOffset
      <4>1. n \in Nat /\ rOffset \in Nat /\ rOffset < n /\ n < rOffset + N
        BY <1>2, <2>2, <3>3
      <4>2. Slot(n) # Slot(rOffset) /\ Slot(n) \in 0 .. N - 1
        BY <4>1, SlotsDiffer, SlotInRing
      <4> QED BY <1>2, <2>1, <3>1, <3>3, <4>2 DEF BlockAt
    <3> QED BY <3>2, <3>3
  <2>7. Linked
    BY DEF LInv
  <2> PICK m : m = wOffset - 1
    OBVIOUS
  <2>8. Newest' = Newest
    <3>1. m \in rOffset .. wOffset - 1
      BY <1>2, <2>3
    <3>2. Newest' = BlockAt(m)' /\ Newest = BlockAt(m)
      BY <1>1 DEF Newest, BlockAt
    <3> QED BY <2>6, <3>1, <3>2
  <2>9. ASSUME NEW n \in rOffset' .. wOffset' - 1
        PROVE  Follows(BlockAt(n - 1)', BlockAt(n)', overlapped)
    <3> PICK k : k = n - 1
      OBVIOUS
    <3>1. n \in rOffset .. wOffset - 1 /\ k \in rOffset .. wOffset - 1
      BY <1>1, <1>2, <2>4
    <3>2. Follows(BlockAt(k), BlockAt(n), overlapped)
      BY <1>5, <2>7, <3>1 DEF Linked
    <3> QED BY <2>6, <3>1, <3>2
  <2>10. Linked'
    BY <1>1, <1>5, <2>7, <2>8, <2>9 DEF Linked
  <2>11. Follows(last, last', overlapped)
    <3>1. rOffset \in rOffset .. wOffset - 1 /\ rOffset # rOffset - 1
      BY <1>2, <2>3
    <3>2. Follows(BlockAt(rOffset - 1), BlockAt(rOffset), overlapped)
      BY <1>5, <2>7, <3>1 DEF Linked
    <3>3. BlockAt(rOffset - 1) = last /\ BlockAt(rOffset) = samples[Slot(rOffset)]
      BY <3>1 DEF BlockAt
    <3> QED BY <2>5, <3>2, <3>3
  <2> QED BY <2>10, <2>11
<1> QED BY <1>3, <1>4, <1>5

LEMMA AtEnd ==
  ASSUME LInv, NEW a \in Block \cup {-1}, Follows(a, position, overlapped), overlapped \/ NearEnd
  PROVE  Follows(a, 0, overlapped)
<1>1. a \in Int /\ position \in 0 .. Blocks /\ Blocks \in Nat /\ EndZone \in Nat /\ a >= -1
  BY AudioAssumption DEF LInv, RInv, IInv, TypeOK, AudioAssumption, Block
<1> QED BY <1>1 DEF Follows, NearEnd

LEMMA RewindOrders ==
  ASSUME LInv, NEW t \in Readers, Rewind(t)
  PROVE  Linked' /\ RewindsAtEnd'
<1>0. /\ UNCHANGED <<ring, newSample, wrapped, last, overlapped>> /\ position' = 0
      /\ reader[t] = "rewind" /\ reader' = [reader EXCEPT ![t] = "again"]
      /\ reader \in [Readers -> ReaderSteps] /\ newSample \in [Fillers -> Block \cup {None}]
      /\ samples \in [0 .. N - 1 -> Block \cup {None}] /\ last \in Block \cup {-1}
      /\ rOffset \in 0 .. W - 1 /\ wOffset \in 0 .. W - 1
  BY DEF Rewind, ReaderAt, history, LInv, RInv, IInv, TypeOK
<1>1. overlapped \/ NearEnd
  BY <1>0 DEF LInv, RewindsAtEnd
<1>2. \A n : BlockAt(n)' = BlockAt(n)
  BY <1>0 DEF BlockAt, ring
<1>3. Newest' = Newest
  BY <1>0 DEF Newest, BlockAt, ring
<1>4. ASSUME ~wrapped PROVE Newest \in Block \cup {-1}
  <2>1. rOffset <= wOffset /\ \A n \in rOffset .. wOffset - 1 : samples[Slot(n)] # None
    BY <1>4, Stretch DEF LInv, RInv, Unwrapped
  <2>2. CASE rOffset = wOffset
    BY <1>0, <2>2 DEF Newest, BlockAt
  <2>3. CASE rOffset # wOffset
    <3>1. wOffset - 1 \in rOffset .. wOffset - 1 /\ wOffset - 1 # rOffset - 1 /\ wOffset - 1 \in Nat
      BY <1>0, <2>1, <2>3
    <3>2. Slot(wOffset - 1) \in 0 .. N - 1
      BY <3>1, SlotInRing
    <3>3. samples[Slot(wOffset - 1)] \in Block
      BY <1>0, <2>1, <3>1, <3>2
    <3> QED BY <3>1, <3>3 DEF Newest, BlockAt
  <2> QED BY <2>2, <2>3
<1>5. \A f \in Fillers : newSample[f] # None => newSample[f] \in Block \cup {-1}
  BY <1>0
<1>6. Linked'
  <2> SUFFICES ASSUME ~wrapped PROVE Linked'
    BY <1>0 DEF Linked
  <2>1. \A f \in Fillers : newSample[f] # None =>
          Follows(Newest, newSample[f], overlapped) /\ Follows(newSample[f], 0, overlapped)
    BY <1>1, <1>5, AtEnd DEF LInv, Linked
  <2>2. (\A f \in Fillers : newSample[f] = None) => Follows(Newest, 0, overlapped)
    BY <1>1, <1>4, AtEnd DEF LInv, Linked
  <2> QED BY <1>0, <1>2, <1>3, <2>1, <2>2 DEF LInv, Linked, ring
<1>7. RewindsAtEnd'
  BY <1>0 DEF LInv, RewindsAtEnd
<1> QED BY <1>6, <1>7

LEMMA FindEndOrders ==
  ASSUME LInv, NEW t \in Readers, FindEnd(t)
  PROVE  Linked' /\ RewindsAtEnd'
<1>0. /\ UNCHANGED <<ring, newSample, wrapped, position, last>>
      /\ reader[t] = "noSample" /\ reader' = [reader EXCEPT ![t] = IF NearEnd THEN "rewind" ELSE "idle"]
      /\ overlapped' = (overlapped \/ (NearEnd /\ \E u \in Readers \ {t} : reader[u] = "rewind"))
      /\ reader \in [Readers -> ReaderSteps]
  BY DEF FindEnd, ReaderAt, LInv, RInv, IInv, TypeOK
<1>1. Linked'
  BY <1>0, OrderStands
<1>2. NearEnd' <=> NearEnd
  BY <1>0 DEF NearEnd
<1>3. RewindsAtEnd'
  BY <1>0, <1>2 DEF LInv, RewindsAtEnd
<1> QED BY <1>1, <1>3

LEMMA NextOrders ==
  ASSUME LInv, [Next]_vars
  PROVE  /\ LInv'
         /\ rOffset' # rOffset /\ ~wrapped => Follows(last, last', overlapped)
<1>0. RInv' /\ position \in Int /\ overlapped \in BOOLEAN /\ reader \in [Readers -> ReaderSteps]
  BY NextQueues DEF LInv, RInv, IInv, TypeOK
<1>1. ASSUME UNCHANGED <<ring, newSample, wrapped, position, last, overlapped>>,
             \A u \in Readers : reader'[u] = "rewind" => reader[u] = "rewind"
      PROVE  Linked' /\ RewindsAtEnd' /\ rOffset' = rOffset
  BY <1>0, <1>1, OrderStands, NobodyRewinds DEF ring
<1>2. ASSUME NEW f \in Fillers, Fill(f)
      PROVE  Linked' /\ RewindsAtEnd' /\ rOffset' = rOffset
  <2>1. CASE Test(f) \/ Finish(f)
    BY <1>1, <2>1 DEF Test, Finish, history
  <2>2. CASE ReadFrames(f)
    BY <2>2, ReadFramesOrders DEF ReadFrames, ring
  <2>3. CASE Store(f)
    BY <2>3, StoreOrders DEF Store
  <2> QED BY <1>2, <2>1, <2>2, <2>3 DEF Fill
<1>3. ASSUME NEW t \in Readers, Audio(t)
      PROVE  Linked' /\ RewindsAtEnd' /\ (rOffset' # rOffset /\ ~wrapped => Follows(last, last', overlapped))
  <2>1. CASE Pull(t) \/ ReadAgain(t)
    <3>1. /\ ReadSample /\ overlapped' = overlapped /\ position' = position
          /\ \A u \in Readers : reader'[u] = "rewind" => reader[u] = "rewind"
      BY <1>0, <2>1 DEF Pull, ReadAgain, ReadSample, ReaderAt
    <3> QED BY <1>0, <3>1, TakeOrders, NobodyRewinds
  <2>2. CASE FindEnd(t)
    BY <2>2, FindEndOrders DEF FindEnd, ring
  <2>3. CASE Rewind(t)
    BY <2>3, RewindOrders DEF Rewind, ring
  <2>4. CASE Deactivate(t)
    BY <1>0, <1>1, <2>4 DEF Deactivate, ReaderAt, history
  <2> QED BY <1>3, <2>1, <2>2, <2>3, <2>4 DEF Audio
<1>4. ASSUME NEW value \in BOOLEAN, DoRepeat(value)
      PROVE  Linked' /\ RewindsAtEnd' /\ rOffset' = rOffset
  BY <1>1, <1>4 DEF DoRepeat, history
<1>5. CASE UNCHANGED vars
  BY <1>0, <1>1, <1>5 DEF LInv, vars, history
<1> QED BY <1>0, <1>2, <1>3, <1>4, <1>5 DEF Next, LInv

\* Until wOffset wraps around, each block is handed out after the one before it in the file, and
\* the file begins again only near its end, unless two readers found the end at once: whatever the
\* sizes of the ring and of the file and however many readers and fillers there are.
THEOREM PlaysInOrder == Spec => BlocksInOrder
<1>1. LInv /\ [Next]_vars => LInv'
  BY NextOrders
<1>2. LInv /\ [Next]_vars =>
        [ rOffset' # rOffset /\ ~wrapped
            => \/ last' = last + 1
               \/ last' = 0 /\ (last >= Blocks - EndZone - 1 \/ overlapped) ]_vars
  BY NextOrders DEF Follows
<1> QED BY <1>1, <1>2, InitLInv, PTL DEF Spec, BlocksInOrder
=============================================================================
