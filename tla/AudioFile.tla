---------------------------- MODULE AudioFile ----------------------------
(***************************************************************************)
(* Reading an audio file ahead (core/JMXAudioFile.m) and pulling samples   *)
(* from it (audio of entities/audio/JMXAudioFileEntity.mm).                *)
(*                                                                         *)
(* Background threads, the fillers, read blocks of 512 frames into the     *)
(* ring samples; the receivers of the audio pin, the readers, take them    *)
(* out.  The pin is passive, so each receiver pulls on a thread of its     *)
(* own.  rOffset and wOffset are unsigned 32-bit counters that are taken   *)
(* modulo the size of the ring; they change under a spin lock, but the     *)
(* filler tests them, reads the file and clears isFilling without it, and  *)
(* the position of the file is under no lock at all.                       *)
(*                                                                         *)
(* A block is its number in the file.  The file is a whole number of       *)
(* blocks long.  Left out: failures of ExtAudioFile, the retain counts of  *)
(* the blocks, and the properties audio plays no part in.                  *)
(***************************************************************************)
EXTENDS Integers, FiniteSets, Sequences

CONSTANTS Readers,    \* the threads that pull the audio pin
          MaxFillers, \* bound of the model: background threads alive at once
          N,          \* kJMXAudioFileBufferCount
          W,          \* 2^32: the offsets wrap around at W
          Blocks,     \* length of the file in blocks
          EndZone     \* numChannels: that many blocks are "the end" of the file

AudioAssumption ==
  /\ Readers # {} /\ MaxFillers \in Nat \ {0}
  /\ N \in Nat /\ N >= 4
  /\ W \in Nat /\ W > N
  /\ Blocks \in Nat \ {0} /\ EndZone \in Nat \ {0}

ASSUME AudioAssumption

None == -1                     \* nil
Block == 0 .. Blocks - 1
Fillers == 1 .. MaxFillers

VARIABLES samples,    \* samples[i]: the block in slot i, or None
          rOffset,    \* rOffset
          wOffset,    \* wOffset
          overflow,   \* overflow
          isFilling,  \* isFilling
          position,   \* the block the file stands at: currentOffset / 512
          repeat,     \* repeat
          active,     \* active of the entity
          filler,     \* filler[f]: where filler f stands
          newSample,  \* newSample[f]: the block f has read and not stored yet, or None
          reader,     \* reader[t]: where reader t stands in audio
          last,       \* history: the block handed out last
          wrapped,    \* history: has wOffset wrapped around
          overlapped  \* history: have two readers found the end at the same time

ring    == <<samples, rOffset, wOffset, overflow>>
entity  == <<repeat, active>>
history == <<last, wrapped, overlapped>>
vars    == <<ring, isFilling, position, entity, filler, newSample, reader, history>>

FillerSteps == {"none", "test", "readFrames", "store", "finish"}
ReaderSteps == {"idle", "noSample", "rewind", "again"}

Slot(offset)    == offset % N
Wrap(n)         == n % W
Pending         == Wrap(wOffset - rOffset)   \* wOffset - rOffset of unsigned integers
FillerAt(f, s)  == filler' = [filler EXCEPT ![f] = s]
ReaderAt(t, s)  == reader' = [reader EXCEPT ![t] = s]

\* currentOffset >= numFrames - 512 * numChannels, an unsigned comparison:
\* for a shorter file the difference wraps and is never reached
NearEnd == Blocks >= EndZone /\ position >= Blocks - EndZone

\* initWithURL: has opened the file and started the first filler
Init ==
  /\ samples = [i \in 0 .. N - 1 |-> None]
  /\ rOffset = 0 /\ wOffset = 0 /\ overflow = FALSE
  /\ isFilling = TRUE /\ position = 0
  /\ repeat = TRUE /\ active = TRUE
  /\ filler = [f \in Fillers |-> IF f = 1 THEN "test" ELSE "none"]
  /\ newSample = [f \in Fillers |-> None]
  /\ reader = [t \in Readers |-> "idle"]
  /\ last = -1 /\ wrapped = FALSE /\ overlapped = FALSE

(***************************************************************************)
(* fillBuffer                                                              *)
(***************************************************************************)
\* while (wOffset - rOffset < kJMXAudioFileBufferCount/2 ...
Test(f) ==
  /\ filler[f] = "test"
  /\ FillerAt(f, IF Pending < N \div 2 THEN "readFrames" ELSE "finish")
  /\ UNCHANGED <<ring, isFilling, position, entity, newSample, reader, history>>

\* Faulty variant: a block is read past the end of the file.
ReadPastEnd(f) ==
  /\ filler[f] = "readFrames"
  /\ position <= Blocks
  /\ newSample' = [newSample EXCEPT ![f] = position]
  /\ position' = position + 1
  /\ FillerAt(f, "store")
  /\ UNCHANGED <<ring, isFilling, entity, reader, history>>

\* readFrames:512
ReadFrames(f) ==
  /\ filler[f] = "readFrames"
  /\ IF position < Blocks
       THEN /\ newSample' = [newSample EXCEPT ![f] = position]
            /\ position' = position + 1
       ELSE UNCHANGED <<newSample, position>>
  /\ FillerAt(f, "store")
  /\ UNCHANGED <<ring, isFilling, entity, reader, history>>

\* the critical section of fillBuffer; whatever is in the slot is released
Store(f) ==
  /\ filler[f] = "store"
  /\ samples' = [samples EXCEPT ![Slot(wOffset)] = newSample[f]]
  /\ IF newSample[f] # None
       THEN /\ wOffset' = Wrap(wOffset + 1)
            /\ overflow' = (overflow \/ wOffset' = 0)
            /\ wrapped' = (wrapped \/ wOffset' = 0)
            /\ FillerAt(f, "test")
       ELSE /\ UNCHANGED <<wOffset, overflow, wrapped>>
            /\ FillerAt(f, "finish")
  /\ newSample' = [newSample EXCEPT ![f] = None]
  /\ UNCHANGED <<rOffset, isFilling, position, entity, reader, last, overlapped>>

\* Faulty variant: the end of a filler leaves isFilling set.
FinishSilently(f) ==
  /\ filler[f] = "finish"
  /\ FillerAt(f, "none")
  /\ UNCHANGED <<ring, isFilling, position, entity, newSample, reader, history>>

\* isFilling = NO, and the thread ends
Finish(f) ==
  /\ filler[f] = "finish"
  /\ isFilling' = FALSE
  /\ FillerAt(f, "none")
  /\ UNCHANGED <<ring, position, entity, newSample, reader, history>>

(***************************************************************************)
(* readSample, one critical section: takes a sample, and starts a filler   *)
(* when little is left.                                                    *)
(***************************************************************************)
Available == rOffset < wOffset \/ overflow
Sample    == IF Available THEN samples[Slot(rOffset)] ELSE None

\* Faulty variant: overflow stays set when rOffset wraps around.
TakeWithoutReset ==
  IF Available
    THEN /\ samples' = [samples EXCEPT ![Slot(rOffset)] = None]
         /\ rOffset' = Wrap(rOffset + 1)
         /\ last' = IF Sample = None THEN last ELSE Sample
         /\ UNCHANGED overflow
    ELSE UNCHANGED <<samples, rOffset, overflow, last>>

\* a sample that was overwritten after a wrap comes out as nil
TakeSample ==
  IF Available
    THEN /\ samples' = [samples EXCEPT ![Slot(rOffset)] = None]
         /\ rOffset' = Wrap(rOffset + 1)
         /\ overflow' = (overflow /\ rOffset' # 0)
         /\ last' = IF Sample = None THEN last ELSE Sample
    ELSE UNCHANGED <<samples, rOffset, overflow, last>>

\* the second condition of readSample, of the offsets TakeSample leaves
Low == /\ wOffset <= rOffset' \/ wOffset - rOffset' < N \div 4
       /\ ~overflow'

Idle == {f \in Fillers : filler[f] = "none"}

\* Faulty variant: a filler is started beside the one that runs.
StartAnotherFiller ==
  IF Low /\ ~NearEnd
    THEN /\ isFilling' = TRUE
         /\ \E f \in Idle : (\A g \in Idle : f <= g) /\ FillerAt(f, "test")
    ELSE UNCHANGED <<isFilling, filler>>

\* performSelectorInBackground: a new thread, the first identity that is free
StartFilling ==
  IF Low /\ ~isFilling /\ ~NearEnd
    THEN /\ isFilling' = TRUE
         /\ \E f \in Idle : (\A g \in Idle : f <= g) /\ FillerAt(f, "test")
    ELSE UNCHANGED <<isFilling, filler>>

ReadSample ==
  /\ TakeSample
  /\ StartFilling
  /\ UNCHANGED <<wOffset, position, newSample, wrapped>>

(***************************************************************************)
(* audio                                                                   *)
(***************************************************************************)
Pull(t) ==
  /\ reader[t] = "idle"
  /\ ReadSample
  /\ ReaderAt(t, IF Sample = None THEN "noSample" ELSE "idle")
  /\ UNCHANGED <<entity, overlapped>>

\* Faulty variant: an empty buffer is taken for the end of the file.
FindEndEarly(t) ==
  /\ reader[t] = "noSample"
  /\ ReaderAt(t, "rewind")
  /\ overlapped' = (overlapped \/ \E u \in Readers \ {t} : reader[u] = "rewind")
  /\ UNCHANGED <<ring, isFilling, position, entity, filler, newSample, last, wrapped>>

\* !sample && currentOffset >= ...
FindEnd(t) ==
  /\ reader[t] = "noSample"
  /\ ReaderAt(t, IF NearEnd THEN "rewind" ELSE "idle")
  /\ overlapped' = (overlapped \/ (NearEnd /\ \E u \in Readers \ {t} : reader[u] = "rewind"))
  /\ UNCHANGED <<ring, isFilling, position, entity, filler, newSample, last, wrapped>>

\* Faulty variant: the samples read ahead are dropped with the seek.
RewindAndClear(t) ==
  /\ reader[t] = "rewind"
  /\ position' = 0
  /\ samples' = [i \in 0 .. N - 1 |-> None]
  /\ ReaderAt(t, "again")
  /\ UNCHANGED <<rOffset, wOffset, overflow, isFilling, entity, filler, newSample, history>>

\* seekToOffset:0
Rewind(t) ==
  /\ reader[t] = "rewind"
  /\ position' = 0
  /\ ReaderAt(t, "again")
  /\ UNCHANGED <<ring, isFilling, entity, filler, newSample, history>>

\* if (repeat) the second readSample
ReadAgain(t) ==
  /\ reader[t] = "again" /\ repeat
  /\ ReadSample
  /\ ReaderAt(t, "idle")
  /\ UNCHANGED <<entity, overlapped>>

Deactivate(t) ==
  /\ reader[t] = "again" /\ ~repeat
  /\ active' = FALSE
  /\ ReaderAt(t, "idle")
  /\ UNCHANGED <<ring, isFilling, position, repeat, filler, newSample, history>>

\* doRepeat:
DoRepeat(value) ==
  /\ repeat' = value
  /\ UNCHANGED <<ring, isFilling, position, active, filler, newSample, reader, history>>

Fill(f)  == Test(f) \/ ReadFrames(f) \/ Store(f) \/ Finish(f)
Audio(t) == Pull(t) \/ FindEnd(t) \/ Rewind(t) \/ ReadAgain(t) \/ Deactivate(t)

Next == \/ \E f \in Fillers : Fill(f)
        \/ \E t \in Readers : Audio(t)
        \/ \E value \in BOOLEAN : DoRepeat(value)

Spec == Init /\ [][Next]_vars

\* the background threads are scheduled, and the audio devices go on pulling
Fairness == /\ \A f \in Fillers : WF_vars(Fill(f))
            /\ \A t \in Readers : WF_vars(Audio(t))

FairSpec == Spec /\ Fairness

(***************************************************************************)
(* Properties                                                              *)
(***************************************************************************)
\* The types of the variables.
TypeOK ==
  /\ samples \in [0 .. N - 1 -> Block \cup {None}]
  /\ rOffset \in 0 .. W - 1 /\ wOffset \in 0 .. W - 1 /\ overflow \in BOOLEAN
  /\ isFilling \in BOOLEAN /\ position \in 0 .. Blocks
  /\ repeat \in BOOLEAN /\ active \in BOOLEAN
  /\ filler \in [Fillers -> FillerSteps]
  /\ newSample \in [Fillers -> Block \cup {None}]
  /\ reader \in [Readers -> ReaderSteps]
  /\ last \in Block \cup {-1} /\ wrapped \in BOOLEAN /\ overlapped \in BOOLEAN

\* isFilling, set under the lock by a reader and cleared without it by the
\* filler, lets one filler run at a time: two of them would read the file and
\* store the blocks in different orders.
Running   == {f \in Fillers : filler[f] # "none"}
OneFiller == /\ Cardinality(Running) <= 1
             /\ isFilling <=> Running # {}

\* "rOffset is always behind wOffset" (JMXAudioFile.m:136): the readers never
\* overtake the filler and the filler is never more than half the ring ahead,
\* across any number of wraps, and overflow is set exactly while wOffset has
\* wrapped and rOffset has not.
OffsetsAgree == /\ Pending <= N \div 2
                /\ overflow <=> rOffset > wOffset

\* What the samples that have been read but not handed out are: those of the
\* slots from rOffset to wOffset, then the one the filler holds.
Held == IF \E f \in Fillers : newSample[f] # None
          THEN <<newSample[CHOOSE f \in Fillers : newSample[f] # None]>> ELSE << >>
Buffered == [i \in 1 .. Pending |-> samples[Slot(Wrap(rOffset + i - 1))]]

Queue == INSTANCE SampleQueue WITH queue <- Buffered \o Held, Capacity <- N \div 2

\* Until an offset wraps around, the ring is a bounded queue of the blocks of
\* the file: nothing is lost, repeated, reordered or overwritten between
\* readFrames: and readSample, whatever the readers and the filler do at once.
QueueOfSamples == Queue!Init /\ [][Queue!Next \/ wrapped']_(Queue!vars)

\* What a listener hears: every sample handed out is the next one of the file,
\* or the first one, and the file starts again only when all but its last
\* EndZone blocks have been heard - unless two readers found the end at once
\* and the slower one rewound the file the other had begun again.
BlocksInOrder ==
  [][ rOffset' # rOffset /\ ~wrapped
        => \/ last' = last + 1
           \/ last' = 0 /\ (last >= Blocks - EndZone - 1 \/ overlapped) ]_vars

Heard == rOffset' # rOffset /\ Sample # None

\* As long as somebody pulls, samples keep coming, round after round of the
\* file and across the wraps of the offsets: the filler is started in time and
\* the end of the file is found.  Files no longer than EndZone blocks are the
\* exception: they are heard once.
PlayGoesOn == Blocks > EndZone => []<><<Heard>>_vars
=============================================================================
