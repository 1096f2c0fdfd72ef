------------------------- MODULE EventStreamProofs -------------------------
(***************************************************************************)
(* Proofs about EventStream, for every page size, queue limit and bound on *)
(* events and generations.                                                 *)
(***************************************************************************)
EXTENDS EventStream, SequenceTheorems, TLAPS

Events == 1 .. MaxLog

-----------------------------------------------------------------------------
(* Runs of consecutive events *)

\* A run cut in two gives two runs.
LEMMA RunSplit ==
    ASSUME NEW s \in Seq(Events), NEW last \in Int, EndsWith(s, last),
           NEW k \in 0 .. Len(s)
    PROVE  /\ SubSeq(s, 1, k) \in Seq(Events)
           /\ SubSeq(s, k + 1, Len(s)) \in Seq(Events)
           /\ Len(SubSeq(s, 1, k)) = k
           /\ Len(SubSeq(s, k + 1, Len(s))) = Len(s) - k
           /\ EndsWith(SubSeq(s, 1, k), last - (Len(s) - k))
           /\ EndsWith(SubSeq(s, k + 1, Len(s)), last)
<1>1. Len(s) \in Nat /\ k \in Nat /\ k <= Len(s)
  BY LenProperties
<1>2. \A i \in 1 .. Len(s) : s[i] \in Events
  BY ElementOfSeq
<1>3. /\ SubSeq(s, 1, k) \in Seq(Events)
      /\ Len(SubSeq(s, 1, k)) = IF 1 <= k THEN k - 1 + 1 ELSE 0
      /\ \A i \in 1 .. k - 1 + 1 : SubSeq(s, 1, k)[i] = s[1 + i - 1]
  <2>1. \A i \in 1 .. k : s[i] \in Events
    BY <1>1, <1>2
  <2>2. QED
    BY <1>1, <2>1, SubSeqProperties
<1>4. /\ SubSeq(s, k + 1, Len(s)) \in Seq(Events)
      /\ Len(SubSeq(s, k + 1, Len(s))) =
            IF k + 1 <= Len(s) THEN Len(s) - (k + 1) + 1 ELSE 0
      /\ \A i \in 1 .. Len(s) - (k + 1) + 1 :
            SubSeq(s, k + 1, Len(s))[i] = s[k + 1 + i - 1]
  <2>1. \A i \in k + 1 .. Len(s) : s[i] \in Events
    BY <1>1, <1>2
  <2>2. k + 1 \in Int /\ Len(s) \in Int
    BY <1>1
  <2>3. QED
    BY <2>1, <2>2, SubSeqProperties
<1>5. Len(SubSeq(s, 1, k)) = k /\ Len(SubSeq(s, k + 1, Len(s))) = Len(s) - k
  BY <1>1, <1>3, <1>4
<1>6. EndsWith(SubSeq(s, 1, k), last - (Len(s) - k))
  <2> SUFFICES ASSUME NEW i \in 1 .. k
               PROVE  SubSeq(s, 1, k)[i] = last - (Len(s) - k) - k + i
    BY <1>5 DEF EndsWith
  <2>1. SubSeq(s, 1, k)[i] = s[i]
    BY <1>1, <1>3
  <2>2. s[i] = last - Len(s) + i
    BY <1>1 DEF EndsWith
  <2>3. QED
    BY <1>1, <2>1, <2>2
<1>7. EndsWith(SubSeq(s, k + 1, Len(s)), last)
  <2> SUFFICES ASSUME NEW i \in 1 .. Len(s) - k
               PROVE  SubSeq(s, k + 1, Len(s))[i] = last - (Len(s) - k) + i
    BY <1>5 DEF EndsWith
  <2>1. SubSeq(s, k + 1, Len(s))[i] = s[k + i]
    BY <1>1, <1>4
  <2>2. s[k + i] = last - Len(s) + (k + i)
    BY <1>1 DEF EndsWith
  <2>3. QED
    BY <1>1, <2>1, <2>2
<1>8. QED
  BY <1>3, <1>4, <1>5, <1>6, <1>7

\* A run that continues another one makes a longer run with it.
LEMMA RunJoin ==
    ASSUME NEW s \in Seq(Events), NEW t \in Seq(Events), NEW last \in Int,
           EndsWith(t, last), EndsWith(s, last - Len(t))
    PROVE  /\ s \o t \in Seq(Events)
           /\ Len(s \o t) = Len(s) + Len(t)
           /\ EndsWith(s \o t, last)
<1>1. Len(s) \in Nat /\ Len(t) \in Nat
  BY LenProperties
<1>2. /\ s \o t \in Seq(Events)
      /\ Len(s \o t) = Len(s) + Len(t)
      /\ \A i \in 1 .. Len(s) + Len(t) :
            (s \o t)[i] = IF i <= Len(s) THEN s[i] ELSE t[i - Len(s)]
  BY ConcatProperties
<1>3. ASSUME NEW i \in 1 .. Len(s) + Len(t)
      PROVE  (s \o t)[i] = last - (Len(s) + Len(t)) + i
  <2>1. CASE i <= Len(s)
    <3>1. s[i] = last - Len(t) - Len(s) + i
      BY <1>1, <2>1 DEF EndsWith
    <3>2. QED
      BY <1>1, <1>2, <2>1, <3>1
  <2>2. CASE i > Len(s)
    <3>1. t[i - Len(s)] = last - Len(t) + (i - Len(s))
      BY <1>1, <2>2 DEF EndsWith
    <3>2. QED
      BY <1>1, <1>2, <2>2, <3>1
  <2>3. QED
    BY <1>1, <2>1, <2>2
<1>4. QED
  BY <1>2, <1>3 DEF EndsWith

\* Receiving the first frame leaves a run with the same end.
LEMMA RunTail ==
    ASSUME NEW s \in Seq(Events), NEW last \in Int, EndsWith(s, last), s # <<>>
    PROVE  /\ Tail(s) \in Seq(Events)
           /\ Len(Tail(s)) = Len(s) - 1
           /\ EndsWith(Tail(s), last)
           /\ Head(s) = s[1] /\ Head(s) = last - Len(s) + 1
           /\ Len(s) \in Nat \ {0}
<1>1. Len(s) \in Nat /\ Len(s) # 0
  BY LenProperties, EmptySeq
<1>2. /\ Tail(s) \in Seq(Events) /\ Len(Tail(s)) = Len(s) - 1
      /\ \A i \in 1 .. Len(Tail(s)) : Tail(s)[i] = s[i + 1]
  BY HeadTailProperties
<1>3. Head(s) = s[1] /\ s[1] = last - Len(s) + 1
  BY <1>1 DEF EndsWith
<1>4. ASSUME NEW i \in 1 .. Len(s) - 1
      PROVE  Tail(s)[i] = last - (Len(s) - 1) + i
  <2>1. s[i + 1] = last - Len(s) + (i + 1)
    BY <1>1 DEF EndsWith
  <2>2. QED
    BY <1>1, <1>2, <2>1
<1>5. QED
  BY <1>1, <1>2, <1>3, <1>4 DEF EndsWith

LEMMA RunEmpty ==
    ASSUME NEW last \in Int
    PROVE  <<>> \in Seq(Events) /\ Len(<<>>) = 0 /\ EndsWith(<<>>, last)
  BY EmptySeq DEF EndsWith

\* What a poll finds is the run of events after the last one queued.
LEMMA FoundRun ==
    ASSUME StreamInv
    PROVE  /\ Found \in Seq(Events)
           /\ Len(Found) \in Nat
           /\ Len(Found) <= log - lastQueued
           /\ EndsWith(Found, lastQueued + Len(Found))
           /\ Capacity \in Nat /\ Len(queue) \in Nat
           /\ ~waiting => Len(Found) <= Capacity
<1> DEFINE n == Smaller(log - lastQueued, IF waiting THEN Capacity + 1 ELSE Capacity)
<1>1. /\ log \in 0 .. MaxLog /\ lastQueued \in 0 .. MaxLog
      /\ queue \in Seq(Events) /\ lastQueued <= log
  BY DEF StreamInv, TypeOK, WithinLog, Events
<1>2. Len(queue) \in Nat /\ Capacity \in Nat
  <2>1. Len(queue) \in Nat
    BY <1>1, LenProperties
  <2>2. QED
    BY <2>1, StreamAssumption DEF StreamInv, QueueBounded, Capacity
<1>3. n \in Nat /\ n <= log - lastQueued /\ (~waiting => n <= Capacity)
  BY <1>1, <1>2, StreamAssumption DEF Smaller
<1> HIDE DEF n
<1>4. Found = [i \in 1 .. n |-> lastQueued + i]
  BY DEF Found, n
<1>5. \A i \in 1 .. n : lastQueued + i \in Events
  BY <1>1, <1>3, StreamAssumption DEF Events
<1>6. Found \in Seq(Events) /\ Len(Found) = n
  BY <1>3, <1>4, <1>5
<1>7. EndsWith(Found, lastQueued + Len(Found))
  BY <1>1, <1>3, <1>4, <1>6 DEF EndsWith
<1>8. QED
  BY <1>2, <1>3, <1>6, <1>7

-----------------------------------------------------------------------------
(* The invariant *)

LEMMA InitStreamInv == Init => StreamInv
<1> SUFFICES ASSUME Init PROVE StreamInv
  OBVIOUS
<1>1. /\ 0 \in 0 .. MaxLog /\ 0 \in 0 .. MaxGen /\ <<>> \in Seq(1 .. MaxLog)
      /\ Len(<<>>) = 0
  BY StreamAssumption, EmptySeq
<1>2. \A g \in Generations : replay[g] = Idle
  BY DEF Init
<1>3. Idle \in Replays
  BY <1>1 DEF Idle, Replays
<1>4. TypeOK
  BY <1>1, <1>3 DEF Init, TypeOK, Phases
<1>5. ServerShape /\ Continues /\ QueueBounded
  BY <1>1, StreamAssumption DEF Init, ServerShape, Continues, QueueBounded
<1>6. generation \in Generations
  BY <1>1 DEF Init, Generations
<1>7. WithinLog /\ ReplayShape /\ NeverGap /\ OneWayOn
  BY <1>1, <1>2, <1>6
     DEF Init, Idle, WithinLog, ReplayShape, NeverGap, OneWayOn, Connected, Attaching
<1>8. QED
  BY <1>4, <1>5, <1>7 DEF StreamInv

\* The facts about the state that most steps use.
LEMMA Basics ==
    ASSUME StreamInv
    PROVE  /\ generation \in Generations
           /\ log \in 0 .. MaxLog /\ cursor \in 0 .. MaxLog /\ cursor <= log
           /\ \A g \in Generations : replay[g] \in Replays
           /\ MaxLog \in Nat /\ MaxGen \in Nat
           /\ Len(wire) \in Nat /\ Len(queue) \in Nat
           /\ (wire # <<>> => Len(wire) > 0)
<1>1. wire \in Seq(1 .. MaxLog) /\ queue \in Seq(1 .. MaxLog)
  BY DEF StreamInv, TypeOK
<1>2. Len(wire) \in Nat /\ Len(queue) \in Nat /\ (wire # <<>> => Len(wire) > 0)
  BY <1>1, LenProperties, EmptySeq
<1>3. QED
  BY <1>2, StreamAssumption DEF StreamInv, TypeOK, Generations, WithinLog

\* A step that leaves the connection alone and moves log and cursor only
\* forward keeps what is known of the connection.
LEMMA ConnectionKept ==
    ASSUME StreamInv, UNCHANGED connection,
           log' \in 0 .. MaxLog, cursor' \in 0 .. MaxLog,
           log' >= log, cursor' >= cursor
    PROVE  /\ phase' \in Phases /\ lastQueued' \in 0 .. MaxLog
           /\ queue' \in Seq(1 .. MaxLog) /\ waiting' \in BOOLEAN
           /\ wire' \in Seq(1 .. MaxLog)
           /\ ServerShape' /\ Continues' /\ QueueBounded'
           /\ lastQueued' <= log'
           /\ \A i \in 1 .. Len(wire') : wire'[i] <= log'
           /\ wire' # <<>> => Head(wire') <= cursor' + 1
<1>1. /\ phase' = phase /\ lastQueued' = lastQueued /\ queue' = queue
      /\ waiting' = waiting /\ wire' = wire
  BY DEF connection, server
<1>2. /\ phase \in Phases /\ lastQueued \in 0 .. MaxLog
      /\ queue \in Seq(1 .. MaxLog) /\ waiting \in BOOLEAN /\ wire \in Seq(1 .. MaxLog)
  BY DEF StreamInv, TypeOK
<1>3. ServerShape' /\ QueueBounded'
  BY <1>1 DEF StreamInv, ServerShape, QueueBounded
<1>4. Continues'
  <2>1. Len(wire) \in Int /\ Len(queue) \in Int /\ cursor \in Int /\ lastQueued \in Int
    BY <1>2, Basics
  <2>2. /\ lastQueued <= cursor => lastQueued <= cursor'
        /\ lastQueued - Len(queue) - Len(wire) <= cursor =>
              lastQueued - Len(queue) - Len(wire) <= cursor'
    BY <2>1
  <2>3. QED
    BY <1>1, <2>2 DEF StreamInv, Continues, EndsWith
<1>5. lastQueued' <= log'
  BY <1>1, <1>2, Basics DEF StreamInv, WithinLog
<1>6. wire' # <<>> => Head(wire') <= cursor' + 1
  <2>1. wire # <<>> => Head(wire) \in 1 .. MaxLog /\ Head(wire) <= cursor + 1
    BY <1>2, HeadTailProperties DEF StreamInv, NeverGap
  <2>2. QED
    BY <1>1, <2>1, Basics
<1>7. \A i \in 1 .. Len(wire') : wire'[i] <= log'
  <2>1. \A i \in 1 .. Len(wire) : wire[i] \in 1 .. MaxLog /\ wire[i] <= log
    BY <1>2, ElementOfSeq DEF StreamInv, WithinLog
  <2>2. QED
    BY <1>1, <2>1, Basics
<1>8. QED
  BY <1>1, <1>2, <1>3, <1>4, <1>5, <1>6, <1>7

\* What is left to show of a step that leaves the connection alone.
LEMMA ChannelStep ==
    ASSUME StreamInv, UNCHANGED connection,
           log' \in 0 .. MaxLog, cursor' \in 0 .. MaxLog,
           log' >= log, cursor' >= cursor, cursor' <= log',
           stopped' \in BOOLEAN, generation' \in 0 .. MaxGen, timer' \in BOOLEAN,
           replay' \in [Generations -> Replays],
           \A g \in Generations :
              /\ replay'[g].upto <= log' /\ replay'[g].from <= replay'[g].upto
              /\ replay'[g].at # "none" => replay'[g].from <= cursor',
           ReplayShape', OneWayOn'
    PROVE  StreamInv'
<1>1. TypeOK'
  BY ConnectionKept DEF TypeOK
<1>2. WithinLog'
  BY ConnectionKept DEF WithinLog
<1>3. NeverGap'
  BY ConnectionKept DEF NeverGap
<1>4. QED
  BY <1>1, <1>2, <1>3, ConnectionKept DEF StreamInv

\* The fields of the replays, as invariants give them.
LEMMA ReplayFacts ==
    ASSUME StreamInv, NEW g \in Generations
    PROVE  /\ replay[g] \in Replays
           /\ replay[g].upto \in 0 .. MaxLog /\ replay[g].from \in 0 .. MaxLog
           /\ replay[g].waits \in BOOLEAN
           /\ replay[g].upto <= log /\ replay[g].from <= replay[g].upto
           /\ replay[g].at # "none" => replay[g].from <= cursor
           /\ replay[g].at # "none" => g <= generation
           /\ replay[g].at = "none" => ~replay[g].waits
<1>1. replay[g] \in Replays
  BY Basics
<1>2. replay[g].at # "none" => g <= generation
  BY Basics DEF StreamInv, ReplayShape, Generations
<1>3. QED
  BY <1>1, <1>2 DEF StreamInv, Replays, WithinLog, NeverGap, ReplayShape

\* The replay of one generation is replaced by r, the others stay.
LEMMA ReplaySet ==
    ASSUME StreamInv, NEW g \in Generations, NEW r \in Replays,
           replay' = [replay EXCEPT ![g] = r]
    PROVE  /\ replay' \in [Generations -> Replays]
           /\ replay'[g] = r
           /\ \A h \in Generations : h # g => replay'[h] = replay[h]
<1>1. replay \in [Generations -> Replays]
  BY DEF StreamInv, TypeOK
<1>2. QED
  BY <1>1

LEMMA ReplayRecords ==
    ASSUME MaxLog \in Nat
    PROVE  /\ Idle \in Replays /\ Idle.at = "none" /\ ~Idle.waits
           /\ Idle.from = 0 /\ Idle.upto = 0
           /\ \A from \in 0 .. MaxLog, w \in BOOLEAN :
                 /\ Asked(from, w) \in Replays
                 /\ Asked(from, w).at = "asked"
                 /\ Asked(from, w).from = from /\ Asked(from, w).upto = from
                 /\ Asked(from, w).waits = w
<1>1. Idle \in Replays
  BY DEF Idle, Replays
<1>2. Idle.at = "none" /\ ~Idle.waits /\ Idle.from = 0 /\ Idle.upto = 0
  BY DEF Idle
<1>3. QED
  BY <1>1, <1>2 DEF Asked, Replays

LEMMA AppendEventStep == ASSUME StreamInv, AppendEvent PROVE StreamInv'
<1>1. /\ log' = log + 1 /\ log < MaxLog /\ cursor' = cursor /\ stopped' = stopped
      /\ generation' = generation /\ timer' = timer /\ replay' = replay
      /\ UNCHANGED connection
  BY DEF AppendEvent, channel
<1>2. log' \in 0 .. MaxLog /\ log' >= log /\ cursor' \in 0 .. MaxLog /\ cursor' >= cursor
      /\ cursor' <= log'
  BY <1>1, Basics
<1>3. ReplayShape'
  BY <1>1 DEF StreamInv, ReplayShape
<1>4. OneWayOn'
  BY <1>1 DEF StreamInv, OneWayOn, Connected, Attaching, connection, server
<1>5. \A g \in Generations :
         /\ replay'[g].upto <= log' /\ replay'[g].from <= replay'[g].upto
         /\ replay'[g].at # "none" => replay'[g].from <= cursor'
  BY <1>1, ReplayFacts, Basics
<1>6. /\ stopped' \in BOOLEAN /\ generation' \in 0 .. MaxGen /\ timer' \in BOOLEAN
      /\ replay' \in [Generations -> Replays]
  BY <1>1 DEF StreamInv, TypeOK
<1>7. QED
  BY <1>1, <1>2, <1>3, <1>4, <1>5, <1>6, ChannelStep

LEMMA StartStep == ASSUME StreamInv, Start PROVE StreamInv'
<1> DEFINE g1 == generation + 1
<1>1. /\ stopped /\ generation < MaxGen /\ ~stopped' /\ stopped' \in BOOLEAN
      /\ generation' = g1 /\ UNCHANGED connection
      /\ log' = log /\ cursor' = cursor /\ timer' = timer
      /\ replay' = [replay EXCEPT ![g1] = Asked(cursor, TRUE)]
  BY DEF Start
<1>2. g1 \in Generations /\ g1 > generation
  BY <1>1, Basics DEF Generations
<1>3. /\ Asked(cursor, TRUE) \in Replays
      /\ Asked(cursor, TRUE).at = "asked" /\ Asked(cursor, TRUE).waits
      /\ Asked(cursor, TRUE).from = cursor /\ Asked(cursor, TRUE).upto = cursor
  BY Basics, ReplayRecords
<1>4. /\ replay' \in [Generations -> Replays]
      /\ replay'[g1] = Asked(cursor, TRUE)
      /\ \A h \in Generations : h # g1 => replay'[h] = replay[h]
  BY <1>1, <1>2, <1>3, ReplaySet
<1>5. \A g \in Generations :
         /\ replay'[g].upto <= log' /\ replay'[g].from <= replay'[g].upto
         /\ replay'[g].at # "none" => replay'[g].from <= cursor'
  <2> TAKE g \in Generations
  <2>1. CASE g = g1
    <3>1. replay'[g].upto = cursor /\ replay'[g].from = cursor
      BY <1>3, <1>4, <2>1
    <3>2. cursor \in Int /\ cursor <= log /\ log' = log /\ cursor' = cursor
      BY <1>1, Basics
    <3>3. QED
      BY <3>1, <3>2
  <2>2. CASE g # g1
    <3>1. replay'[g] = replay[g]
      BY <1>4, <2>2
    <3>2. QED
      BY <1>1, <3>1, ReplayFacts
  <2>3. QED
    BY <2>1, <2>2
<1>6. ReplayShape'
  <2>1. \A g \in Generations : replay'[g].at = "none" => ~replay'[g].waits
    BY <1>3, <1>4, ReplayFacts
  <2>2. ASSUME NEW g \in Generations, g > generation' PROVE replay'[g].at = "none"
    <3>1. g # g1 /\ g > generation
      BY <1>1, <1>2, <2>2, Basics DEF Generations
    <3>2. replay[g].at = "none"
      BY <3>1 DEF StreamInv, ReplayShape
    <3>3. QED
      BY <1>4, <3>1, <3>2
  <2>3. QED
    BY <1>1, <2>1, <2>2 DEF ReplayShape
<1>7. OneWayOn'
  BY <1>1, <1>3, <1>4 DEF StreamInv, OneWayOn, Connected, Attaching, connection, server
<1>8. /\ generation' \in 0 .. MaxGen /\ timer' \in BOOLEAN
  BY <1>1, <1>2 DEF StreamInv, TypeOK, Generations
<1>9. /\ log' \in 0 .. MaxLog /\ cursor' \in 0 .. MaxLog
      /\ log' >= log /\ cursor' >= cursor /\ cursor' <= log'
  BY <1>1, Basics
<1>10. QED
  BY <1>1, <1>4, <1>5, <1>6, <1>7, <1>8, <1>9, ChannelStep

\* A step that only changes the replay of g, the timer and the cursor.
LEMMA ReplayStep ==
    ASSUME StreamInv, NEW g \in Generations, NEW r \in Replays,
           replay' = [replay EXCEPT ![g] = r],
           UNCHANGED <<log, stopped, generation, connection>>,
           timer' \in BOOLEAN, cursor' \in 0 .. MaxLog, cursor' >= cursor, cursor' <= log,
           r.at # "none" => g <= generation /\ (~stopped \/ g # generation),
           r.at = "none" => ~r.waits,
           r.upto <= log, r.from <= r.upto,
           r.at # "none" => r.from <= cursor',
           OneWayOn'
    PROVE  StreamInv'
<1>1. /\ replay' \in [Generations -> Replays]
      /\ replay'[g] = r
      /\ \A h \in Generations : h # g => replay'[h] = replay[h]
  BY ReplaySet
<1>2. \A h \in Generations :
         /\ replay'[h].upto <= log' /\ replay'[h].from <= replay'[h].upto
         /\ replay'[h].at # "none" => replay'[h].from <= cursor'
  <2> TAKE h \in Generations
  <2>1. CASE h = g
    BY <1>1, <2>1
  <2>2. CASE h # g
    BY <1>1, <2>2, ReplayFacts, Basics
  <2>3. QED
    BY <2>1, <2>2
<1>3. ReplayShape'
  <2>1. \A h \in Generations : replay'[h].at = "none" => ~replay'[h].waits
    BY <1>1, ReplayFacts
  <2>2. ASSUME NEW h \in Generations, h > generation' PROVE replay'[h].at = "none"
    <3>1. h > generation /\ replay[h].at = "none"
      BY <2>2 DEF StreamInv, ReplayShape
    <3>2. h = g => r.at = "none"
      BY <3>1, Basics DEF Generations
    <3>3. QED
      BY <1>1, <3>1, <3>2
  <2>3. stopped' => replay'[generation'].at = "none"
    BY <1>1, Basics DEF StreamInv, ReplayShape
  <2>4. QED
    BY <2>1, <2>2, <2>3 DEF ReplayShape
<1>4. /\ stopped' \in BOOLEAN /\ generation' \in 0 .. MaxGen
      /\ UNCHANGED connection /\ log' \in 0 .. MaxLog /\ log' >= log /\ cursor' <= log'
  BY Basics DEF StreamInv, TypeOK
<1>5. QED
  BY <1>1, <1>2, <1>3, <1>4, ChannelStep

\* Whether a replay of the current generation still waits after one replay
\* was replaced.
LEMMA AttachingAfter ==
    ASSUME StreamInv, NEW g \in Generations, NEW r \in Replays,
           replay' = [replay EXCEPT ![g] = r],
           UNCHANGED <<stopped, generation>>
    PROVE  Attaching' <=> ~stopped /\ IF g = generation THEN r.waits
                                                      ELSE replay[generation].waits
<1>1. /\ replay'[g] = r
      /\ \A h \in Generations : h # g => replay'[h] = replay[h]
  BY ReplaySet
<1>2. generation \in Generations
  BY Basics
<1>3. QED
  BY <1>1, <1>2 DEF Attaching

LEMMA CatchUpStep == ASSUME StreamInv, CatchUp PROVE StreamInv'
<1> DEFINE r == Asked(cursor, FALSE)
<1>1. /\ ~stopped /\ replay[generation].at = "none"
      /\ replay' = [replay EXCEPT ![generation] = r]
      /\ UNCHANGED <<log, stopped, generation, connection>>
      /\ cursor' = cursor /\ timer' = timer
  BY DEF CatchUp, channel
<1>2. generation \in Generations /\ cursor \in 0 .. MaxLog /\ cursor <= log /\ cursor \in Int
  BY Basics
<1>3. r \in Replays /\ r.at = "asked" /\ ~r.waits /\ r.from = cursor /\ r.upto = cursor
  BY <1>2, ReplayRecords, StreamAssumption
<1> HIDE DEF r
<1>4. Attaching' = FALSE /\ Attaching = FALSE
  BY <1>1, <1>2, <1>3, AttachingAfter, ReplayFacts DEF Attaching
<1>5. OneWayOn'
  BY <1>1, <1>4 DEF StreamInv, OneWayOn, Connected, connection, server
<1>6. timer' \in BOOLEAN
  BY <1>1 DEF StreamInv, TypeOK
<1>7. generation <= generation /\ cursor' \in 0 .. MaxLog /\ cursor' >= cursor /\ cursor' <= log
      /\ r.from <= cursor' /\ r.upto <= log /\ r.from <= r.upto
  BY <1>1, <1>2, <1>3, Basics DEF Generations
<1>8. QED
  BY <1>1, <1>2, <1>3, <1>5, <1>6, <1>7, ReplayStep

LEMMA ServerReplaysStep ==
    ASSUME StreamInv, NEW g \in Generations, ServerReplays(g) PROVE StreamInv'
<1> DEFINE upto == Smaller(log, replay[g].from + PageLimit)
           r == [replay[g] EXCEPT !.at = "answered", !.upto = upto]
<1>1. /\ replay[g].at = "asked"
      /\ replay' = [replay EXCEPT ![g].at = "answered", ![g].upto = upto]
      /\ UNCHANGED <<log, stopped, generation, connection>>
      /\ cursor' = cursor /\ timer' = timer
  BY DEF ServerReplays, channel
<1>2. /\ replay[g] \in Replays /\ replay[g].from \in 0 .. MaxLog /\ replay[g].waits \in BOOLEAN
      /\ replay[g].from <= cursor /\ g <= generation
  BY <1>1, ReplayFacts
<1>3. log \in 0 .. MaxLog /\ cursor \in 0 .. MaxLog /\ cursor <= log
  BY Basics
<1>4. upto \in 0 .. MaxLog /\ upto <= log /\ replay[g].from <= upto
  BY <1>2, <1>3, StreamAssumption DEF Smaller
<1> HIDE DEF upto
<1>5. r \in Replays
  BY <1>2, <1>4 DEF Replays
<1>6. r.at = "answered" /\ r.from = replay[g].from /\ r.upto = upto
      /\ r.waits = replay[g].waits
  BY <1>2 DEF Replays
<1>7. replay' = [replay EXCEPT ![g] = r]
  <2>1. replay \in [Generations -> Replays]
    BY DEF StreamInv, TypeOK
  <2>2. QED
    BY <1>1, <2>1
<1> HIDE DEF r
<1>8. Attaching' <=> Attaching
  BY <1>1, <1>5, <1>6, <1>7, AttachingAfter DEF Attaching
<1>9. OneWayOn'
  BY <1>1, <1>8 DEF StreamInv, OneWayOn, Connected, connection, server
<1>10. ~stopped \/ g # generation
  BY <1>1 DEF StreamInv, ReplayShape
<1>11. /\ timer' \in BOOLEAN /\ cursor' \in 0 .. MaxLog /\ cursor' >= cursor /\ cursor' <= log
       /\ r.from <= cursor' /\ r.upto <= log /\ r.from <= r.upto
  BY <1>1, <1>2, <1>3, <1>4, <1>6 DEF StreamInv, TypeOK
<1>12. QED
  BY <1>1, <1>2, <1>5, <1>6, <1>7, <1>9, <1>10, <1>11, ReplayStep

\* A replay that ends, with a reconnection scheduled if one waited for it.
LEMMA ReplayEnds ==
    ASSUME StreamInv, NEW g \in Generations, replay[g].at # "none",
           replay' = [replay EXCEPT ![g] = Idle],
           UNCHANGED <<log, cursor, stopped, generation, connection>>,
           timer' = (timer \/ Reconnects(g))
    PROVE  StreamInv'
<1>1. /\ Idle \in Replays /\ Idle.at = "none" /\ ~Idle.waits
      /\ Idle.from = 0 /\ Idle.upto = 0
  BY ReplayRecords, StreamAssumption
<1>2. /\ generation \in Generations /\ cursor \in 0 .. MaxLog /\ cursor <= log
      /\ log \in 0 .. MaxLog
  BY Basics
<1>3. timer \in BOOLEAN /\ timer' \in BOOLEAN
  BY DEF StreamInv, TypeOK
<1>4. Attaching' <=> Attaching /\ g # generation
  BY <1>1, AttachingAfter DEF Attaching
<1>5. Reconnects(g) <=> Attaching /\ g = generation
  BY DEF Reconnects, IsCurrent, Attaching
<1>6. /\ stopped' = stopped /\ (Connected' <=> Connected)
  BY DEF Connected, connection
<1>7. OneWayOn'
  <2>1. timer' <=> timer \/ Reconnects(g)
    BY <1>3
  <2>2. stopped => ~Attaching
    BY DEF Attaching
  <2>3. QED
    BY <1>4, <1>5, <1>6, <2>1, <2>2 DEF StreamInv, OneWayOn
<1>8. cursor' \in 0 .. MaxLog /\ cursor' >= cursor /\ cursor' <= log
      /\ Idle.upto <= log /\ Idle.from <= Idle.upto
  BY <1>1, <1>2
<1>9. QED
  BY <1>1, <1>3, <1>7, <1>8, ReplayStep

LEMMA ReplayFailsStep ==
    ASSUME StreamInv, NEW g \in Generations, ReplayFails(g) PROVE StreamInv'
  BY ReplayEnds DEF ReplayFails

LEMMA DropReplayStep ==
    ASSUME StreamInv, NEW g \in Generations, DropReplay(g) PROVE StreamInv'
<1>1. ~Reconnects(g)
  BY DEF DropReplay, Reconnects
<1>2. timer \in BOOLEAN
  BY DEF StreamInv, TypeOK
<1>3. timer' = (timer \/ Reconnects(g))
  BY <1>1, <1>2 DEF DropReplay, channel
<1>4. QED
  BY <1>3, ReplayEnds DEF DropReplay, channel

LEMMA CommitPageStep ==
    ASSUME StreamInv, NEW g \in Generations, CommitPage(g) PROVE StreamInv'
<1> DEFINE c == IF replay[g].upto > cursor THEN replay[g].upto ELSE cursor
           r == Asked(c, replay[g].waits)
<1>1. /\ replay[g].at = "answered" /\ ~stopped /\ g = generation
      /\ UNCHANGED <<log, stopped, generation, connection>>
  BY DEF CommitPage, IsCurrent
<1>2. /\ replay[g].from <= cursor /\ replay[g].upto <= log
      /\ replay[g].upto \in 0 .. MaxLog /\ replay[g].waits \in BOOLEAN
      /\ replay[g].from \in 0 .. MaxLog
  BY <1>1, ReplayFacts
<1>3. log \in 0 .. MaxLog /\ cursor \in 0 .. MaxLog /\ cursor <= log
  BY Basics
<1>4. /\ cursor' = c /\ replay' = [replay EXCEPT ![g] = r] /\ timer' = timer
  BY <1>2, <1>3 DEF CommitPage
<1>5. c \in 0 .. MaxLog /\ c >= cursor /\ c <= log
  BY <1>2, <1>3
<1> HIDE DEF c
<1>6. /\ r \in Replays /\ r.at = "asked" /\ r.waits = replay[g].waits
      /\ r.from = c /\ r.upto = c
  BY <1>2, <1>5, ReplayRecords, StreamAssumption
<1> HIDE DEF r
<1>7. Attaching' <=> Attaching
  BY <1>1, <1>4, <1>6, AttachingAfter DEF Attaching
<1>8. OneWayOn'
  BY <1>1, <1>4, <1>7 DEF StreamInv, OneWayOn, Connected, connection, server
<1>9. g <= generation /\ timer' \in BOOLEAN
  BY <1>1, <1>4, Basics DEF StreamInv, TypeOK, Generations
<1>10. /\ cursor' \in 0 .. MaxLog /\ cursor' >= cursor /\ cursor' <= log
       /\ r.from <= cursor' /\ r.upto <= log /\ r.from <= r.upto
  BY <1>4, <1>5, <1>6
<1>11. QED
  BY <1>1, <1>4, <1>6, <1>8, <1>9, <1>10, ReplayStep

LEMMA TimerFiresStep == ASSUME StreamInv, TimerFires PROVE StreamInv'
<1>1. /\ timer /\ ~timer' /\ timer' \in BOOLEAN
      /\ UNCHANGED <<log, cursor, stopped, generation, connection>>
  BY DEF TimerFires
<1>2. ~stopped /\ ~Connected /\ ~Attaching
  BY <1>1 DEF StreamInv, OneWayOn
<1>3. /\ generation \in Generations /\ cursor \in 0 .. MaxLog /\ cursor <= log
      /\ log \in 0 .. MaxLog /\ generation <= generation
  BY Basics DEF Generations
<1> DEFINE old == replay[generation]
           r == IF old.at # "none"
                THEN [old EXCEPT !.waits = TRUE]
                ELSE Asked(cursor, TRUE)
<1>4. /\ old \in Replays /\ old.upto <= log /\ old.from <= old.upto
      /\ old.at # "none" => old.from <= cursor
  BY <1>3, ReplayFacts
<1>5. replay' = [replay EXCEPT ![generation] = r]
  <2>1. replay \in [Generations -> Replays]
    BY DEF StreamInv, TypeOK
  <2>2. QED
    BY <1>3, <2>1 DEF TimerFires
<1>6. /\ r \in Replays /\ r.at # "none" /\ r.waits /\ r.from <= cursor
      /\ r.upto <= log /\ r.from <= r.upto
  <2>1. CASE old.at # "none"
    BY <1>4, <2>1 DEF Replays
  <2>2. CASE old.at = "none"
    <3>1. r = Asked(cursor, TRUE)
      BY <2>2
    <3> HIDE DEF r
    <3>2. /\ r \in Replays /\ r.at = "asked" /\ r.waits /\ r.from = cursor /\ r.upto = cursor
      BY <1>3, <3>1, ReplayRecords, StreamAssumption
    <3>3. QED
      BY <1>3, <3>2
  <2>3. QED
    BY <2>1, <2>2
<1> HIDE DEF r
<1>7. Attaching'
  BY <1>1, <1>2, <1>3, <1>5, <1>6, AttachingAfter
<1>8. OneWayOn'
  BY <1>1, <1>2, <1>7 DEF OneWayOn, Connected, connection
<1>9. cursor' \in 0 .. MaxLog /\ cursor' >= cursor /\ cursor' <= log /\ r.from <= cursor'
  BY <1>1, <1>3, <1>6
<1>10. QED
  BY <1>1, <1>2, <1>3, <1>5, <1>6, <1>8, <1>9, ReplayStep

-----------------------------------------------------------------------------
(* Steps of the connection *)

\* What is left to show of a step that changes the connection alone.
LEMMA ConnectionStep ==
    ASSUME StreamInv, UNCHANGED <<log, stopped, generation>>,
           cursor' \in 0 .. MaxLog, cursor' >= cursor, cursor' <= log,
           timer' \in BOOLEAN, replay' = replay,
           phase' \in Phases, lastQueued' \in 0 .. MaxLog, lastQueued' <= log,
           queue' \in Seq(Events), waiting' \in BOOLEAN, wire' \in Seq(Events),
           ServerShape', Continues', QueueBounded', OneWayOn',
           \A i \in 1 .. Len(wire') : wire'[i] <= log,
           wire' # <<>> => Head(wire') <= cursor' + 1
    PROVE  StreamInv'
<1>1. TypeOK'
  BY DEF StreamInv, TypeOK, Events
<1>2. WithinLog'
  BY DEF StreamInv, WithinLog
<1>3. ReplayShape'
  BY DEF StreamInv, ReplayShape
<1>4. NeverGap'
  BY Basics, ReplayFacts DEF NeverGap
<1>5. QED
  BY <1>1, <1>2, <1>3, <1>4 DEF StreamInv

\* The connection is closed and a reconnection scheduled.
LEMMA Disconnected ==
    ASSUME StreamInv, NoConnection, timer' = TRUE, Connected,
           UNCHANGED <<log, cursor, stopped, generation, replay>>
    PROVE  StreamInv'
<1>1. phase' = "none" /\ lastQueued' = 0 /\ queue' = <<>> /\ waiting' = FALSE /\ wire' = <<>>
  BY DEF NoConnection
<1>2. <<>> \in Seq(Events) /\ Len(<<>>) = 0
  BY RunEmpty
<1>3. cursor' \in 0 .. MaxLog /\ cursor' >= cursor /\ cursor' <= log
      /\ lastQueued' \in 0 .. MaxLog /\ lastQueued' <= log
  BY <1>1, Basics
<1>4. ServerShape' /\ Continues' /\ QueueBounded'
  BY <1>1, <1>2, StreamAssumption DEF ServerShape, Continues, QueueBounded
<1>5. ~stopped /\ ~Attaching
  BY DEF StreamInv, OneWayOn
<1>6. OneWayOn'
  BY <1>1, <1>5 DEF OneWayOn, Connected, Attaching
<1>7. \A i \in 1 .. Len(wire') : wire'[i] <= log
  BY <1>1, <1>2
<1>8. phase' \in Phases /\ waiting' \in BOOLEAN /\ timer' \in BOOLEAN
  BY <1>1 DEF Phases
<1>9. QED
  BY <1>1, <1>2, <1>3, <1>4, <1>6, <1>7, <1>8, ConnectionStep

LEMMA StopStep == ASSUME StreamInv, Stop PROVE StreamInv'
<1>1. /\ ~stopped /\ generation < MaxGen /\ stopped' = TRUE
      /\ generation' = generation + 1 /\ timer' = FALSE
      /\ log' = log /\ cursor' = cursor /\ replay' = replay
      /\ phase' = "none" /\ lastQueued' = 0 /\ queue' = <<>> /\ waiting' = FALSE
      /\ wire' = <<>>
  BY DEF Stop, NoConnection
<1>2. generation' \in Generations /\ generation' > generation
  BY <1>1, Basics DEF Generations
<1>3. <<>> \in Seq(1 .. MaxLog) /\ Len(<<>>) = 0
  BY EmptySeq
<1>4. TypeOK'
  <2>1. generation' \in 0 .. MaxGen /\ 0 \in 0 .. MaxLog
    BY <1>2, StreamAssumption DEF Generations
  <2>2. QED
    BY <1>1, <1>3, <2>1 DEF StreamInv, TypeOK, Phases
<1>5. ServerShape' /\ Continues' /\ QueueBounded'
  BY <1>1, <1>3, StreamAssumption DEF ServerShape, Continues, QueueBounded
<1>6. WithinLog' /\ NeverGap'
  BY <1>1, Basics DEF StreamInv, WithinLog, NeverGap
<1>7. replay[generation'].at = "none"
  BY <1>2 DEF StreamInv, ReplayShape
<1>8. ReplayShape'
  <2>1. ASSUME NEW g \in Generations, g > generation' PROVE g > generation
    BY <1>2, <2>1, Basics DEF Generations
  <2>2. QED
    BY <1>1, <1>7, <2>1 DEF StreamInv, ReplayShape
<1>9. OneWayOn'
  BY <1>1 DEF OneWayOn, Connected, Attaching
<1>10. QED
  BY <1>4, <1>5, <1>6, <1>8, <1>9 DEF StreamInv

LEMMA FinishReplayStep ==
    ASSUME StreamInv, NEW g \in Generations, FinishReplay(g) PROVE StreamInv'
<1>1. /\ replay[g].at = "answered" /\ ~stopped /\ g = generation
      /\ replay' = [replay EXCEPT ![g] = Idle]
      /\ log' = log /\ cursor' = cursor /\ stopped' = stopped
      /\ generation' = generation /\ timer' = timer
      /\ queue' = queue /\ waiting' = waiting /\ wire' = wire
  BY DEF FinishReplay, IsCurrent, channel
<1>2. CASE ~replay[g].waits
  <2>1. UNCHANGED connection
    BY <1>1, <1>2 DEF FinishReplay, connection, server
  <2>2. ~Reconnects(g) /\ timer \in BOOLEAN
    BY <1>2 DEF Reconnects, StreamInv, TypeOK
  <2>3. timer' = (timer \/ Reconnects(g))
    BY <1>1, <2>2
  <2>4. QED
    BY <1>1, <2>1, <2>3, ReplayEnds
<1>3. CASE replay[g].waits
  <2>1. Attaching
    BY <1>1, <1>3 DEF Attaching
  <2>2. phase = "none" /\ ~timer
    BY <2>1 DEF StreamInv, OneWayOn, Connected
  <2>3. phase' = "connecting" /\ lastQueued' = cursor
    BY <1>3, <2>2 DEF FinishReplay, After
  <2>4. queue = <<>> /\ wire = <<>> /\ ~waiting
    BY <2>2 DEF StreamInv, ServerShape
  <2>5. /\ Idle \in Replays /\ Idle.at = "none" /\ ~Idle.waits
        /\ Idle.from = 0 /\ Idle.upto = 0
    BY ReplayRecords, StreamAssumption
  <2>6. /\ replay' \in [Generations -> Replays] /\ replay'[g] = Idle
        /\ \A h \in Generations : h # g => replay'[h] = replay[h]
    BY <1>1, <2>5, ReplaySet
  <2>7. TypeOK'
    BY <1>1, <2>3, <2>6 DEF StreamInv, TypeOK, Phases
  <2>8. ServerShape' /\ QueueBounded'
    BY <1>1, <2>3, <2>4 DEF StreamInv, ServerShape, QueueBounded
  <2>9. Continues'
    BY <1>1, <2>3, <2>4, Basics DEF Continues
  <2>10. \A h \in Generations :
            /\ replay'[h].upto <= log /\ replay'[h].from <= replay'[h].upto
            /\ replay'[h].at # "none" => replay'[h].from <= cursor
            /\ replay'[h].at = "none" => ~replay'[h].waits
            /\ h > generation => replay'[h].at = "none"
    <3> TAKE h \in Generations
    <3>1. CASE h = g
      BY <2>5, <2>6, <3>1, Basics
    <3>2. CASE h # g
      <4>1. replay'[h] = replay[h] /\ (h > generation => replay[h].at = "none")
        BY <2>6, <3>2 DEF StreamInv, ReplayShape
      <4>2. QED
        BY <4>1, ReplayFacts
    <3>3. QED
      BY <3>1, <3>2
  <2>11. WithinLog' /\ ReplayShape' /\ NeverGap'
    <3>1. cursor <= log
      BY Basics
    <3>2. QED
      BY <1>1, <2>3, <2>4, <2>10, <3>1 DEF WithinLog, ReplayShape, NeverGap
  <2>12. ~Attaching'
    BY <1>1, <2>5, <2>6, Basics DEF Attaching
  <2>13. OneWayOn'
    BY <1>1, <2>2, <2>3, <2>12 DEF OneWayOn, Connected
  <2>14. QED
    BY <2>7, <2>8, <2>9, <2>11, <2>13 DEF StreamInv
<1>4. QED
  BY <1>2, <1>3

\* A broken connection keeps a beginning of what was on the wire.
LEMMA BrokenStep ==
    ASSUME StreamInv, Broken, phase \in {"connecting", "open"},
           UNCHANGED <<log, channel, replay, lastQueued>>
    PROVE  StreamInv'
<1>1. /\ cursor' = cursor /\ stopped' = stopped /\ generation' = generation
      /\ timer' = timer /\ log' = log /\ replay' = replay /\ lastQueued' = lastQueued
  BY DEF channel
<1>2. phase' = "broken" /\ queue' = <<>> /\ waiting' = FALSE
  BY DEF Broken
<1>3. PICK k \in 0 .. Len(wire) : wire' = SubSeq(wire, 1, k)
  BY DEF Broken
<1>4. wire \in Seq(Events) /\ Len(wire) \in Nat /\ <<>> \in Seq(Events) /\ Len(<<>>) = 0
  BY Basics, EmptySeq DEF StreamInv, TypeOK, Events
<1>5. /\ wire' \in Seq(Events)
      /\ Continues'
      /\ \A i \in 1 .. Len(wire') : wire'[i] <= log
      /\ wire' # <<>> => Head(wire') <= cursor' + 1
  <2>1. CASE k = 0
    <3>1. wire' = <<>>
      BY <1>3, <1>4, <2>1, SubSeqEmpty
    <3>2. QED
      BY <1>2, <1>4, <3>1 DEF Continues
  <2>2. CASE k > 0
    <3>1. wire # <<>>
      BY <1>4, <2>2
    <3>2. \A i \in 1 .. Len(wire) : wire[i] \in Events
      BY <1>4, ElementOfSeq
    <3>3. wire[1] \in Events
      BY <1>4, <2>2, <3>2
    <3> DEFINE last == wire[1] + Len(wire) - 1
    <3>4. last \in Int /\ EndsWith(wire, last)
      BY <1>4, <3>1, <3>3 DEF StreamInv, Continues, Events
    <3> HIDE DEF last
    <3>5. /\ wire' \in Seq(Events) /\ Len(wire') = k
          /\ EndsWith(wire', last - (Len(wire) - k))
      BY <1>3, <1>4, <3>4, RunSplit
    <3>6. k \in Nat /\ k <= Len(wire) /\ wire' # <<>>
      BY <1>3, <1>4, <2>2, <3>5
    <3>7. /\ Head(wire) = wire[1] /\ Head(wire') = wire'[1]
      BY <1>4, <2>2, <3>1, <3>4, <3>5, <3>6, RunTail
    <3>8. wire'[1] = wire[1] /\ last - (Len(wire) - k) = wire'[1] + Len(wire') - 1
      <4>1. wire'[1] = last - (Len(wire) - k) - k + 1
        BY <1>4, <2>2, <3>5, <3>6 DEF EndsWith
      <4>2. last = wire[1] + Len(wire) - 1 /\ wire[1] \in Int
        BY <3>3 DEF last, Events
      <4>3. k \in Int /\ Len(wire) \in Int /\ last \in Int /\ Len(wire') = k
        BY <1>4, <3>4, <3>5, <3>6
      <4>4. \A v, n, e \in Int : e = v + n - 1 => e - (n - k) - k + 1 = v
        BY <4>3
      <4>5. wire'[1] = wire[1]
        BY <4>1, <4>2, <4>3, <4>4, Zenon
      <4>6. QED
        BY <4>2, <4>3, <4>5
    <3>9. Continues'
      BY <1>2, <3>5, <3>8 DEF Continues
    <3>10. Head(wire) <= cursor + 1
      BY <3>1 DEF StreamInv, NeverGap
    <3>11. ASSUME NEW i \in 1 .. Len(wire') PROVE wire'[i] <= log
      <4>1. i \in 1 .. k /\ i \in 1 .. Len(wire) /\ i \in Int
        BY <1>4, <3>5, <3>6
      <4>2. wire'[i] = last - (Len(wire) - k) - k + i /\ wire[i] = last - Len(wire) + i
        BY <3>4, <3>5, <4>1 DEF EndsWith
      <4>3. \A n, e, j \in Int : e - (n - k) - k + j = e - n + j
        BY <3>6
      <4>4. Len(wire) \in Int
        BY <1>4
      <4>5. wire'[i] = wire[i]
        BY <3>4, <4>1, <4>2, <4>3, <4>4, Zenon
      <4>6. QED
        BY <4>1, <4>5 DEF StreamInv, WithinLog
    <3>12. QED
      BY <1>1, <3>5, <3>7, <3>8, <3>9, <3>10, <3>11
  <2>3. QED
    BY <1>4, <2>1, <2>2
<1>6. ServerShape' /\ QueueBounded'
  BY <1>2, <1>4, StreamAssumption DEF ServerShape, QueueBounded
<1>7. OneWayOn'
  BY <1>1, <1>2 DEF StreamInv, OneWayOn, Connected, Attaching
<1>8. /\ cursor' \in 0 .. MaxLog /\ cursor' >= cursor /\ cursor' <= log
      /\ timer' \in BOOLEAN /\ lastQueued' \in 0 .. MaxLog /\ lastQueued' <= log
  BY <1>1, Basics DEF StreamInv, TypeOK, WithinLog
<1>9. QED
  BY <1>1, <1>2, <1>4, <1>5, <1>6, <1>7, <1>8, ConnectionStep DEF Phases

\* Writing part of a run of frames keeps wire and queue one run.
LEMMA Flushed ==
    ASSUME StreamInv, NEW frames \in Seq(Events), NEW last \in Int, NEW k,
           EndsWith(frames, last), EndsWith(wire, last - Len(frames)),
           last - Len(frames) - Len(wire) <= cursor,
           Len(frames) <= QueueLimit,
           Flush(frames, k)
    PROVE  /\ wire' \in Seq(Events) /\ queue' \in Seq(Events) /\ waiting' \in BOOLEAN
           /\ Len(queue') <= QueueLimit
           /\ ~waiting' => queue' = <<>>
           /\ EndsWith(queue', last) /\ EndsWith(wire', last - Len(queue'))
           /\ last - Len(queue') - Len(wire') <= cursor
<1>1. /\ k \in 0 .. Len(frames)
      /\ wire' = wire \o SubSeq(frames, 1, k)
      /\ queue' = SubSeq(frames, k + 1, Len(frames))
      /\ waiting' \in BOOLEAN /\ (k < Len(frames) => waiting')
  BY DEF Flush
<1>2. wire \in Seq(Events) /\ Len(wire) \in Nat /\ Len(frames) \in Nat
  BY Basics, LenProperties DEF StreamInv, TypeOK, Events
<1>3. /\ SubSeq(frames, 1, k) \in Seq(Events) /\ queue' \in Seq(Events)
      /\ Len(SubSeq(frames, 1, k)) = k /\ Len(queue') = Len(frames) - k
      /\ EndsWith(SubSeq(frames, 1, k), last - (Len(frames) - k))
      /\ EndsWith(queue', last)
  BY <1>1, <1>2, RunSplit
<1> DEFINE first == SubSeq(frames, 1, k)
           end == last - (Len(frames) - k)
<1>4. end \in Int /\ first \in Seq(Events) /\ Len(first) = k /\ EndsWith(first, end)
  BY <1>1, <1>2, <1>3
<1>5. end - Len(first) = last - Len(frames) /\ end = last - Len(queue')
  <2>1. Len(first) = k /\ Len(queue') = Len(frames) - k
    BY <1>3
  <2>2. k \in Int /\ Len(frames) \in Int
    BY <1>1, <1>2
  <2> HIDE DEF first
  <2>3. QED
    BY <2>1, <2>2
<1>6. /\ wire' \in Seq(Events) /\ Len(wire') = Len(wire) + k
      /\ EndsWith(wire', end)
  <2>1. wire' = wire \o first
    BY <1>1
  <2> HIDE DEF first, end
  <2>2. EndsWith(wire, end - Len(first))
    BY <1>5
  <2>3. QED
    BY <1>2, <1>4, <2>1, <2>2, RunJoin
<1>7. ~waiting' => queue' = <<>>
  <2>1. ~waiting' => Len(queue') = 0
    BY <1>1, <1>2, <1>3
  <2>2. QED
    BY <1>3, <2>1, EmptySeq
<1>8. EndsWith(wire', last - Len(queue'))
  <2> HIDE DEF end
  <2>1. QED
    BY <1>5, <1>6
<1>9. Len(queue') <= QueueLimit /\ last - Len(queue') - Len(wire') <= cursor
  <2>1. cursor \in Int /\ QueueLimit \in Int /\ k \in Int
    BY <1>1, Basics, StreamAssumption
  <2>2. Len(queue') = Len(frames) - k /\ Len(wire') = Len(wire) + k /\ k >= 0
    BY <1>1, <1>3, <1>6
  <2>3. QED
    BY <1>2, <2>1, <2>2
<1>10. QED
  BY <1>1, <1>3, <1>6, <1>7, <1>8, <1>9

\* The start of a run, in terms of its end.
LEMMA RunStart ==
    ASSUME NEW s \in Seq(Events), NEW last \in Int, EndsWith(s, last), s # <<>>
    PROVE  EndsWith(s, s[1] + Len(s) - 1) /\ s[1] = last - Len(s) + 1
<1>1. Len(s) \in Int /\ s[1] = last - Len(s) + 1
  BY RunTail
<1>2. last = s[1] + Len(s) - 1
  <2>1. \A v, n, e \in Int : v = e - n + 1 => e = v + n - 1
    OBVIOUS
  <2>2. s[1] \in Int
    BY <1>1
  <2>3. QED
    BY <1>1, <2>1, <2>2
<1>3. QED
  BY <1>1, <1>2

\* A step of the server's side that leaves an open connection.
LEMMA OpenStep ==
    ASSUME StreamInv, phase \in {"connecting", "open"}, phase' = "open",
           UNCHANGED <<log, channel, replay>>,
           lastQueued' \in 0 .. MaxLog, lastQueued' <= log,
           queue' \in Seq(Events), wire' \in Seq(Events), waiting' \in BOOLEAN,
           Len(queue') <= QueueLimit, ~waiting' => queue' = <<>>,
           EndsWith(queue', lastQueued'), EndsWith(wire', lastQueued' - Len(queue')),
           lastQueued' - Len(queue') - Len(wire') <= cursor
    PROVE  StreamInv'
<1>1. /\ cursor' = cursor /\ stopped' = stopped /\ generation' = generation
      /\ timer' = timer /\ log' = log /\ replay' = replay
  BY DEF channel
<1>2. ServerShape' /\ QueueBounded'
  BY DEF ServerShape, QueueBounded
<1>3. Len(queue') \in Nat /\ Len(wire') \in Nat /\ cursor \in Int
  BY Basics, LenProperties
<1>4. wire' # <<>> => /\ EndsWith(wire', wire'[1] + Len(wire') - 1)
                      /\ Head(wire') <= cursor' + 1
  <2> SUFFICES ASSUME wire' # <<>>
               PROVE  /\ EndsWith(wire', wire'[1] + Len(wire') - 1)
                      /\ Head(wire') <= cursor' + 1
    OBVIOUS
  <2> DEFINE end == lastQueued' - Len(queue')
  <2>1. end \in Int /\ EndsWith(wire', end) /\ end - Len(wire') <= cursor
    BY <1>3
  <2> HIDE DEF end
  <2>2. EndsWith(wire', wire'[1] + Len(wire') - 1)
    BY <2>1, RunStart
  <2>3. Head(wire') = end - Len(wire') + 1
    BY <2>1, RunTail
  <2>4. QED
    BY <1>1, <1>3, <2>1, <2>2, <2>3
<1>5. Continues'
  BY <1>1, <1>4 DEF Continues
<1>6. OneWayOn'
  BY <1>1 DEF StreamInv, OneWayOn, Connected, Attaching
<1>7. /\ cursor' \in 0 .. MaxLog /\ cursor' >= cursor /\ cursor' <= log
      /\ timer' \in BOOLEAN
  BY <1>1, Basics DEF StreamInv, TypeOK
<1>8. ASSUME NEW i \in 1 .. Len(wire') PROVE wire'[i] <= log
  <2> DEFINE end == lastQueued' - Len(queue')
  <2>1. wire'[i] = end - Len(wire') + i
    BY DEF EndsWith
  <2>2. end \in Int /\ end <= log /\ log \in Int /\ i \in Int /\ i <= Len(wire')
    BY <1>3, Basics
  <2> HIDE DEF end
  <2>3. QED
    BY <1>3, <2>1, <2>2
<1>9. QED
  BY <1>1, <1>2, <1>4, <1>5, <1>6, <1>7, <1>8, ConnectionStep DEF Phases

\* What is known of the frames of a connection being set up or open.
LEMMA LiveFrames ==
    ASSUME StreamInv, phase \in {"connecting", "open"}
    PROVE  /\ queue \in Seq(Events) /\ wire \in Seq(Events)
           /\ lastQueued \in 0 .. MaxLog /\ lastQueued <= log
           /\ waiting \in BOOLEAN /\ Len(queue) <= QueueLimit
           /\ EndsWith(queue, lastQueued) /\ EndsWith(wire, lastQueued - Len(queue))
           /\ lastQueued - Len(queue) - Len(wire) <= cursor
           /\ ~waiting => queue = <<>>
           /\ phase = "connecting" => ~waiting
<1>1. /\ queue \in Seq(Events) /\ wire \in Seq(Events) /\ waiting \in BOOLEAN
      /\ lastQueued \in 0 .. MaxLog /\ lastQueued <= log /\ Len(queue) <= QueueLimit
      /\ (~waiting => queue = <<>>) /\ (phase = "connecting" => ~waiting)
  BY DEF StreamInv, TypeOK, WithinLog, QueueBounded, ServerShape, Events
<1>2. CASE phase = "open"
  BY <1>1, <1>2 DEF StreamInv, Continues
<1>3. CASE phase = "connecting"
  <2>1. queue = <<>> /\ wire = <<>> /\ lastQueued <= cursor /\ Len(<<>>) = 0
    BY <1>3, RunEmpty DEF StreamInv, ServerShape, Continues
  <2>2. EndsWith(<<>>, lastQueued) /\ EndsWith(<<>>, lastQueued - Len(queue))
    BY <2>1 DEF EndsWith
  <2>3. lastQueued - 0 - 0 <= cursor
    BY <1>1, <2>1, Basics
  <2>4. QED
    BY <1>1, <2>1, <2>2, <2>3
<1>4. QED
  BY <1>2, <1>3

LEMMA EnqueueStep ==
    ASSUME StreamInv, phase \in {"connecting", "open"}, Enqueue PROVE StreamInv'
<1>1. /\ ~Overflows /\ phase' = "open" /\ lastQueued' = lastQueued + Len(Found)
      /\ UNCHANGED <<log, channel, replay>>
  BY DEF Enqueue
<1>2. /\ queue \in Seq(Events) /\ wire \in Seq(Events)
      /\ lastQueued \in 0 .. MaxLog /\ lastQueued <= log
      /\ EndsWith(queue, lastQueued) /\ EndsWith(wire, lastQueued - Len(queue))
      /\ lastQueued - Len(queue) - Len(wire) <= cursor
      /\ waiting \in BOOLEAN
  BY LiveFrames
<1>3. /\ Found \in Seq(Events) /\ Len(Found) \in Nat /\ Len(Found) <= log - lastQueued
      /\ EndsWith(Found, lastQueued') /\ Len(queue) \in Nat /\ Len(wire) \in Nat
      /\ Capacity \in Nat
  BY <1>1, FoundRun, Basics
<1>4. /\ lastQueued' \in 0 .. MaxLog /\ lastQueued' <= log
      /\ lastQueued' - Len(Found) = lastQueued
  BY <1>1, <1>2, <1>3, Basics
<1> DEFINE frames == queue \o Found
<1>5. frames \in Seq(Events) /\ Len(frames) = Len(queue) + Len(Found)
      /\ EndsWith(frames, lastQueued')
  <2>1. EndsWith(queue, lastQueued' - Len(Found)) /\ lastQueued' \in Int
    BY <1>2, <1>4
  <2>2. QED
    BY <1>2, <1>3, <2>1, RunJoin
<1>6. Len(frames) <= QueueLimit
  <2>1. Len(Found) <= Capacity /\ QueueLimit \in Nat
    BY <1>1, <1>3, StreamAssumption DEF Overflows
  <2>2. QED
    BY <1>3, <1>5, <2>1 DEF Capacity
<1> HIDE DEF frames
<1>7. lastQueued' - Len(frames) = lastQueued - Len(queue)
  BY <1>1, <1>2, <1>3, <1>5
<1>8. CASE waiting
  <2>1. queue' = frames /\ waiting' = waiting /\ wire' = wire
    BY <1>8 DEF Enqueue, frames
  <2>2. /\ EndsWith(wire', lastQueued' - Len(queue'))
        /\ lastQueued' - Len(queue') - Len(wire') <= cursor
    BY <1>2, <1>7, <2>1
  <2>3. QED
    BY <1>1, <1>2, <1>4, <1>5, <1>6, <1>8, <2>1, <2>2, OpenStep
<1>9. CASE ~waiting
  <2>1. PICK k \in 0 .. QueueLimit : Flush(frames, k)
    BY <1>9 DEF Enqueue, frames
  <2>2. EndsWith(wire, lastQueued' - Len(frames)) /\ lastQueued' \in Int
        /\ lastQueued' - Len(frames) - Len(wire) <= cursor
    BY <1>2, <1>4, <1>7
  <2>3. /\ wire' \in Seq(Events) /\ queue' \in Seq(Events) /\ waiting' \in BOOLEAN
        /\ Len(queue') <= QueueLimit
        /\ ~waiting' => queue' = <<>>
        /\ EndsWith(queue', lastQueued') /\ EndsWith(wire', lastQueued' - Len(queue'))
        /\ lastQueued' - Len(queue') - Len(wire') <= cursor
    BY <1>5, <1>6, <2>1, <2>2, Flushed
  <2>4. QED
    BY <1>1, <1>4, <2>3, OpenStep
<1>10. QED
  BY <1>8, <1>9

LEMMA DrainStep == ASSUME StreamInv, Drain PROVE StreamInv'
<1>1. /\ phase = "open" /\ phase' = "open" /\ lastQueued' = lastQueued
      /\ UNCHANGED <<log, channel, replay>>
  BY DEF Drain
<1>2. PICK k \in 0 .. QueueLimit : Flush(queue, k)
  BY DEF Drain, Drained
<1>3. /\ queue \in Seq(Events) /\ wire \in Seq(Events)
      /\ lastQueued \in 0 .. MaxLog /\ lastQueued <= log /\ lastQueued \in Int
      /\ EndsWith(queue, lastQueued) /\ EndsWith(wire, lastQueued - Len(queue))
      /\ lastQueued - Len(queue) - Len(wire) <= cursor
      /\ Len(queue) <= QueueLimit
  BY <1>1, LiveFrames
<1>4. /\ wire' \in Seq(Events) /\ queue' \in Seq(Events) /\ waiting' \in BOOLEAN
      /\ Len(queue') <= QueueLimit
      /\ ~waiting' => queue' = <<>>
      /\ EndsWith(queue', lastQueued) /\ EndsWith(wire', lastQueued - Len(queue'))
      /\ lastQueued - Len(queue') - Len(wire') <= cursor
  BY <1>2, <1>3, Flushed
<1>5. QED
  BY <1>1, <1>3, <1>4, OpenStep

LEMMA HeartbeatStep == ASSUME StreamInv, Heartbeat PROVE StreamInv'
<1>1. /\ phase = "open" /\ phase' = "open" /\ lastQueued' = lastQueued
      /\ queue' = queue /\ wire' = wire /\ waiting' = TRUE
      /\ UNCHANGED <<log, channel, replay>>
  BY DEF Heartbeat
<1>2. QED
  BY <1>1, LiveFrames, OpenStep

LEMMA NoticeBreakStep == ASSUME StreamInv, NoticeBreak PROVE StreamInv'
<1>1. Connected
  BY DEF NoticeBreak, Connected
<1>2. QED
  BY <1>1, Disconnected DEF NoticeBreak

LEMMA ReceiveStep == ASSUME StreamInv, Receive PROVE StreamInv'
<1>1. /\ wire # <<>> /\ UNCHANGED <<log, stopped, generation, replay>>
  BY DEF Receive
<1>2. /\ wire \in Seq(Events) /\ Head(wire) <= cursor + 1 /\ cursor \in 0 .. MaxLog
      /\ cursor <= log /\ log \in 0 .. MaxLog /\ Len(wire) \in Nat /\ Len(queue) \in Nat
  BY <1>1, Basics DEF StreamInv, TypeOK, NeverGap, Events
<1>3. Head(wire) \in Events
  BY <1>1, <1>2, HeadTailProperties
<1>4. /\ cursor' = IF Head(wire) > cursor THEN Head(wire) ELSE cursor
      /\ wire' = Tail(wire) /\ timer' = timer /\ phase' = phase
      /\ lastQueued' = lastQueued /\ queue' = queue /\ waiting' = waiting
  BY <1>2, <1>3 DEF Receive, server, Events
<1>5. phase \in {"open", "broken"}
  BY <1>1 DEF StreamInv, TypeOK, Phases, ServerShape
<1> DEFINE last == wire[1] + Len(wire) - 1
<1>6. last \in Int /\ EndsWith(wire, last) /\ Head(wire) = wire[1]
  <2>1. Len(wire) > 0 /\ wire[1] \in Events
    BY <1>1, <1>2, Basics, ElementOfSeq
  <2>2. last \in Int /\ EndsWith(wire, last)
    BY <1>1, <1>2, <2>1 DEF StreamInv, Continues, Events
  <2>3. QED
    BY <1>1, <1>2, <2>2, RunTail
<1> HIDE DEF last
<1>7. /\ wire' \in Seq(Events) /\ Len(wire') = Len(wire) - 1 /\ EndsWith(wire', last)
      /\ Head(wire) = last - Len(wire) + 1
  BY <1>1, <1>2, <1>4, <1>6, RunTail
<1>8. wire' # <<>> => /\ EndsWith(wire', wire'[1] + Len(wire') - 1)
                      /\ Head(wire') = last - Len(wire') + 1
  BY <1>6, <1>7, RunStart, RunTail
<1>9. cursor' >= cursor /\ cursor' >= Head(wire) /\ cursor' \in Int
  BY <1>2, <1>3, <1>4 DEF Events
<1>10. wire' # <<>> => Head(wire') <= cursor' + 1
  <2>1. last - (Len(wire) - 1) + 1 = (last - Len(wire) + 1) + 1
    BY <1>2, <1>6
  <2>2. wire' # <<>> => Head(wire') = Head(wire) + 1
    BY <1>7, <1>8, <2>1
  <2>3. QED
    BY <1>3, <1>9, <2>2 DEF Events
<1>11. cursor' <= log /\ cursor' \in 0 .. MaxLog
  <2>1. Head(wire) <= log
    BY <1>1, <1>6, Basics DEF StreamInv, WithinLog
  <2>2. QED
    BY <1>2, <1>3, <1>4, <2>1 DEF Events
<1>12. ASSUME NEW i \in 1 .. Len(wire') PROVE wire'[i] <= log
  <2>1. i + 1 \in 1 .. Len(wire) /\ wire'[i] = wire[i + 1]
    BY <1>1, <1>2, <1>4, <1>7, HeadTailProperties
  <2>2. QED
    BY <2>1 DEF StreamInv, WithinLog
<1>13. ServerShape' /\ QueueBounded'
  BY <1>4, <1>5 DEF StreamInv, ServerShape, QueueBounded
<1>14. Continues'
  <2>1. ASSUME phase = "open"
        PROVE  /\ EndsWith(wire', lastQueued - Len(queue))
               /\ lastQueued - Len(queue) - Len(wire') <= cursor'
               /\ EndsWith(queue, lastQueued)
    <3> DEFINE end == lastQueued - Len(queue)
    <3>1. /\ EndsWith(wire, end) /\ end \in Int /\ EndsWith(queue, lastQueued)
          /\ end - Len(wire) <= cursor
      BY <1>2, <2>1, LiveFrames
    <3> HIDE DEF end
    <3>2. Head(wire) = end - Len(wire) + 1 /\ EndsWith(wire', end)
      BY <1>1, <1>2, <1>4, <3>1, RunTail
    <3>3. end - Len(wire') <= cursor'
      BY <1>2, <1>7, <1>9, <3>1, <3>2
    <3>4. QED
      BY <3>1, <3>2, <3>3 DEF end
  <2>2. QED
    BY <1>4, <1>5, <1>8, <2>1 DEF Continues
<1>15. OneWayOn'
  BY <1>1, <1>4 DEF StreamInv, OneWayOn, Connected, Attaching
<1>16. /\ timer' \in BOOLEAN /\ phase' \in Phases /\ lastQueued' \in 0 .. MaxLog
       /\ lastQueued' <= log /\ queue' \in Seq(Events) /\ waiting' \in BOOLEAN
  BY <1>4 DEF StreamInv, TypeOK, WithinLog, Events
<1>17. QED
  BY <1>1, <1>7, <1>9, <1>10, <1>11, <1>12, <1>13, <1>14, <1>15, <1>16, ConnectionStep

LEMMA StutterStep == ASSUME StreamInv, UNCHANGED vars PROVE StreamInv'
<1>1. /\ log' = log /\ cursor' = cursor /\ stopped' = stopped /\ timer' = timer
      /\ generation' = generation /\ replay' = replay /\ phase' = phase
      /\ lastQueued' = lastQueued /\ queue' = queue /\ waiting' = waiting /\ wire' = wire
  BY DEF vars, channel, connection, server
<1>2. /\ TypeOK' /\ ServerShape' /\ WithinLog' /\ ReplayShape' /\ NeverGap'
      /\ QueueBounded' /\ OneWayOn'
  BY <1>1 DEF StreamInv, TypeOK, ServerShape, WithinLog, ReplayShape, NeverGap,
              QueueBounded, OneWayOn, Connected, Attaching
<1>3. Continues'
  BY <1>1 DEF StreamInv, Continues, EndsWith
<1>4. QED
  BY <1>2, <1>3 DEF StreamInv

LEMMA NextStreamInv == StreamInv /\ [Next]_vars => StreamInv'
<1> SUFFICES ASSUME StreamInv, [Next]_vars PROVE StreamInv'
  OBVIOUS
<1>1. CASE AppendEvent
  BY <1>1, AppendEventStep
<1>2. CASE Start
  BY <1>2, StartStep
<1>3. CASE Stop
  BY <1>3, StopStep
<1>4. CASE CatchUp
  BY <1>4, CatchUpStep
<1>5. CASE TimerFires
  BY <1>5, TimerFiresStep
<1>6. ASSUME NEW g \in Generations,
             \/ ServerReplays(g) \/ ReplayFails(g)
             \/ CommitPage(g) \/ FinishReplay(g) \/ DropReplay(g)
      PROVE  StreamInv'
  BY <1>6, ServerReplaysStep, ReplayFailsStep, CommitPageStep, FinishReplayStep,
     DropReplayStep
<1>7. CASE Connect \/ Poll
  BY <1>7, EnqueueStep DEF Connect, Poll
<1>8. CASE PollOverflows \/ Break
  BY <1>8, BrokenStep DEF PollOverflows, Break
<1>9. CASE Drain
  BY <1>9, DrainStep
<1>10. CASE Heartbeat
  BY <1>10, HeartbeatStep
<1>11. CASE Receive
  BY <1>11, ReceiveStep
<1>12. CASE NoticeBreak
  BY <1>12, NoticeBreakStep
<1>13. CASE UNCHANGED vars
  BY <1>13, StutterStep
<1>14. QED
  BY <1>1, <1>2, <1>3, <1>4, <1>5, <1>6, <1>7, <1>8, <1>9, <1>10, <1>11, <1>12,
     <1>13 DEF Next

-----------------------------------------------------------------------------
(* The results *)

\* The inductive invariant: wire and queue are one run of events that starts at
\* or before the one after the cursor, and nothing runs ahead of the log.
THEOREM StreamInvariant == Spec => []StreamInv
  BY InitStreamInv, NextStreamInv, PTL DEF Spec

\* The variables of channel and stream keep their types.
THEOREM TypeCorrect == Spec => []TypeOK
<1>1. StreamInv => TypeOK
  BY DEF StreamInv
<1>2. QED
  BY <1>1, StreamInvariant, PTL

\* Replay and stream hand over without a hole: the gap branches of commit in
\* public/app.js are never taken.
THEOREM HandoverHasNoGap == Spec => []NeverGap
<1>1. StreamInv => NeverGap
  BY DEF StreamInv
<1>2. QED
  BY <1>1, StreamInvariant, PTL

\* The server never holds more than queueLimit frames for a slow reader.
THEOREM QueueStaysBounded == Spec => []QueueBounded
<1>1. StreamInv => QueueBounded
  BY DEF StreamInv
<1>2. QED
  BY <1>1, StreamInvariant, PTL

\* A running channel has exactly one of a connection, a scheduled reconnection
\* and a replay that attaches; a stopped one has none.
THEOREM AlwaysOneWayOn == Spec => []OneWayOn
<1>1. StreamInv => OneWayOn
  BY DEF StreamInv
<1>2. QED
  BY <1>1, StreamInvariant, PTL

\* One replay was replaced: it is the only one that changed.
LEMMA OnlyReplay ==
    ASSUME StreamInv, NEW h \in Generations, NEW r, replay' = [replay EXCEPT ![h] = r],
           NEW g \in Generations, replay'[g] # replay[g]
    PROVE  g = h
<1>1. replay \in [Generations -> Replays]
  BY DEF StreamInv, TypeOK
<1>2. QED
  BY <1>1

\* A replay asked for before a stop changes nothing of a restarted channel.
THEOREM OldReplaysIgnored == Spec => OldReplayIgnored
<1>1. ASSUME StreamInv, [Next]_vars, NEW g \in Generations,
             g # generation, replay'[g] # replay[g], generation' = generation
      PROVE  UNCHANGED <<channel, connection>>
  <2>1. replay' # replay /\ generation \in Generations
    BY <1>1, Basics
  <2>2. CASE AppendEvent \/ Connect \/ Poll \/ PollOverflows \/ Drain \/ Heartbeat \/ Break
             \/ Receive \/ NoticeBreak \/ UNCHANGED vars
    BY <2>1, <2>2 DEF AppendEvent, Connect, Poll, Enqueue, PollOverflows, Drain, Heartbeat,
                      Break, Receive, NoticeBreak, vars
  <2>3. CASE Start \/ Stop
    <3>1. generation' = generation + 1
      BY <2>3 DEF Start, Stop
    <3>2. generation \in Int
      BY <2>1 DEF Generations
    <3>3. QED
      BY <1>1, <3>1, <3>2
  <2>4. CASE CatchUp
    BY <1>1, <2>1, <2>4, OnlyReplay DEF CatchUp
  <2>5. CASE TimerFires
    <3>1. \/ replay' = [replay EXCEPT ![generation] = [replay[generation] EXCEPT !.waits = TRUE]]
          \/ replay' = [replay EXCEPT ![generation] = Asked(cursor, TRUE)]
      BY <2>1, <2>5 DEF TimerFires
    <3>2. QED
      BY <1>1, <2>1, <3>1, OnlyReplay
  <2>6. ASSUME NEW h \in Generations, ServerReplays(h) \/ DropReplay(h)
        PROVE  UNCHANGED <<channel, connection>>
    BY <2>6 DEF ServerReplays, DropReplay
  <2>7. ASSUME NEW h \in Generations, ReplayFails(h)
        PROVE  UNCHANGED <<channel, connection>>
    <3>1. h = g
      BY <1>1, <2>7, OnlyReplay DEF ReplayFails
    <3>2. ~Reconnects(h) /\ timer \in BOOLEAN
      BY <1>1, <3>1 DEF Reconnects, IsCurrent, StreamInv, TypeOK
    <3>3. timer' = timer
      BY <2>7, <3>2 DEF ReplayFails
    <3>4. QED
      BY <2>7, <3>3 DEF ReplayFails, channel
  <2>8. ASSUME NEW h \in Generations, CommitPage(h) \/ FinishReplay(h)
        PROVE  UNCHANGED <<channel, connection>>
    <3>1. h = generation
      BY <2>8 DEF CommitPage, FinishReplay, IsCurrent
    <3>2. \E r : replay' = [replay EXCEPT ![h] = r]
      BY <2>8 DEF CommitPage, FinishReplay
    <3>3. QED
      BY <1>1, <3>1, <3>2, OnlyReplay
  <2>9. QED
    BY <1>1, <2>2, <2>3, <2>4, <2>5, <2>6, <2>7, <2>8 DEF Next
<1>2. StreamInv /\ [Next]_vars =>
         [\A g \in Generations :
             g # generation /\ replay'[g] # replay[g] /\ generation' = generation
                => UNCHANGED <<channel, connection>>]_vars
  BY <1>1
<1>3. QED
  BY <1>2, StreamInvariant, PTL DEF Spec, OldReplayIgnored

\* For any limits, replay and stream skip nothing, the queue is bounded and a
\* running channel has exactly one way on.
THEOREM HandoverStaysSound == Spec => []HandoverSound
<1>1. NeverGap /\ QueueBounded /\ OneWayOn => HandoverSound
  BY DEF HandoverSound
<1>2. QED
  BY <1>1, HandoverHasNoGap, QueueStaysBounded, AlwaysOneWayOn, PTL
=============================================================================
