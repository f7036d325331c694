--------------------------- MODULE LifoRing_proofs ---------------------------
(***************************************************************************)
(* Proofs about LifoRing for every size of the ring and of an entry and    *)
(* every number of entries written.                                        *)
(***************************************************************************)
EXTENDS LifoRing, SequenceTheorems, TLAPS

Slots == 0 .. NUM - 1
Last == NUM - 1

(* The number of the first entry of a round of the ring, or that of none.  *)
IsTick(t) == t = -1 \/ (t \in Nat /\ t % NUM = 1)

(* Where the last ReadOn ended: at an entry of the first n, or nowhere.    *)
IsPosition(tick, index, n) ==
  \/ tick = -1 /\ index = -1
  \/ tick \in Nat /\ tick % NUM = 1 /\ index \in Slots /\ tick + index <= n

RingType ==
  /\ writePointer \in Int /\ tickWriteZero \in Int /\ oldTickWriteZero \in Int
  /\ buffers \in [Slots -> [1 .. Words -> Nat]]
  /\ written \in Nat
  /\ server \in [step : {"begin", "wrap", "entry"}, words : 0 .. Words]

ReaderType ==
  /\ indexOfRead \in Int /\ tickOfRead \in Int
  /\ pc \in {"idle", "pointer", "tick", "old", "copy", "checkTick", "checkOld", "done"}
  /\ call \in [len : Int, tick : Int, index : Int, keep : BOOLEAN]
  /\ org \in [pointer : Int, tick : Int, old : Int]
  /\ newest \in Int /\ readCount \in Int /\ copied \in Seq(Nat) /\ before \in Nat

TypeInv == RingType /\ ReaderType

(* The server has written the last slot and begun to write slot 0 again.   *)
RoundIsOver == server.step # "begin" /\ written = tickWriteZero + Last

(* The three words, from the number of the entries written.                *)
WordsInv ==
  /\ server.step = "begin" => server.words = 0
  /\ server.step = "wrap" => server.words = 0 /\ (written = 0 \/ RoundIsOver)
  /\ written = 0 =>
       /\ tickWriteZero = -1 /\ oldTickWriteZero = -1
       /\ writePointer = IF server.step = "entry" THEN 0 ELSE -1
  /\ written > 0 =>
       /\ tickWriteZero \in Nat /\ tickWriteZero % NUM = 1
       /\ tickWriteZero <= written /\ written <= tickWriteZero + Last
       /\ RoundIsOver =>
            /\ oldTickWriteZero = tickWriteZero
            /\ writePointer = IF server.step = "entry" THEN 0 ELSE Last
       /\ ~RoundIsOver =>
            /\ oldTickWriteZero = IF tickWriteZero = 1 THEN -1 ELSE tickWriteZero - NUM
            /\ writePointer = written - tickWriteZero

(* The slot that is written next.                                          *)
NextSlot ==
  IF written = 0 \/ written = tickWriteZero + Last THEN 0 ELSE (written - tickWriteZero) + 1

(* The entry in a slot, if it is not the one that is written next.         *)
EntryIn(s) == IF tickWriteZero + s <= written THEN tickWriteZero + s
                                              ELSE (tickWriteZero + s) - NUM

BuffersInv ==
  /\ \A w \in 1 .. server.words : buffers[NextSlot][w] = written + 1
  /\ written > 0 =>
       \A s \in Slots : s # NextSlot /\ EntryIn(s) > 0 =>
         \A w \in 1 .. Words : buffers[s][w] = EntryIn(s)

KeptInv ==
  /\ IsPosition(tickOfRead, indexOfRead, written)
  /\ pc # "idle" => call.len > 0
  /\ pc = "pointer" => IsPosition(call.tick, call.index, written)
  /\ pc \notin {"idle", "pointer"} =>
       before <= written /\ IsPosition(call.tick, call.index, before)

(* Before the words are all loaded: what the pointer and the tick that     *)
(* have been loaded say of the number of entries when the pass began.      *)
Loading == pc \in {"tick", "old"}

PointerInv ==
  Loading =>
    /\ copied = <<>>
    /\ org.pointer \in -1 .. Last
    /\ \/ org.pointer + tickWriteZero <= written
       \/ org.pointer + tickWriteZero >= before + NUM
    /\ org.pointer > 0 => tickWriteZero > 0

LoadedFrom(tick, old) ==
  /\ org.pointer > 0 => tick > 0 /\ org.pointer + tick >= before
  /\ org.pointer = 0 => \/ tick >= before
                        \/ old >= tick /\ (before = tick + Last \/ before = 0)
  /\ before <= tick + Last \/ before = 0
  /\ tick < 0 => before = 0

LoadedInv ==
  /\ pc = "tick" => LoadedFrom(tickWriteZero, oldTickWriteZero)
  /\ pc = "old" =>
       /\ LoadedFrom(org.tick, oldTickWriteZero)
       /\ IsTick(org.tick) /\ org.tick <= tickWriteZero /\ call.tick <= org.tick

(* The entry that the words loaded say is the newest.                      *)
NewestNumber == org.tick + newest

LastRead == Number(call.tick, call.index)

(* The words copied are those of the newest entries, and the entries to be *)
(* copied are all that are new, or as many as are asked for.               *)
WordsRight ==
  \A j \in 1 .. Len(copied) : copied[j] = NewestNumber - ((j - 1) \div Words)

CountRight ==
  /\ readCount <= NewestNumber - LastRead
  /\ readCount = MaxRead \/ readCount = NewestNumber - LastRead

CopiedRight == WordsRight /\ CountRight

Copying == pc \in {"copy", "checkTick", "checkOld", "done"}

CopyInv ==
  Copying =>
    /\ IsTick(org.tick) /\ org.tick <= tickWriteZero /\ call.tick <= org.tick
    /\ org.old <= oldTickWriteZero
    /\ newest = Newest(org) /\ newest \in Slots /\ org.pointer \in Slots
    /\ NotLapped =>
         /\ org.tick > 0 /\ before <= NewestNumber
         /\ readCount \in 0 .. MaxRead /\ Len(copied) <= readCount * Words

WhileCopying ==
  pc = "copy" =>
    /\ NewestNumber <= written \/ NewestNumber >= before + NUM
    /\ NotLapped /\ written = NewestNumber => CopiedRight

(* Once the pointer has been found the same: the tick or the old tick is   *)
(* going to differ, or all that was copied is right.                       *)
AfterCopying ==
  pc \in {"checkTick", "checkOld", "done"} =>
    \/ pc = "checkTick" /\ org.tick < tickWriteZero
    \/ pc \in {"checkTick", "checkOld"} /\ org.old < oldTickWriteZero
    \/ /\ org.tick > 0 /\ NewestNumber <= written
       /\ NotLapped => Len(copied) = readCount * Words /\ CopiedRight

IInv ==
  /\ TypeInv /\ WordsInv /\ BuffersInv /\ KeptInv
  /\ PointerInv /\ LoadedInv /\ CopyInv /\ WhileCopying /\ AfterCopying

-----------------------------------------------------------------------------
(* Quotients and remainders.                                               *)
(* A number is known by its quotient and its remainder.                    *)
LEMMA QuotientAndRemainder ==
  ASSUME NEW m \in Nat \ {0}, NEW a \in Nat
  PROVE  a = m * (a \div m) + (a % m) /\ a \div m \in Nat /\ a % m \in 0 .. m - 1
  OBVIOUS

LEMMA MultiplesAreSpaced ==
  ASSUME NEW m \in Nat \ {0}, NEW p \in Int, NEW q \in Int, p < q
  PROVE  m * p + m <= m * q
<1>1. m * (q - p - 1) >= 0
  OBVIOUS
<1>2. m * (q - p - 1) = m * q - m * p - m
  OBVIOUS
<1> QED BY <1>1, <1>2

LEMMA RemainderIsUnique ==
  ASSUME NEW m \in Nat \ {0}, NEW q \in Nat, NEW r \in 0 .. m - 1
  PROVE  (m * q + r) % m = r /\ (m * q + r) \div m = q
<1> DEFINE a == m * q + r
<1>1. a \in Nat
  OBVIOUS
<1>2. a = m * (a \div m) + (a % m) /\ a \div m \in Nat /\ a % m \in 0 .. m - 1
  BY <1>1, QuotientAndRemainder
<1>3. ~(a \div m < q)
  <2> SUFFICES ASSUME a \div m < q PROVE FALSE
    OBVIOUS
  <2>1. m * (a \div m) + m <= m * q
    BY <1>2, MultiplesAreSpaced
  <2> QED BY <1>2, <2>1
<1>4. ~(q < a \div m)
  <2> SUFFICES ASSUME q < a \div m PROVE FALSE
    OBVIOUS
  <2>1. m * q + m <= m * (a \div m)
    BY <1>2, MultiplesAreSpaced
  <2> QED BY <1>2, <2>1
<1>5. a \div m = q
  BY <1>2, <1>3, <1>4
<1> QED BY <1>2, <1>5

-----------------------------------------------------------------------------
(* The rounds of the ring.                                                 *)
LEMMA Sizes == /\ NUM \in Nat /\ NUM >= 2 /\ Words \in Nat /\ Words >= 1
               /\ Last \in Nat /\ Last >= 1 /\ Last + 1 = NUM
  BY SizesAssumption DEF Last

(* Ticks lie whole rounds apart.                                           *)
LEMMA TicksAreSpaced ==
  ASSUME NEW a \in Nat, NEW b \in Nat, a % NUM = 1, b % NUM = 1, a < b
  PROVE  a + NUM <= b
<1> DEFINE p == a \div NUM
           q == b \div NUM
<1>1. a = NUM * p + 1 /\ p \in Nat /\ b = NUM * q + 1 /\ q \in Nat
  BY Sizes, QuotientAndRemainder
<1>2. ~(q <= p)
  <2> HIDE DEF p, q
  <2> SUFFICES ASSUME q <= p PROVE FALSE
    OBVIOUS
  <2>1. CASE q = p
    BY <1>1, <2>1
  <2>2. CASE q < p
    <3>1. NUM * q + NUM <= NUM * p
      BY <1>1, <2>2, Sizes, MultiplesAreSpaced
    <3> QED BY <1>1, <3>1, Sizes
  <2> QED BY <1>1, <2>1, <2>2
<1>3. NUM * p + NUM <= NUM * q
  BY <1>1, <1>2, Sizes, MultiplesAreSpaced
<1> HIDE DEF p, q
<1> QED BY <1>1, <1>3, Sizes

(* The slots of a round, counted from its tick.                            *)
LEMMA SlotsOfARound ==
  ASSUME NEW a \in Nat, NEW k \in Slots, a % NUM = 1
  PROVE  (a + k) % NUM = IF k = Last THEN 0 ELSE k + 1
<1> DEFINE p == a \div NUM
<1>1. a = NUM * p + 1 /\ p \in Nat
  BY Sizes, QuotientAndRemainder
<1> HIDE DEF p
<1>2. CASE k = Last
  <2>1. a + k = NUM * (p + 1) + 0
    BY <1>1, <1>2, Sizes
  <2>2. (NUM * (p + 1) + 0) % NUM = 0
    BY <1>1, Sizes, RemainderIsUnique
  <2> QED BY <1>2, <2>1, <2>2
<1>3. CASE k # Last
  <2> DEFINE r == k + 1
  <2>1. a + k = NUM * p + r /\ r \in 0 .. NUM - 1
    BY <1>1, <1>3, Sizes DEF Slots
  <2> HIDE DEF r
  <2>2. (NUM * p + r) % NUM = r
    BY <1>1, <2>1, Sizes, RemainderIsUnique
  <2> QED BY <1>3, <2>1, <2>2 DEF r
<1> QED BY <1>2, <1>3

LEMMA NextTick ==
  ASSUME NEW a \in Nat, a % NUM = 1
  PROVE  (a + NUM) % NUM = 1 /\ 1 % NUM = 1
<1> DEFINE p == a \div NUM
<1>1. a = NUM * p + 1 /\ p \in Nat
  BY Sizes, QuotientAndRemainder
<1> HIDE DEF p
<1>2. a + NUM = NUM * (p + 1) + 1 /\ 1 = NUM * 0 + 1
  BY <1>1, Sizes
<1>3. (NUM * (p + 1) + 1) % NUM = 1 /\ (NUM * 0 + 1) % NUM = 1
  BY <1>1, Sizes, RemainderIsUnique
<1> QED BY <1>2, <1>3

(* The slot the server is about to write.                                  *)
LEMMA SlotIsNext ==
  ASSUME RingType, WordsInv
  PROVE  Slot = NextSlot /\ NextSlot \in Slots
<1>1. CASE written = 0
  <2>1. 0 % NUM = 0
    BY Sizes
  <2> QED BY <1>1, <2>1, Sizes DEF Slot, NextSlot, Slots
<1>2. CASE written > 0
  <2> DEFINE k == written - tickWriteZero
  <2>1. /\ tickWriteZero \in Nat /\ tickWriteZero % NUM = 1
        /\ k \in Slots /\ written = tickWriteZero + k
    BY <1>2, Sizes DEF RingType, WordsInv, Slots
  <2>2. (tickWriteZero + k) % NUM = IF k = Last THEN 0 ELSE k + 1
    BY <2>1, SlotsOfARound
  <2> HIDE DEF k
  <2>3. k = Last <=> written = tickWriteZero + Last
    BY <2>1, Sizes DEF Slots
  <2>4. written - tickWriteZero = k
    BY DEF k
  <2> QED BY <1>2, <2>1, <2>2, <2>3, <2>4, Sizes DEF Slot, NextSlot, Slots
<1> QED BY <1>1, <1>2 DEF RingType

(* A position in the ring is of a round that has begun.                    *)
LEMMA PositionsAreReached ==
  ASSUME RingType, WordsInv, NEW tick \in Int, NEW index \in Int,
         IsPosition(tick, index, written)
  PROVE  tick <= tickWriteZero
<1>1. CASE tick = -1
  BY <1>1 DEF WordsInv, RingType
<1>2. CASE tick # -1
  <2>1. tick \in Nat /\ tick % NUM = 1 /\ tick <= written /\ index \in Slots
    BY <1>2, Sizes DEF IsPosition, Slots, RingType
  <2>2. tick > 0
    <3>1. 0 % NUM = 0
      BY Sizes
    <3> QED BY <2>1, <3>1
  <2>3. written > 0
    BY <2>1, <2>2 DEF RingType
  <2>4. /\ tickWriteZero \in Nat /\ tickWriteZero % NUM = 1
        /\ written < tickWriteZero + NUM
    BY <2>3, Sizes DEF WordsInv, RingType
  <2>5. ~(tickWriteZero < tick)
    <3> SUFFICES ASSUME tickWriteZero < tick PROVE FALSE
      OBVIOUS
    <3>1. tickWriteZero + NUM <= tick
      BY <2>1, <2>4, TicksAreSpaced
    <3> QED BY <2>1, <2>4, <3>1, Sizes DEF RingType
  <2> QED BY <2>1, <2>4, <2>5
<1> QED BY <1>1, <1>2

(* What three words say that are those of the ring at one moment.          *)
LEMMA WordsSayWritten ==
  ASSUME RingType, WordsInv, NEW words,
         words.pointer = writePointer, words.tick = tickWriteZero,
         words.old = oldTickWriteZero, Newest(words) \in Slots
  PROVE  tickWriteZero > 0 /\ tickWriteZero + Newest(words) = written
<1>1. CASE written = 0
  <2>1. words.tick = -1 /\ words.old = -1 /\ words.pointer \in {-1, 0}
    BY <1>1 DEF WordsInv
  <2> QED BY <2>1 DEF Newest, Slots
<1>2. CASE written > 0 /\ RoundIsOver
  <2>1. /\ tickWriteZero \in Nat /\ tickWriteZero > 0 /\ words.old = words.tick
        /\ words.pointer \in {0, Last} /\ written = tickWriteZero + Last
    <3>1. 0 % NUM = 0
      BY Sizes
    <3> QED BY <1>2, <3>1 DEF WordsInv, RoundIsOver
  <2> QED BY <2>1, Sizes DEF Newest
<1>3. CASE written > 0 /\ ~RoundIsOver
  <2>1. /\ tickWriteZero \in Nat /\ tickWriteZero > 0
        /\ words.pointer = written - tickWriteZero /\ words.old # words.tick
    <3>1. 0 % NUM = 0
      BY Sizes
    <3> QED BY <1>3, <3>1, Sizes DEF WordsInv
  <2> QED BY <2>1 DEF Newest, RingType
<1> QED BY <1>1, <1>2, <1>3 DEF RingType

-----------------------------------------------------------------------------
(* The steps of the server.                                                *)

(* What the readers may rely on while the server goes on: entries and      *)
(* ticks become more, and a new tick is the number of the newest entry.    *)
RingGoesOn ==
  /\ written' \in {written, written + 1}
  /\ tickWriteZero <= tickWriteZero' /\ oldTickWriteZero <= oldTickWriteZero'
  /\ tickWriteZero' # tickWriteZero =>
       /\ tickWriteZero' = written' /\ written' = written + 1
       /\ tickWriteZero = -1 \/ tickWriteZero' = tickWriteZero + NUM

RingInv == WordsInv /\ BuffersInv

LEMMA TicksArePositive ==
  ASSUME NEW t \in Nat, t % NUM = 1
  PROVE  t > 0
<1>1. 0 % NUM = 0
  BY Sizes
<1> QED BY <1>1

LEMMA KeepTickKeepsRing ==
  ASSUME RingType, RingInv, KeepTick, UNCHANGED written
  PROVE  RingType' /\ RingInv' /\ RingGoesOn
<1>0. written = 0 \/ written = tickWriteZero + Last
  BY SlotIsNext, Sizes DEF KeepTick, NextSlot, RingInv, RingType, WordsInv
<1>1. /\ server.step = "begin" /\ server' = [step |-> "wrap", words |-> 0]
      /\ oldTickWriteZero' = tickWriteZero
      /\ UNCHANGED <<writePointer, tickWriteZero, buffers, written>>
  BY DEF KeepTick, RingInv, WordsInv, RingType
<1>2. WordsInv'
  <2>1. CASE written = 0
    BY <1>1, <2>1 DEF RingInv, WordsInv, RoundIsOver
  <2>2. CASE written > 0
    BY <1>0, <1>1, <2>2, Sizes DEF RingInv, WordsInv, RoundIsOver, RingType
  <2> QED BY <2>1, <2>2 DEF RingType
<1>3. BuffersInv'
  BY <1>1 DEF RingInv, BuffersInv, NextSlot, EntryIn
<1>4. RingGoesOn
  <2>1. oldTickWriteZero <= tickWriteZero
    BY <1>1, Sizes DEF RingInv, WordsInv, RingType, RoundIsOver
  <2> QED BY <1>1, <2>1 DEF RingGoesOn, RingType
<1>5. RingType'
  BY <1>1, Sizes DEF RingType
<1> QED BY <1>2, <1>3, <1>4, <1>5 DEF RingInv

LEMMA WrapKeepsRing ==
  ASSUME RingType, RingInv, Wrap, UNCHANGED written
  PROVE  RingType' /\ RingInv' /\ RingGoesOn
<1>1. /\ server.step = "wrap" /\ server' = [step |-> "entry", words |-> 0]
      /\ server.words = 0 /\ writePointer' = 0
      /\ UNCHANGED <<oldTickWriteZero, tickWriteZero, buffers, written>>
  BY DEF Wrap, RingInv, WordsInv, RingType
<1>2. WordsInv'
  <2>1. CASE written = 0
    BY <1>1, <2>1 DEF RingInv, WordsInv, RoundIsOver
  <2>2. CASE written > 0
    BY <1>1, <2>2 DEF RingInv, WordsInv, RoundIsOver, RingType
  <2> QED BY <2>1, <2>2 DEF RingType
<1>3. BuffersInv'
  BY <1>1 DEF RingInv, BuffersInv, NextSlot, EntryIn
<1>4. RingGoesOn
  BY <1>1 DEF RingGoesOn, RingType
<1>5. RingType'
  BY <1>1, Sizes DEF RingType
<1> QED BY <1>2, <1>3, <1>4, <1>5 DEF RingInv

LEMMA WriteWordKeepsRing ==
  ASSUME RingType, RingInv, WriteWord, UNCHANGED written
  PROVE  RingType' /\ RingInv' /\ RingGoesOn
<1> DEFINE v == server.words + 1
<1>1. /\ server' = [step |-> "entry", words |-> v] /\ v \in 1 .. Words
      /\ buffers' = [buffers EXCEPT ![NextSlot][v] = written + 1]
      /\ NextSlot \in Slots /\ written \in Nat
      /\ UNCHANGED <<writePointer, oldTickWriteZero, tickWriteZero, written>>
  <2>1. Slot = NextSlot /\ NextSlot \in Slots
    BY SlotIsNext DEF RingInv
  <2>2. server.words \in 0 .. Words
    BY DEF RingType
  <2> QED BY <2>1, <2>2, Sizes DEF WriteWord, RingType
<1>2. \/ server.step = "entry"
      \/ server.step = "begin" /\ written > 0 /\ written # tickWriteZero + Last
  BY SlotIsNext DEF WriteWord, RingInv, RingType, NextSlot
<1>3. server.words = v - 1 /\ v \in Nat
  BY DEF RingType
<1> HIDE DEF v
<1>4. buffers' \in [Slots -> [1 .. Words -> Nat]]
  <2>1. written + 1 \in Nat
    BY <1>1
  <2> QED BY <1>1, <2>1 DEF RingType
<1>5. WordsInv'
  <2>1. RoundIsOver' <=> RoundIsOver
    BY <1>1, <1>2 DEF RoundIsOver
  <2> QED BY <1>1, <1>2, <2>1 DEF RingInv, WordsInv, RoundIsOver
<1>6. BuffersInv'
  <2>1. NextSlot' = NextSlot /\ \A s \in Slots : EntryIn(s)' = EntryIn(s)
    BY <1>1 DEF NextSlot, EntryIn
  <2>2. ASSUME NEW w \in 1 .. v PROVE buffers'[NextSlot][w] = written + 1
    <3>1. w \in 1 .. Words
      BY <1>1, Sizes
    <3>2. CASE w = v
      BY <1>1, <3>2 DEF RingType
    <3>3. CASE w # v
      <4>1. w \in 1 .. server.words
        BY <1>3, <3>3
      <4> QED BY <1>1, <3>1, <3>3, <4>1 DEF RingInv, BuffersInv, RingType
    <3> QED BY <3>2, <3>3
  <2>3. \A s \in Slots : s # NextSlot => buffers'[s] = buffers[s]
    BY <1>1 DEF RingType
  <2> QED BY <1>1, <2>1, <2>2, <2>3 DEF RingInv, BuffersInv
<1>7. RingGoesOn
  BY <1>1 DEF RingGoesOn, RingType
<1>8. RingType'
  BY <1>1, <1>4 DEF RingType
<1> QED BY <1>5, <1>6, <1>7, <1>8 DEF RingInv

LEMMA PublishKeepsRing ==
  ASSUME RingType, RingInv, Publish, written' = written + 1
  PROVE  RingType' /\ RingInv' /\ RingGoesOn
<1>1. Slot = NextSlot /\ NextSlot \in Slots
  BY SlotIsNext DEF RingInv
<1>2. /\ server.step = "entry" /\ server.words = Words
      /\ server' = [step |-> "begin", words |-> 0]
      /\ UNCHANGED <<oldTickWriteZero, buffers>>
  BY Sizes DEF Publish, RingInv, WordsInv, RingType
<1>3. \A w \in 1 .. Words : buffers[NextSlot][w] = written + 1
  BY <1>2 DEF RingInv, BuffersInv
<1>4. CASE written = 0
  <2>1. /\ tickWriteZero' = 1 /\ written' = 1 /\ writePointer' = 0 /\ oldTickWriteZero = -1
        /\ NextSlot = 0 /\ tickWriteZero = -1
    BY <1>1, <1>2, <1>4 DEF Publish, RingInv, WordsInv, NextSlot
  <2>2. WordsInv'
    <3>1. 1 % NUM = 1
      BY Sizes
    <3> QED BY <1>2, <2>1, <3>1, Sizes DEF WordsInv, RoundIsOver
  <2>3. BuffersInv'
    <3>1. NextSlot' = 1
      BY <2>1, Sizes DEF NextSlot
    <3>2. ASSUME NEW s \in Slots, s # 1, EntryIn(s)' > 0
          PROVE  s = 0 /\ EntryIn(s)' = 1
      BY <2>1, <3>2, Sizes DEF EntryIn, Slots
    <3>3. \A w \in 1 .. Words : buffers'[0][w] = 1
      BY <1>2, <1>3, <1>4, <2>1
    <3> QED BY <1>2, <3>1, <3>2, <3>3 DEF BuffersInv
  <2> QED BY <1>2, <1>4, <2>1, <2>2, <2>3, Sizes DEF RingInv, RingType, RingGoesOn
<1>5. CASE written > 0 /\ written = tickWriteZero + Last
  <2>1. /\ tickWriteZero' = tickWriteZero + NUM /\ written' = tickWriteZero + NUM
        /\ writePointer' = 0 /\ oldTickWriteZero = tickWriteZero /\ NextSlot = 0
        /\ tickWriteZero \in Nat /\ tickWriteZero % NUM = 1 /\ tickWriteZero > 0
    <3>1. /\ tickWriteZero \in Nat /\ tickWriteZero % NUM = 1 /\ RoundIsOver /\ NextSlot = 0
          /\ writePointer = 0 /\ oldTickWriteZero = tickWriteZero
      BY <1>2, <1>5 DEF RingInv, WordsInv, NextSlot, RoundIsOver
    <3>2. tickWriteZero > 0
      BY <3>1, TicksArePositive
    <3> QED BY <1>1, <1>5, <3>1, <3>2, Sizes DEF Publish
  <2>2. WordsInv'
    <3>1. (tickWriteZero + NUM) % NUM = 1
      BY <2>1, NextTick
    <3> QED BY <1>2, <2>1, <3>1, Sizes DEF WordsInv, RoundIsOver
  <2>3. BuffersInv'
    <3>1. NextSlot' = 1
      BY <2>1, Sizes DEF NextSlot
    <3>2. ASSUME NEW s \in Slots, s # 1, s # 0
          PROVE  EntryIn(s)' = EntryIn(s)
      BY <1>5, <2>1, <3>2, Sizes DEF EntryIn, Slots
    <3>3. EntryIn(0)' = written + 1 /\ \A w \in 1 .. Words : buffers'[0][w] = written + 1
      BY <1>2, <1>3, <1>5, <2>1, Sizes DEF EntryIn
    <3> QED BY <1>2, <1>5, <2>1, <3>1, <3>2, <3>3 DEF BuffersInv, RingInv
  <2> QED BY <1>2, <1>5, <2>1, <2>2, <2>3, Sizes DEF RingInv, RingType, RingGoesOn
<1>6. CASE written > 0 /\ written # tickWriteZero + Last
  <2>1. /\ UNCHANGED tickWriteZero /\ writePointer' = (written - tickWriteZero) + 1
        /\ NextSlot = (written - tickWriteZero) + 1 /\ ~RoundIsOver
        /\ tickWriteZero \in Nat /\ tickWriteZero <= written
        /\ written < tickWriteZero + Last
    <3>1. /\ tickWriteZero \in Nat /\ tickWriteZero <= written
          /\ written <= tickWriteZero + Last
      BY <1>6 DEF RingInv, WordsInv
    <3>2. NextSlot = (written - tickWriteZero) + 1 /\ NextSlot # 0 /\ ~RoundIsOver
      BY <1>6, <3>1 DEF NextSlot, RoundIsOver, RingType
    <3> QED BY <1>1, <1>6, <3>1, <3>2, Sizes DEF Publish, RingType
  <2>2. WordsInv'
    BY <1>2, <1>6, <2>1, Sizes DEF RingInv, WordsInv, RoundIsOver, RingType
  <2>3. BuffersInv'
    <3> SUFFICES ASSUME NEW s \in Slots, s # NextSlot', EntryIn(s)' > 0, NEW w \in 1 .. Words
                 PROVE  buffers'[s][w] = EntryIn(s)'
      BY <1>2 DEF BuffersInv
    <3>1. CASE s = NextSlot
      <4>1. EntryIn(s)' = written + 1
        BY <2>1, <3>1 DEF EntryIn, RingType
      <4> QED BY <1>2, <1>3, <3>1, <4>1
    <3>2. CASE s # NextSlot
      <4>1. EntryIn(s)' = EntryIn(s)
        BY <2>1, <3>2 DEF EntryIn, RingType, Slots
      <4> QED BY <1>2, <1>6, <3>2, <4>1 DEF RingInv, BuffersInv
    <3> QED BY <3>1, <3>2
  <2> QED BY <1>1, <1>2, <1>6, <2>1, <2>2, <2>3, Sizes DEF RingInv, RingType, RingGoesOn
<1> QED BY <1>4, <1>5, <1>6 DEF RingType

LEMMA ServerKeepsRing ==
  ASSUME RingType, RingInv, Server
  PROVE  RingType' /\ RingInv' /\ RingGoesOn
<1>1. CASE (KeepTick \/ Wrap \/ WriteWord) /\ UNCHANGED written
  BY <1>1, KeepTickKeepsRing, WrapKeepsRing, WriteWordKeepsRing
<1>2. CASE Publish /\ written' = written + 1
  BY <1>2, PublishKeepsRing
<1> QED BY <1>1, <1>2 DEF Server

(* An entry more leaves the readers what they rely on.                     *)
LEMMA ServerKeepsIInv ==
  ASSUME IInv, Server
  PROVE  IInv'
<1>1. RingType' /\ RingInv' /\ RingGoesOn
  BY ServerKeepsRing DEF IInv, TypeInv, RingInv
<1>2. /\ indexOfRead' = indexOfRead /\ tickOfRead' = tickOfRead /\ pc' = pc /\ call' = call
      /\ org' = org /\ newest' = newest /\ readCount' = readCount /\ copied' = copied
      /\ before' = before
  BY DEF Server, kept, locals
<1>3. TypeInv'
  BY <1>1, <1>2 DEF IInv, TypeInv, ReaderType
<1>4. /\ written \in Nat /\ written' \in Nat /\ written <= written' /\ written' <= written + 1
      /\ tickWriteZero \in Int /\ tickWriteZero' \in Int /\ tickWriteZero <= tickWriteZero'
      /\ oldTickWriteZero \in Int /\ oldTickWriteZero' \in Int
      /\ oldTickWriteZero <= oldTickWriteZero'
      /\ tickWriteZero' # tickWriteZero =>
           /\ tickWriteZero' = written' /\ written' = written + 1
           /\ tickWriteZero = -1 \/ tickWriteZero' = tickWriteZero + NUM
  BY <1>1 DEF IInv, TypeInv, RingType, RingGoesOn
<1>5. /\ before \in Nat /\ newest \in Int /\ readCount \in Int
      /\ org.pointer \in Int /\ org.tick \in Int /\ org.old \in Int
      /\ call.tick \in Int /\ call.index \in Int
  BY DEF IInv, TypeInv, ReaderType
<1>6. NotLapped' => NotLapped
  <2>1. NotLapped' <=> written' - before < NUM
    BY <1>2 DEF NotLapped
  <2>2. ASSUME NEW m \in Nat, NEW n \in Nat, NEW b \in Nat, m <= n, n - b < NUM
        PROVE  m - b < NUM
    BY <2>2, Sizes
  <2> QED BY <1>4, <1>5, <2>1, <2>2 DEF NotLapped
<1>7. KeptInv'
  <2>1. ASSUME NEW t \in Int, NEW i \in Int, IsPosition(t, i, written)
        PROVE  IsPosition(t, i, written')
    BY <1>4, <2>1 DEF IsPosition, Slots
  <2>2. IsPosition(tickOfRead, indexOfRead, written')
    BY <2>1 DEF IInv, KeptInv, TypeInv, ReaderType
  <2>3. pc = "pointer" => IsPosition(call.tick, call.index, written')
    BY <1>5, <2>1 DEF IInv, KeptInv
  <2>4. pc \notin {"idle", "pointer"} => before <= written'
    BY <1>4, <1>5 DEF IInv, KeptInv
  <2> QED BY <1>2, <2>2, <2>3, <2>4 DEF IInv, KeptInv, IsPosition
<1>8. PointerInv'
  <2> SUFFICES ASSUME Loading
               PROVE  /\ \/ org.pointer + tickWriteZero' <= written'
                         \/ org.pointer + tickWriteZero' >= before + NUM
                      /\ org.pointer > 0 => tickWriteZero' > 0
    BY <1>2 DEF PointerInv, IInv, Loading
  <2>1. org.pointer > 0 => tickWriteZero > 0 /\ org.pointer + tickWriteZero >= before
    BY <1>4, <1>5 DEF IInv, PointerInv, LoadedInv, LoadedFrom, Loading
  <2>2. CASE tickWriteZero' = tickWriteZero
    BY <1>4, <1>5, <2>1, <2>2 DEF IInv, PointerInv
  <2>3. CASE tickWriteZero' # tickWriteZero
    BY <1>4, <1>5, <2>1, <2>3, Sizes DEF IInv, PointerInv
  <2> QED BY <2>2, <2>3
<1>9. LoadedInv'
  <2>1. pc = "tick" => LoadedFrom(tickWriteZero', oldTickWriteZero')
    <3> SUFFICES ASSUME pc = "tick" PROVE LoadedFrom(tickWriteZero', oldTickWriteZero')
      OBVIOUS
    <3>1. LoadedFrom(tickWriteZero, oldTickWriteZero) /\ before <= written
      BY DEF IInv, LoadedInv, KeptInv
    <3>2. CASE tickWriteZero' = tickWriteZero
      BY <1>4, <1>5, <3>1, <3>2 DEF LoadedFrom
    <3>3. CASE tickWriteZero' # tickWriteZero
      BY <1>4, <1>5, <3>1, <3>3, Sizes DEF LoadedFrom
    <3> QED BY <3>2, <3>3
  <2>2. pc = "old" => /\ LoadedFrom(org.tick, oldTickWriteZero')
                      /\ org.tick <= tickWriteZero'
    BY <1>4, <1>5, Sizes DEF IInv, LoadedInv, LoadedFrom
  <2> QED BY <1>2, <2>1, <2>2 DEF IInv, LoadedInv, LoadedFrom
<1>10. CopyInv'
  <2>1. Copying => org.tick <= tickWriteZero' /\ org.old <= oldTickWriteZero'
    BY <1>4, <1>5 DEF IInv, CopyInv
  <2> QED BY <1>2, <1>6, <2>1
          DEF IInv, CopyInv, Copying, NewestNumber, MaxRead
<1>11. WhileCopying'
  <2>1. NewestNumber \in Int /\ NewestNumber' = NewestNumber /\ (CopiedRight <=> CopiedRight')
    BY <1>2, <1>5 DEF NewestNumber, CopiedRight, WordsRight, CountRight, LastRead, MaxRead
  <2>2. ASSUME pc = "copy"
        PROVE  NewestNumber <= written' \/ NewestNumber >= before + NUM
    BY <1>4, <1>5, <2>1, <2>2, Sizes DEF IInv, WhileCopying
  <2>3. ASSUME pc = "copy", NotLapped', written' = NewestNumber
        PROVE  CopiedRight
    <3>1. written' - before < NUM
      BY <1>2, <2>3 DEF NotLapped
    <3>2. NewestNumber <= written
      BY <1>4, <1>5, <2>1, <2>3, <3>1, Sizes DEF IInv, WhileCopying
    <3> QED BY <1>4, <1>6, <2>1, <2>3, <3>2 DEF IInv, WhileCopying
  <2> QED BY <1>2, <2>1, <2>2, <2>3 DEF WhileCopying
<1>12. AfterCopying'
  <2>1. NewestNumber \in Int /\ NewestNumber' = NewestNumber /\ (CopiedRight <=> CopiedRight')
    BY <1>2, <1>5 DEF NewestNumber, CopiedRight, WordsRight, CountRight, LastRead, MaxRead
  <2>2. /\ org.tick < tickWriteZero => org.tick < tickWriteZero'
        /\ org.old < oldTickWriteZero => org.old < oldTickWriteZero'
        /\ NewestNumber <= written => NewestNumber <= written'
    BY <1>4, <1>5, <2>1
  <2> QED BY <1>2, <1>6, <2>1, <2>2 DEF IInv, AfterCopying
<1> QED BY <1>1, <1>3, <1>7, <1>8, <1>9, <1>10, <1>11, <1>12 DEF IInv, RingInv

-----------------------------------------------------------------------------
(* The steps of a reader.  None of them writes the ring.                   *)
LEMMA ReaderKeepsRing ==
  ASSUME IInv, UNCHANGED <<ring, written, server>>
  PROVE  RingType' /\ RingInv'
<1>1. /\ writePointer' = writePointer /\ tickWriteZero' = tickWriteZero
      /\ oldTickWriteZero' = oldTickWriteZero /\ buffers' = buffers
      /\ written' = written /\ server' = server
  BY DEF ring
<1>2. RingType'
  BY <1>1 DEF IInv, TypeInv, RingType
<1>3. WordsInv'
  BY <1>1 DEF IInv, WordsInv, RoundIsOver
<1>4. BuffersInv'
  BY <1>1 DEF IInv, BuffersInv, NextSlot, EntryIn
<1> QED BY <1>2, <1>3, <1>4 DEF RingInv

(* A position that was reached stays reached.                              *)
LEMMA PositionsStay ==
  ASSUME NEW t \in Int, NEW i \in Int, NEW m \in Nat, NEW n \in Nat, m <= n,
         IsPosition(t, i, m)
  PROVE  IsPosition(t, i, n)
  BY DEF IsPosition, Slots

(* ReadOn and ReadNewest.                                                  *)
LEMMA CallsKeepIInv ==
  ASSUME IInv, ReadOn \/ ReadNewest
  PROVE  IInv'
<1>1. PICK len \in Int, tick \in Int, index \in Int, keep \in BOOLEAN :
         Call(len, tick, index, keep) /\ IsPosition(tick, index, written)
  <2>1. CASE ReadOn
    <3>1. PICK len \in Lengths : Call(len, tickOfRead, indexOfRead, TRUE)
      BY <2>1 DEF ReadOn
    <3>2. /\ len \in Int /\ tickOfRead \in Int /\ indexOfRead \in Int /\ TRUE \in BOOLEAN
          /\ IsPosition(tickOfRead, indexOfRead, written)
      BY SizesAssumption DEF IInv, TypeInv, ReaderType, KeptInv
    <3> QED BY <3>1, <3>2, Zenon
  <2>2. CASE ReadNewest
    <3>1. /\ 1 \in Int /\ -1 \in Int /\ FALSE \in BOOLEAN /\ IsPosition(-1, -1, written)
      BY DEF IsPosition
    <3>2. Call(1, -1, -1, FALSE)
      BY <2>2 DEF ReadNewest
    <3> QED BY <3>1, <3>2, Zenon
  <2> QED BY <2>1, <2>2
<1>2. RingType' /\ RingInv'
  BY <1>1, ReaderKeepsRing DEF Call
<1>3. /\ call' = [len |-> len, tick |-> tick, index |-> index, keep |-> keep]
      /\ pc' = IF len <= 0 THEN "idle" ELSE "pointer"
      /\ readCount' = 0
      /\ UNCHANGED <<written, indexOfRead, tickOfRead, org, newest, copied, before>>
  BY <1>1 DEF Call, kept
<1>4. TypeInv'
  BY <1>2, <1>3 DEF IInv, TypeInv, ReaderType
<1>5. KeptInv'
  BY <1>1, <1>3 DEF IInv, KeptInv, IsPosition
<1>6. PointerInv' /\ LoadedInv' /\ CopyInv' /\ WhileCopying' /\ AfterCopying'
  BY <1>3 DEF PointerInv, Loading, LoadedInv, CopyInv, Copying, WhileCopying, AfterCopying
<1> QED BY <1>2, <1>4, <1>5, <1>6 DEF IInv, RingInv

(* What the pointer and the ticks say of the number of entries now.        *)
LEMMA WordsNow ==
  ASSUME RingType, WordsInv
  PROVE  /\ writePointer \in -1 .. Last
         /\ writePointer + tickWriteZero <= written
         /\ writePointer > 0 => tickWriteZero > 0 /\ writePointer + tickWriteZero >= written
         /\ writePointer = 0 =>
              \/ tickWriteZero >= written
              \/ /\ oldTickWriteZero >= tickWriteZero
                 /\ written = tickWriteZero + Last \/ written = 0
         /\ written <= tickWriteZero + Last \/ written = 0
         /\ tickWriteZero < 0 => written = 0
         /\ IsTick(tickWriteZero)
<1>1. CASE written = 0
  BY <1>1, Sizes DEF WordsInv, RingType, IsTick
<1>2. CASE written > 0
  <2>1. /\ tickWriteZero \in Nat /\ tickWriteZero > 0 /\ IsTick(tickWriteZero)
        /\ tickWriteZero <= written /\ written <= tickWriteZero + Last
    BY <1>2, TicksArePositive DEF WordsInv, IsTick
  <2>2. CASE RoundIsOver
    BY <1>2, <2>1, <2>2, Sizes DEF WordsInv, RingType, RoundIsOver
  <2>3. CASE ~RoundIsOver
    BY <1>2, <2>1, <2>3, Sizes DEF WordsInv, RingType
  <2> QED BY <2>2, <2>3
<1> QED BY <1>1, <1>2 DEF RingType

LEMMA LoadPointerKeepsIInv ==
  ASSUME IInv, LoadPointer
  PROVE  IInv'
<1>1. RingType' /\ RingInv'
  BY ReaderKeepsRing DEF LoadPointer
<1>2. /\ pc = "pointer" /\ pc' = "tick" /\ copied' = <<>> /\ before' = written
      /\ org' = [pointer |-> writePointer, tick |-> -1, old |-> -1]
      /\ UNCHANGED <<writePointer, tickWriteZero, oldTickWriteZero, written,
                     indexOfRead, tickOfRead, call, newest, readCount>>
  BY DEF LoadPointer, kept, ring, NoWords
<1>3. TypeInv'
  BY <1>1, <1>2 DEF IInv, TypeInv, RingType, ReaderType
<1>4. KeptInv'
  BY <1>2 DEF IInv, KeptInv, TypeInv, RingType, IsPosition
<1>5. PointerInv' /\ LoadedInv'
  <2>1. RingType /\ WordsInv
    BY DEF IInv, TypeInv
  <2>2. org'.pointer = writePointer
    BY <1>2
  <2> QED BY <1>2, <2>1, <2>2, WordsNow
          DEF PointerInv, Loading, LoadedInv, LoadedFrom
<1>6. CopyInv' /\ WhileCopying' /\ AfterCopying'
  BY <1>2 DEF CopyInv, Copying, WhileCopying, AfterCopying
<1> QED BY <1>1, <1>3, <1>4, <1>5, <1>6 DEF IInv, RingInv

LEMMA LoadTickKeepsIInv ==
  ASSUME IInv, LoadTick
  PROVE  IInv'
<1>1. RingType' /\ RingInv'
  BY ReaderKeepsRing DEF LoadTick
<1>2. /\ pc = "tick" /\ pc' = "old"
      /\ org' = [pointer |-> org.pointer, tick |-> tickWriteZero, old |-> org.old]
      /\ UNCHANGED <<writePointer, tickWriteZero, oldTickWriteZero, written,
                     indexOfRead, tickOfRead, call, newest, readCount, copied, before>>
  BY DEF LoadTick, kept, ring, IInv, TypeInv, ReaderType
<1>3. TypeInv'
  BY <1>1, <1>2 DEF IInv, TypeInv, RingType, ReaderType
<1>4. KeptInv'
  BY <1>2 DEF IInv, KeptInv, IsPosition
<1>5. org'.pointer = org.pointer /\ org'.tick = tickWriteZero
  BY <1>2
<1>6. PointerInv'
  BY <1>2, <1>5 DEF IInv, PointerInv, Loading
<1>7. LoadedInv'
  <2>1. LoadedFrom(tickWriteZero, oldTickWriteZero)
    BY <1>2 DEF IInv, LoadedInv
  <2>2. IsTick(tickWriteZero) /\ tickWriteZero <= tickWriteZero
    BY WordsNow DEF IInv, TypeInv, RingType
  <2>3. call.tick <= tickWriteZero
    <3>1. IsPosition(call.tick, call.index, written)
      BY <1>2, PositionsStay DEF IInv, KeptInv, TypeInv, RingType, ReaderType
    <3> QED BY <3>1, PositionsAreReached DEF IInv, TypeInv, ReaderType
  <2> QED BY <1>2, <1>5, <2>1, <2>2, <2>3 DEF LoadedInv, LoadedFrom
<1>8. CopyInv' /\ WhileCopying' /\ AfterCopying'
  BY <1>2 DEF CopyInv, Copying, WhileCopying, AfterCopying
<1> QED BY <1>1, <1>3, <1>4, <1>6, <1>7, <1>8 DEF IInv, RingInv

LEMMA MinOf ==
  ASSUME NEW a \in Int, NEW b \in Int
  PROVE  Min({a, b}) = IF a <= b THEN a ELSE b
  BY DEF Min

LEMMA PreviousTick ==
  ASSUME NEW a \in Nat, a % NUM = 1, NUM <= a
  PROVE  a - NUM \in Nat /\ (a - NUM) % NUM = 1
<1> DEFINE p == a \div NUM
<1>1. a = NUM * p + 1 /\ p \in Nat
  BY Sizes, QuotientAndRemainder
<1> HIDE DEF p
<1>2. p # 0
  BY <1>1, Sizes
<1>3. p - 1 \in Nat /\ a - NUM = NUM * (p - 1) + 1
  BY <1>1, <1>2, Sizes
<1>4. (NUM * (p - 1) + 1) % NUM = 1
  BY <1>3, Sizes, RemainderIsUnique
<1> QED BY <1>3, <1>4, Sizes

(* The old tick is that of the round before, or that of the round which is *)
(* over.                                                                   *)
LEMMA OldNow ==
  ASSUME RingType, WordsInv
  PROVE  /\ tickWriteZero <= written
         /\ \/ oldTickWriteZero = -1 /\ tickWriteZero <= 1
            \/ /\ oldTickWriteZero \in Nat /\ oldTickWriteZero % NUM = 1
               /\ oldTickWriteZero > 0 /\ oldTickWriteZero + Last <= written
               /\ \/ tickWriteZero = oldTickWriteZero
                  \/ tickWriteZero = oldTickWriteZero + NUM
<1>1. CASE written = 0
  BY <1>1 DEF WordsInv
<1>2. CASE written > 0
  <2>1. /\ tickWriteZero \in Nat /\ tickWriteZero > 0 /\ tickWriteZero % NUM = 1
        /\ tickWriteZero <= written
    BY <1>2, TicksArePositive DEF WordsInv
  <2>2. CASE RoundIsOver
    BY <1>2, <2>1, <2>2 DEF WordsInv, RoundIsOver
  <2>3. CASE ~RoundIsOver /\ tickWriteZero = 1
    BY <1>2, <2>1, <2>3 DEF WordsInv
  <2>4. CASE ~RoundIsOver /\ tickWriteZero # 1
    <3>1. 1 + NUM <= tickWriteZero
      BY <2>1, <2>4, NextTick, TicksAreSpaced
    <3>2. oldTickWriteZero = tickWriteZero - NUM
      BY <1>2, <2>4 DEF WordsInv
    <3>3. tickWriteZero - NUM \in Nat /\ (tickWriteZero - NUM) % NUM = 1
      BY <2>1, <3>1, Sizes, PreviousTick
    <3> QED BY <2>1, <3>1, <3>2, <3>3, Sizes DEF RingType
  <2> QED BY <2>2, <2>3, <2>4
<1> QED BY <1>1, <1>2 DEF RingType

(* The three words loaded one after the other: the entry they say is the   *)
(* newest has been written, or is out of reach until the server has gone   *)
(* round the ring, and none that was there when the pass began is newer.   *)
LEMMA LoadedWords ==
  ASSUME IInv, pc = "old", NEW p,
         p = Newest([org EXCEPT !.old = oldTickWriteZero]), ~(p < 0)
  PROVE  /\ p \in Slots /\ org.pointer \in Slots
         /\ org.tick + p <= written \/ org.tick + p >= before + NUM
         /\ NotLapped => /\ org.tick > 0 /\ before <= org.tick + p
                         /\ written = org.tick + p => tickWriteZero = org.tick
<1> DEFINE t == org.tick
           o == oldTickWriteZero
<1>1. /\ t \in Int /\ o \in Int /\ org.pointer \in Int /\ written \in Nat /\ before \in Nat
      /\ tickWriteZero \in Int
  BY DEF IInv, TypeInv, RingType, ReaderType
<1>2. /\ tickWriteZero <= written
      /\ \/ o = -1 /\ tickWriteZero <= 1
         \/ o \in Nat /\ o % NUM = 1 /\ o > 0 /\ o + Last <= written
  BY OldNow DEF IInv, TypeInv
<1>3. /\ org.pointer \in -1 .. Last
      /\ \/ org.pointer + tickWriteZero <= written
         \/ org.pointer + tickWriteZero >= before + NUM
      /\ org.pointer > 0 => t > 0 /\ org.pointer + t >= before
      /\ org.pointer = 0 => t >= before \/ (o >= t /\ (before = t + Last \/ before = 0))
      /\ before <= t + Last \/ before = 0
      /\ t < 0 => before = 0
      /\ IsTick(t) /\ t <= tickWriteZero
  BY DEF IInv, PointerInv, Loading, LoadedInv, LoadedFrom
<1>4. IsTick(tickWriteZero)
  BY WordsNow DEF IInv, TypeInv
<1>5. p = IF org.pointer = 0 /\ t = o THEN IF t < 0 THEN -1 ELSE Last ELSE org.pointer
  BY DEF Newest, Last, IInv, TypeInv, ReaderType
<1>6. t = -1 \/ (t \in Nat /\ t > 0 /\ t % NUM = 1)
  BY <1>3, TicksArePositive DEF IsTick
<1>7. t < tickWriteZero => t = -1 \/ t + NUM <= tickWriteZero
  BY <1>1, <1>4, <1>6, TicksAreSpaced DEF IsTick
<1>8. t < o => t = -1 \/ t + NUM <= o
  BY <1>1, <1>2, <1>6, TicksAreSpaced
<1>9. NotLapped <=> written - before < NUM
  BY DEF NotLapped
<1> HIDE DEF t, o
<1>10. p \in Slots /\ org.pointer \in Slots
  BY <1>1, <1>3, <1>5, Sizes DEF Slots
<1>11. t + p <= written \/ t + p >= before + NUM
  <2>1. CASE org.pointer = 0 /\ t = o
    BY <1>1, <1>2, <1>5, <2>1, Sizes
  <2>2. CASE ~(org.pointer = 0 /\ t = o)
    <3>1. p = org.pointer /\ p <= Last
      BY <1>3, <1>5, <2>2
    <3>2. CASE t = tickWriteZero
      BY <1>1, <1>3, <3>1, <3>2
    <3>3. CASE t = -1
      BY <1>1, <1>3, <3>1, <3>3
    <3>4. CASE t + NUM <= tickWriteZero
      BY <1>1, <1>2, <3>1, <3>4, Sizes
    <3> QED BY <1>1, <1>3, <1>7, <3>2, <3>3, <3>4
  <2> QED BY <2>1, <2>2
<1>12. NotLapped => t > 0 /\ before <= t + p
  <2> SUFFICES ASSUME written - before < NUM PROVE t > 0 /\ before <= t + p
    BY <1>9
  <2>1. CASE org.pointer = 0 /\ t = o
    BY <1>1, <1>3, <1>5, <1>6, <2>1, Sizes
  <2>2. CASE org.pointer = 0 /\ t # o
    <3>1. p = 0
      BY <1>5, <2>2
    <3>2. CASE t >= before
      BY <1>1, <1>6, <3>1, <3>2
    <3>3. CASE o > t /\ (before = t + Last \/ before = 0)
      BY <1>1, <1>2, <1>3, <1>6, <1>8, <3>1, <3>3, Sizes
    <3> QED BY <1>1, <1>3, <2>2, <3>2, <3>3
  <2>3. CASE org.pointer > 0
    BY <1>1, <1>3, <1>5, <2>3
  <2> QED BY <1>1, <1>10, <2>1, <2>2, <2>3 DEF Slots
<1>13. NotLapped /\ written = t + p => tickWriteZero = t
  <2> SUFFICES ASSUME t > 0, written = t + p, tickWriteZero # t PROVE FALSE
    BY <1>12
  <2>1. t + NUM <= tickWriteZero
    BY <1>1, <1>3, <1>7
  <2> QED BY <1>1, <1>2, <1>10, <2>1, Sizes DEF Slots
<1> QED BY <1>10, <1>11, <1>12, <1>13 DEF t

LEMMA MaxReadIsInRing ==
  ASSUME ReaderType, call.len > 0
  PROVE  MaxRead \in 1 .. Last
<1>1. call.len \in Int
  BY DEF ReaderType
<1>2. Last \in Int /\ Last = NUM - 1
  BY Sizes
<1>3. Min({call.len, Last}) = IF call.len <= Last THEN call.len ELSE Last
  BY <1>1, <1>2, MinOf
<1> QED BY <1>1, <1>2, <1>3, Sizes DEF MaxRead

(* The entries that are new, when those words are the ring's: all of them, *)
(* or as many as are asked for, and never fewer than none.                 *)
LEMMA EntriesAreCounted ==
  ASSUME IInv, pc = "old", NotLapped, NEW p \in Slots,
         NEW words, words.tick = org.tick, words.old = oldTickWriteZero,
         org.tick > 0, before <= org.tick + p,
         written = org.tick + p => tickWriteZero = org.tick,
         NEW r, r = Min({MaxRead, Count(words, p)})
  PROVE  /\ r \in 0 .. MaxRead /\ MaxRead \in 1 .. Last
         /\ written = org.tick + p =>
              /\ r <= (org.tick + p) - LastRead
              /\ r = MaxRead \/ r = (org.tick + p) - LastRead
<1> DEFINE t == org.tick
           o == oldTickWriteZero
           k == call.tick
           i == call.index
           c == Count(words, p)
<1>1. /\ t \in Int /\ o \in Int /\ k \in Int /\ i \in Int /\ written \in Nat /\ before \in Nat
      /\ tickWriteZero \in Int /\ p \in Int /\ 0 <= p /\ p <= Last
  BY Sizes DEF IInv, TypeInv, RingType, ReaderType, Slots
<1>2. \/ o = -1 /\ tickWriteZero <= 1
      \/ /\ o \in Nat /\ o % NUM = 1 /\ o > 0 /\ o + Last <= written
         /\ tickWriteZero = o \/ tickWriteZero = o + NUM
  BY OldNow DEF IInv, TypeInv
<1>3. t > 0 /\ t % NUM = 1 /\ t \in Nat /\ k <= t
  BY <1>1 DEF IInv, LoadedInv, IsTick
<1>4. k = -1 \/ (k \in Nat /\ k % NUM = 1 /\ k > 0 /\ 0 <= i /\ i <= Last /\ k + i <= before)
  BY <1>1, TicksArePositive, Sizes DEF IInv, KeptInv, IsPosition, Slots
<1>5. k = -1 => i = -1
  BY <1>1 DEF IInv, KeptInv, IsPosition
<1>6. LastRead = IF k < 0 THEN 0 ELSE k + i
  BY DEF LastRead, Number
<1>7. MaxRead \in 1 .. Last
  BY MaxReadIsInRing DEF IInv, KeptInv, TypeInv
<1>8. c = IF t <= k THEN p - i
          ELSE IF o < 0 THEN p + 1
          ELSE IF o <= k THEN p + NUM - i
          ELSE MaxRead
  BY DEF Count
<1>9. k < o => k = -1 \/ k + NUM <= o
  BY <1>1, <1>2, <1>4, TicksAreSpaced
<1>10. o < k => o < 0 \/ o + NUM <= k
  BY <1>1, <1>2, <1>4, TicksAreSpaced
<1> HIDE DEF t, o, k, i, c
<1>11. c \in Int /\ c >= 0
  <2>1. MaxRead \in Int /\ MaxRead >= 0 /\ NUM = Last + 1 /\ Last \in Nat
    BY <1>7, Sizes
  <2>2. CASE t <= k
    <3>1. k + i <= t + p /\ k = t
      BY <1>1, <1>3, <1>4, <2>2 DEF t
    <3> QED BY <1>1, <1>8, <2>2, <3>1
  <2>3. CASE ~(t <= k)
    BY <1>1, <1>4, <1>5, <1>8, <2>1, <2>3
  <2> QED BY <2>2, <2>3
<1>12. r = IF MaxRead <= c THEN MaxRead ELSE c
  <2>1. MaxRead \in Int
    BY <1>7
  <2> QED BY <1>11, <2>1, MinOf DEF c
<1>13. r \in 0 .. MaxRead
  BY <1>7, <1>11, <1>12
<1>14. ASSUME written = t + p
       PROVE  r <= (t + p) - LastRead /\ (r = MaxRead \/ r = (t + p) - LastRead)
  <2>1. tickWriteZero = t
    BY <1>14 DEF t
  <2>2. MaxRead \in Int /\ MaxRead <= Last /\ NUM = Last + 1 /\ Last \in Nat
    BY <1>7, Sizes
  <2>3. LastRead \in Int
    BY <1>1, <1>6
  <2>4. c = (t + p) - LastRead \/ (c = MaxRead /\ MaxRead <= (t + p) - LastRead)
    <3>1. CASE t <= k
      <4>1. k = t
        BY <1>1, <1>3, <3>1
      <4> QED BY <1>1, <1>3, <1>6, <1>8, <3>1, <4>1
    <3>2. CASE k < t /\ o < 0
      <4>1. t = 1 /\ k = -1
        BY <1>1, <1>2, <1>3, <1>4, <2>1, <3>2
      <4> QED BY <1>1, <1>6, <1>8, <3>2, <4>1
    <3>3. CASE k < t /\ ~(o < 0) /\ o <= k
      <4>1. k = o /\ t = o + NUM
        BY <1>1, <1>2, <1>10, <2>1, <2>2, <3>3
      <4> QED BY <1>1, <1>4, <1>6, <1>8, <2>2, <3>3, <4>1
    <3>4. CASE k < t /\ ~(o < 0) /\ k < o
      <4>1. c = MaxRead /\ o + Last <= t + p
        BY <1>1, <1>2, <1>8, <1>14, <3>4
      <4>2. LastRead < o
        BY <1>1, <1>2, <1>4, <1>6, <1>9, <2>2, <3>4
      <4> QED BY <1>1, <2>2, <2>3, <4>1, <4>2
    <3> QED BY <1>1, <3>1, <3>2, <3>3, <3>4
  <2>5. ASSUME NEW a \in Int, NEW b \in Int, NEW n \in Int,
               a = n \/ (a = b /\ b <= n)
        PROVE  LET m == IF b <= a THEN b ELSE a IN m <= n /\ (m = b \/ m = n)
    BY <2>5
  <2>6. (t + p) - LastRead \in Int
    BY <1>1, <2>3
  <2> HIDE DEF LastRead
  <2> QED BY <1>11, <1>12, <2>2, <2>4, <2>5, <2>6
<1> QED BY <1>7, <1>13, <1>14 DEF t

LEMMA LoadOldKeepsIInv ==
  ASSUME IInv, LoadOld
  PROVE  IInv'
<1> DEFINE words == [org EXCEPT !.old = oldTickWriteZero]
           p == Newest(words)
<1>1. RingType' /\ RingInv'
  BY ReaderKeepsRing DEF LoadOld
<1>2. /\ pc = "old" /\ org' = words /\ newest' = p
      /\ readCount' = IF p < 0 THEN 0 ELSE Min({MaxRead, Count(words, p)})
      /\ pc' = IF p < 0 THEN "idle" ELSE "copy"
      /\ UNCHANGED <<writePointer, tickWriteZero, oldTickWriteZero, written,
                     indexOfRead, tickOfRead, call, copied, before>>
  BY DEF LoadOld, kept, ring
<1>3. /\ words.tick = org.tick /\ words.pointer = org.pointer
      /\ words.old = oldTickWriteZero
      /\ words \in [pointer : Int, tick : Int, old : Int]
  BY DEF IInv, TypeInv, RingType, ReaderType
<1>4. p \in Int
  BY <1>3, Sizes DEF Newest
<1>5. PointerInv' /\ LoadedInv' /\ AfterCopying'
  BY <1>2 DEF PointerInv, Loading, LoadedInv, AfterCopying
<1>6. KeptInv'
  BY <1>2 DEF IInv, KeptInv, IsPosition
<1> HIDE DEF words, p
<1>7. CASE p < 0
  <2>1. TypeInv'
    BY <1>1, <1>2, <1>3, <1>4, <1>7 DEF IInv, TypeInv, ReaderType
  <2>2. CopyInv' /\ WhileCopying'
    BY <1>2, <1>7 DEF CopyInv, Copying, WhileCopying
  <2> QED BY <1>1, <1>5, <1>6, <2>1, <2>2 DEF IInv, RingInv
<1>8. CASE ~(p < 0)
  <2>1. /\ p \in Slots /\ org.pointer \in Slots
        /\ org.tick + p <= written \/ org.tick + p >= before + NUM
        /\ NotLapped => /\ org.tick > 0 /\ before <= org.tick + p
                        /\ written = org.tick + p => tickWriteZero = org.tick
    BY <1>2, <1>8, LoadedWords DEF p, words
  <2>2. NotLapped =>
          /\ readCount' \in 0 .. MaxRead /\ MaxRead \in 1 .. Last
          /\ written = org.tick + p =>
               /\ readCount' <= (org.tick + p) - LastRead
               /\ readCount' = MaxRead \/ readCount' = (org.tick + p) - LastRead
    BY <1>2, <1>3, <1>8, <2>1, EntriesAreCounted
  <2>3. Count(words, p) \in Int /\ MaxRead \in Int
    <3>1. call.len \in Int /\ NUM - 1 \in Int /\ call.tick \in Int /\ call.index \in Int
      BY Sizes DEF IInv, TypeInv, ReaderType
    <3>2. MaxRead \in Int
      BY <3>1, MinOf DEF MaxRead
    <3> QED BY <1>3, <1>4, <3>1, <3>2, Sizes DEF Count
  <2>4. readCount' \in Int
    BY <1>2, <1>8, <2>3, MinOf
  <2>5. TypeInv'
    BY <1>1, <1>2, <1>3, <1>4, <2>4, <1>8 DEF IInv, TypeInv, ReaderType
  <2>6. /\ org'.tick = org.tick /\ org'.pointer = org.pointer
        /\ org'.old = oldTickWriteZero /\ copied = <<>>
        /\ pc' = "copy" /\ NewestNumber' = org.tick + p
        /\ LastRead' = LastRead /\ MaxRead' = MaxRead /\ (NotLapped' <=> NotLapped)
    BY <1>2, <1>3, <1>8 DEF NewestNumber, LastRead, MaxRead, NotLapped, IInv, PointerInv, Loading
  <2>7. CopyInv'
    <3>1. IsTick(org.tick) /\ org.tick <= tickWriteZero /\ call.tick <= org.tick
      BY <1>2 DEF IInv, LoadedInv
    <3>2. oldTickWriteZero <= oldTickWriteZero
      BY DEF IInv, TypeInv, RingType
    <3>3. newest' = Newest(org')
      BY <1>2 DEF p
    <3>4. NotLapped => Len(copied) <= readCount' * Words
      <4>1. Len(copied) = 0
        BY <2>6
      <4>2. ASSUME NEW m \in Nat PROVE 0 <= m * Words
        BY Sizes
      <4>3. NotLapped => readCount' \in Nat
        BY <2>2
      <4> QED BY <4>1, <4>2, <4>3
    <3> QED BY <1>2, <2>1, <2>2, <2>6, <3>1, <3>2, <3>3, <3>4 DEF CopyInv, Copying, IsTick
  <2>8. WhileCopying'
    <3>1. WordsRight'
      BY <1>2, <2>6 DEF WordsRight
    <3>2. NotLapped /\ written = org.tick + p => CountRight'
      <4>1. NewestNumber' - LastRead' = (org.tick + p) - LastRead
        BY <2>6
      <4> QED BY <2>2, <2>6, <4>1 DEF CountRight
    <3> QED BY <1>2, <2>1, <2>6, <3>1, <3>2 DEF WhileCopying, CopiedRight
  <2> QED BY <1>1, <1>5, <1>6, <2>5, <2>7, <2>8 DEF IInv, RingInv
<1> QED BY <1>7, <1>8

LEMMA QuotientIsBelow ==
  ASSUME NEW m \in Nat \ {0}, NEW a \in Nat, NEW q \in Int, a < q * m
  PROVE  a \div m \in Nat /\ a \div m < q
<1> DEFINE d == a \div m
<1>1. a = m * d + (a % m) /\ d \in Nat /\ a % m \in Nat
  BY QuotientAndRemainder
<1> HIDE DEF d
<1>2. ~(q <= d)
  <2> SUFFICES ASSUME q <= d PROVE FALSE
    OBVIOUS
  <2>1. (d - q) * m >= 0
    BY <1>1
  <2>2. (d - q) * m = m * d - q * m
    BY <1>1
  <2>3. m * d \in Int /\ q * m \in Int
    BY <1>1
  <2> QED BY <1>1, <2>1, <2>2, <2>3
<1> QED BY <1>1, <1>2 DEF d

(* The slot an entry is copied from holds that entry, if no entry has been *)
(* written since the one that was found newest.                            *)
LEMMA EntryIsInItsSlot ==
  ASSUME IInv, pc = "copy", NotLapped, written = NewestNumber,
         NEW i \in Nat, i < readCount, NEW w \in 1 .. Words
  PROVE  buffers[(NUM + newest - i) % NUM][w] = NewestNumber - i
<1> DEFINE n == written
           s == (NUM + newest - i) % NUM
<1>1. /\ newest \in Slots /\ newest \in Int /\ 0 <= newest /\ newest <= Last
      /\ org.tick \in Nat /\ org.tick > 0 /\ org.tick % NUM = 1 /\ org.tick <= tickWriteZero
      /\ readCount \in Int /\ readCount <= MaxRead /\ MaxRead \in Int /\ MaxRead <= Last
  <2>1. MaxRead \in 1 .. Last
    BY MaxReadIsInRing DEF IInv, KeptInv, TypeInv
  <2>2. newest \in Slots /\ IsTick(org.tick) /\ org.tick > 0 /\ org.tick <= tickWriteZero
    BY DEF IInv, CopyInv, Copying
  <2>3. readCount \in 0 .. MaxRead
    BY DEF IInv, CopyInv, Copying
  <2> QED BY <2>1, <2>2, <2>3, Sizes DEF IsTick, Slots
<1>2. n = org.tick + newest /\ n > 0 /\ n \in Nat
  BY <1>1 DEF NewestNumber
<1>3. /\ tickWriteZero \in Nat /\ tickWriteZero % NUM = 1 /\ tickWriteZero <= n
  BY <1>2 DEF IInv, WordsInv
<1>4. tickWriteZero = org.tick
  <2> SUFFICES ASSUME org.tick < tickWriteZero PROVE FALSE
    BY <1>1, <1>3
  <2>1. org.tick + NUM <= tickWriteZero
    BY <1>1, <1>3, TicksAreSpaced
  <2> QED BY <1>1, <1>2, <1>3, <2>1, Sizes
<1>5. i < n
  <2>1. readCount <= n - LastRead
    BY DEF IInv, WhileCopying, CopiedRight, CountRight
  <2>2. LastRead \in Nat
    BY Sizes DEF LastRead, Number, IInv, KeptInv, IsPosition, Slots, TypeInv, ReaderType
  <2> QED BY <1>1, <1>2, <2>1, <2>2
<1>6. i < Last
  BY <1>1, Sizes
<1>7. s = IF i <= newest THEN newest - i ELSE NUM + newest - i
  <2>1. CASE i <= newest
    <3> DEFINE r == newest - i
    <3>1. r \in 0 .. NUM - 1 /\ NUM + newest - i = NUM * 1 + r
      BY <1>1, <2>1, Sizes
    <3> HIDE DEF r
    <3>2. (NUM * 1 + r) % NUM = r
      BY <3>1, Sizes, RemainderIsUnique
    <3> QED BY <2>1, <3>1, <3>2 DEF r
  <2>2. CASE ~(i <= newest)
    <3> DEFINE r == NUM + newest - i
    <3>1. r \in 0 .. NUM - 1
      BY <1>1, <1>6, <2>2, Sizes
    <3> HIDE DEF r
    <3>2. r = NUM * 0 + r
      BY <3>1, Sizes
    <3>3. (NUM * 0 + r) % NUM = r
      BY <3>1, Sizes, RemainderIsUnique
    <3> QED BY <2>2, <3>2, <3>3 DEF r
  <2> QED BY <2>1, <2>2
<1> HIDE DEF s
<1>8. s \in Slots /\ s \in Int
  BY <1>1, <1>6, <1>7, Sizes DEF Slots
<1>9. s # NextSlot
  BY <1>1, <1>2, <1>4, <1>6, <1>7, Sizes DEF NextSlot
<1>10. EntryIn(s) = n - i
  BY <1>1, <1>2, <1>4, <1>6, <1>7, Sizes DEF EntryIn
<1>11. EntryIn(s) > 0
  BY <1>2, <1>5, <1>10
<1>12. buffers[s][w] = EntryIn(s)
  BY <1>2, <1>8, <1>9, <1>11 DEF IInv, BuffersInv
<1> QED BY <1>10, <1>12 DEF s

LEMMA CopyWordKeepsIInv ==
  ASSUME IInv, CopyWord
  PROVE  IInv'
<1> DEFINE i == Len(copied) \div Words
           word == (Len(copied) % Words) + 1
           read == buffers[(NUM + newest - i) % NUM][word]
<1>1. RingType' /\ RingInv'
  BY ReaderKeepsRing DEF CopyWord
<1>2. /\ pc = "copy" /\ Len(copied) < readCount * Words /\ copied' = Append(copied, read)
      /\ UNCHANGED <<writePointer, tickWriteZero, oldTickWriteZero, written,
                     indexOfRead, tickOfRead, pc, call, org, newest, readCount, before>>
  BY DEF CopyWord, kept, ring
<1>3. /\ copied \in Seq(Nat) /\ Len(copied) \in Nat /\ readCount \in Int /\ newest \in Int
      /\ readCount * Words \in Int
  BY Sizes DEF IInv, TypeInv, ReaderType
<1>4. i \in Nat /\ i < readCount /\ word \in 1 .. Words
  <2>1. i \in Nat /\ i < readCount
    <3>1. Words \in Nat \ {0}
      BY Sizes
    <3> QED BY <1>2, <1>3, <3>1, QuotientIsBelow, Zenon
  <2>2. Len(copied) % Words \in 0 .. Words - 1
    BY <1>3, Sizes, QuotientAndRemainder
  <2> QED BY <2>1, <2>2, Sizes
<1> HIDE DEF i, word
<1>5. read \in Nat
  <2>1. (NUM + newest - i) % NUM \in Slots
    BY <1>3, <1>4, Sizes DEF Slots
  <2> QED BY <1>4, <2>1 DEF IInv, TypeInv, RingType
<1> HIDE DEF read
<1>6. copied' \in Seq(Nat) /\ Len(copied') = Len(copied) + 1
  BY <1>2, <1>3, <1>5
<1>7. TypeInv'
  BY <1>1, <1>2, <1>6 DEF IInv, TypeInv, ReaderType
<1>8. KeptInv' /\ PointerInv' /\ LoadedInv' /\ AfterCopying'
  BY <1>2 DEF IInv, KeptInv, IsPosition, PointerInv, Loading, LoadedInv, AfterCopying
<1>9. /\ NewestNumber' = NewestNumber /\ LastRead' = LastRead /\ MaxRead' = MaxRead
      /\ NotLapped' <=> NotLapped
  BY <1>2 DEF NewestNumber, LastRead, MaxRead, NotLapped
<1>10. CopyInv'
  <2>1. Len(copied') <= readCount * Words
    BY <1>2, <1>3, <1>6
  <2> QED BY <1>2, <1>9, <2>1 DEF IInv, CopyInv, Copying, IsTick
<1>11. WhileCopying'
  <2>1. ASSUME NotLapped, written = NewestNumber, NEW j \in 1 .. Len(copied')
        PROVE  copied'[j] = NewestNumber - ((j - 1) \div Words)
    <3>1. CASE j <= Len(copied)
      <4>1. j \in 1 .. Len(copied)
        BY <1>3, <1>6, <3>1
      <4>2. copied'[j] = copied[j]
        BY <1>2, <1>3, <1>5, <4>1
      <4>3. copied[j] = NewestNumber - ((j - 1) \div Words)
        BY <1>2, <2>1, <4>1 DEF IInv, WhileCopying, CopiedRight, WordsRight
      <4> QED BY <4>2, <4>3
    <3>2. CASE ~(j <= Len(copied))
      <4>1. j = Len(copied) + 1 /\ j - 1 = Len(copied)
        BY <1>3, <1>6, <3>2
      <4>2. copied'[j] = read
        BY <1>2, <1>3, <1>5, <4>1
      <4>3. read = NewestNumber - i
        BY <1>2, <1>4, <2>1, EntryIsInItsSlot DEF read
      <4> QED BY <4>1, <4>2, <4>3 DEF i
    <3> QED BY <3>1, <3>2
  <2>2. NotLapped /\ written = NewestNumber => WordsRight'
    BY <1>9, <2>1 DEF WordsRight
  <2>3. NotLapped /\ written = NewestNumber => CountRight'
    BY <1>2, <1>9 DEF IInv, WhileCopying, CopiedRight, CountRight
  <2> QED BY <1>2, <1>9, <2>2, <2>3 DEF IInv, WhileCopying, CopiedRight
<1> QED BY <1>1, <1>7, <1>8, <1>10, <1>11 DEF IInv, RingInv

(* A pass of the loop that found a word changed is made again.             *)
LEMMA PassAgainKeepsIInv ==
  ASSUME IInv, pc \in {"copy", "checkTick", "checkOld"}, pc' = "pointer",
         UNCHANGED <<ring, written, server, kept, locals>>
  PROVE  IInv'
<1>1. RingType' /\ RingInv'
  BY ReaderKeepsRing
<1>2. UNCHANGED <<written, indexOfRead, tickOfRead, call, org, newest, readCount, copied, before>>
  BY DEF kept, locals
<1>3. TypeInv'
  BY <1>1, <1>2 DEF IInv, TypeInv, ReaderType
<1>4. IsPosition(call.tick, call.index, written)
  BY PositionsStay DEF IInv, KeptInv, TypeInv, RingType, ReaderType
<1>5. KeptInv'
  BY <1>2, <1>4 DEF IInv, KeptInv, IsPosition
<1>6. PointerInv' /\ LoadedInv' /\ CopyInv' /\ WhileCopying' /\ AfterCopying'
  BY DEF PointerInv, Loading, LoadedInv, CopyInv, Copying, WhileCopying, AfterCopying
<1> QED BY <1>1, <1>3, <1>5, <1>6 DEF IInv, RingInv

(* A pass that found the word the same goes on.                            *)
LEMMA PassGoesOn ==
  ASSUME IInv, Copying, pc' \in {"checkTick", "checkOld", "done"},
         UNCHANGED <<ring, written, server, kept, locals>>, AfterCopying'
  PROVE  IInv'
<1>1. RingType' /\ RingInv'
  BY ReaderKeepsRing
<1>2. UNCHANGED <<written, tickWriteZero, oldTickWriteZero, indexOfRead, tickOfRead, call, org,
                  newest, readCount, copied, before>>
  BY DEF kept, locals, ring
<1>3. TypeInv'
  BY <1>1, <1>2 DEF IInv, TypeInv, ReaderType
<1>4. KeptInv'
  BY <1>2 DEF IInv, KeptInv, IsPosition, Copying
<1>5. CopyInv'
  BY <1>2 DEF IInv, CopyInv, Copying, IsTick, NotLapped, NewestNumber, MaxRead
<1>6. PointerInv' /\ LoadedInv' /\ WhileCopying'
  BY DEF PointerInv, Loading, LoadedInv, WhileCopying
<1> QED BY <1>1, <1>3, <1>4, <1>5, <1>6 DEF IInv, RingInv

LEMMA CheckPointerKeepsIInv ==
  ASSUME IInv, CheckPointer
  PROVE  IInv'
<1>1. /\ pc = "copy" /\ UNCHANGED <<ring, written, server, kept, locals>>
      /\ pc' = IF writePointer = org.pointer THEN "checkTick" ELSE "pointer"
      /\ Len(copied) >= readCount * Words
  BY DEF CheckPointer, Check
<1>2. CASE writePointer # org.pointer
  BY <1>1, <1>2, PassAgainKeepsIInv
<1>3. CASE writePointer = org.pointer
  <2>1. UNCHANGED <<written, tickWriteZero, oldTickWriteZero, call, org,
                    newest, readCount, copied, before>>
    BY <1>1 DEF locals, ring
  <2>2. /\ org.tick \in Int /\ org.old \in Int /\ tickWriteZero \in Int
        /\ oldTickWriteZero \in Int /\ written \in Nat
        /\ org.tick <= tickWriteZero /\ org.old <= oldTickWriteZero
        /\ newest = Newest(org) /\ newest \in Slots
    BY <1>1 DEF IInv, TypeInv, RingType, ReaderType, CopyInv, Copying
  <2>3. ASSUME org.tick = tickWriteZero, org.old = oldTickWriteZero
        PROVE  /\ org.tick > 0 /\ NewestNumber = written
               /\ NotLapped => Len(copied) = readCount * Words /\ CopiedRight
    <3>1. org.tick > 0 /\ NewestNumber = written
      BY <1>3, <2>2, <2>3, WordsSayWritten DEF IInv, TypeInv, NewestNumber
    <3>2. Len(copied) \in Int /\ readCount * Words \in Int
      BY Sizes DEF IInv, TypeInv, ReaderType
    <3>3. NotLapped => Len(copied) = readCount * Words
      BY <1>1, <3>2 DEF IInv, CopyInv, Copying
    <3>4. NotLapped => CopiedRight
      BY <1>1, <3>1 DEF IInv, WhileCopying
    <3> QED BY <3>1, <3>3, <3>4
  <2>4. /\ NewestNumber' = NewestNumber /\ (NotLapped' <=> NotLapped)
        /\ CopiedRight' <=> CopiedRight
    BY <2>1 DEF NewestNumber, NotLapped, CopiedRight, WordsRight, CountRight, LastRead, MaxRead
  <2>5. AfterCopying'
    <3>1. CASE org.tick < tickWriteZero
      BY <1>1, <1>3, <2>1, <3>1 DEF AfterCopying
    <3>2. CASE org.old < oldTickWriteZero
      BY <1>1, <1>3, <2>1, <3>2 DEF AfterCopying
    <3>3. CASE org.tick = tickWriteZero /\ org.old = oldTickWriteZero
      <4>1. NewestNumber <= written
        BY <2>2, <2>3, <3>3
      <4> QED BY <1>1, <1>3, <2>1, <2>3, <2>4, <3>3, <4>1 DEF AfterCopying
    <3> QED BY <2>2, <3>1, <3>2, <3>3
  <2> QED BY <1>1, <1>3, <2>5, PassGoesOn DEF Copying
<1> QED BY <1>2, <1>3

LEMMA CheckTickKeepsIInv ==
  ASSUME IInv, CheckTick
  PROVE  IInv'
<1>1. /\ pc = "checkTick" /\ UNCHANGED <<ring, written, server, kept, locals>>
      /\ pc' = IF tickWriteZero = org.tick THEN "checkOld" ELSE "pointer"
  BY DEF CheckTick, Check
<1>2. CASE tickWriteZero # org.tick
  BY <1>1, <1>2, PassAgainKeepsIInv
<1>3. CASE tickWriteZero = org.tick
  <2>1. UNCHANGED <<written, tickWriteZero, oldTickWriteZero, call, org,
                    newest, readCount, copied, before>>
    BY <1>1 DEF locals, ring
  <2>2. /\ NewestNumber' = NewestNumber /\ (NotLapped' <=> NotLapped)
        /\ CopiedRight' <=> CopiedRight
    BY <2>1 DEF NewestNumber, NotLapped, CopiedRight, WordsRight, CountRight, LastRead, MaxRead
  <2>3. ~(org.tick < tickWriteZero)
    BY <1>3 DEF IInv, TypeInv, RingType
  <2>4. AfterCopying'
    BY <1>1, <1>3, <2>1, <2>2, <2>3 DEF IInv, AfterCopying
  <2> QED BY <1>1, <1>3, <2>4, PassGoesOn DEF Copying
<1> QED BY <1>2, <1>3

LEMMA CheckOldKeepsIInv ==
  ASSUME IInv, CheckOld
  PROVE  IInv'
<1>1. /\ pc = "checkOld" /\ UNCHANGED <<ring, written, server, kept, locals>>
      /\ pc' = IF oldTickWriteZero = org.old THEN "done" ELSE "pointer"
  BY DEF CheckOld, Check
<1>2. CASE oldTickWriteZero # org.old
  BY <1>1, <1>2, PassAgainKeepsIInv
<1>3. CASE oldTickWriteZero = org.old
  <2>1. UNCHANGED <<written, tickWriteZero, oldTickWriteZero, call, org,
                    newest, readCount, copied, before>>
    BY <1>1 DEF locals, ring
  <2>2. /\ NewestNumber' = NewestNumber /\ (NotLapped' <=> NotLapped)
        /\ CopiedRight' <=> CopiedRight
    BY <2>1 DEF NewestNumber, NotLapped, CopiedRight, WordsRight, CountRight, LastRead, MaxRead
  <2>3. ~(org.old < oldTickWriteZero)
    BY <1>3 DEF IInv, TypeInv, RingType
  <2>4. AfterCopying'
    BY <1>1, <1>3, <2>1, <2>2, <2>3 DEF IInv, AfterCopying
  <2> QED BY <1>1, <1>3, <2>4, PassGoesOn DEF Copying
<1> QED BY <1>2, <1>3

LEMMA ReturnKeepsIInv ==
  ASSUME IInv, Return
  PROVE  IInv'
<1>1. RingType' /\ RingInv'
  BY ReaderKeepsRing DEF Return
<1>2. /\ pc = "done" /\ pc' = "idle"
      /\ \/ tickOfRead' = org.tick /\ indexOfRead' = newest
         \/ UNCHANGED <<tickOfRead, indexOfRead>>
      /\ UNCHANGED <<written, call, org, newest, readCount, copied, before>>
  BY DEF Return, kept, locals
<1>3. TypeInv'
  BY <1>1, <1>2 DEF IInv, TypeInv, ReaderType
<1>4. IsPosition(org.tick, newest, written)
  BY <1>2 DEF IInv, AfterCopying, CopyInv, Copying, IsTick, IsPosition, NewestNumber
<1>5. KeptInv'
  BY <1>2, <1>4 DEF IInv, KeptInv, IsPosition
<1>6. PointerInv' /\ LoadedInv' /\ CopyInv' /\ WhileCopying' /\ AfterCopying'
  BY <1>2 DEF PointerInv, Loading, LoadedInv, CopyInv, Copying, WhileCopying, AfterCopying
<1> QED BY <1>1, <1>3, <1>5, <1>6 DEF IInv, RingInv

LEMMA InitIInv == Init => IInv
<1> SUFFICES ASSUME Init PROVE IInv
  OBVIOUS
<1>1. TypeInv
  BY Sizes DEF Init, TypeInv, RingType, ReaderType, NoWords, Slots
<1>2. WordsInv /\ KeptInv
  BY DEF Init, WordsInv, KeptInv, IsPosition
<1>3. BuffersInv
  BY DEF Init, BuffersInv
<1>4. PointerInv /\ LoadedInv /\ CopyInv /\ WhileCopying /\ AfterCopying
  BY DEF Init, PointerInv, Loading, LoadedInv, CopyInv, Copying, WhileCopying, AfterCopying
<1> QED BY <1>1, <1>2, <1>3, <1>4 DEF IInv

LEMMA StutterKeepsIInv ==
  ASSUME IInv, UNCHANGED vars
  PROVE  IInv'
<1>1. RingType' /\ RingInv'
  BY ReaderKeepsRing DEF vars
<1>2. UNCHANGED <<written, tickWriteZero, oldTickWriteZero, indexOfRead, tickOfRead, pc, call,
                  org, newest, readCount, copied, before>>
  BY DEF vars, kept, locals, ring
<1>3. TypeInv'
  BY <1>1, <1>2 DEF IInv, TypeInv, ReaderType
<1>4. KeptInv'
  BY <1>2 DEF IInv, KeptInv, IsPosition
<1>5. PointerInv' /\ LoadedInv'
  BY <1>2 DEF IInv, PointerInv, Loading, LoadedInv, LoadedFrom, IsTick
<1>6. CopyInv'
  BY <1>2 DEF IInv, CopyInv, Copying, IsTick, NotLapped, NewestNumber, MaxRead
<1>7. /\ NewestNumber' = NewestNumber /\ (NotLapped' <=> NotLapped)
      /\ CopiedRight' <=> CopiedRight
  BY <1>2 DEF NewestNumber, NotLapped, CopiedRight, WordsRight, CountRight, LastRead, MaxRead
<1>8. WhileCopying' /\ AfterCopying'
  BY <1>2, <1>7 DEF IInv, WhileCopying, AfterCopying
<1> QED BY <1>1, <1>3, <1>4, <1>5, <1>6, <1>8 DEF IInv, RingInv

LEMMA NextIInv == IInv /\ [Next]_vars => IInv'
<1> SUFFICES ASSUME IInv, [Next]_vars PROVE IInv'
  OBVIOUS
<1>1. CASE Server
  BY <1>1, ServerKeepsIInv
<1>2. CASE ReadOn \/ ReadNewest
  BY <1>2, CallsKeepIInv
<1>3. CASE LoadPointer
  BY <1>3, LoadPointerKeepsIInv
<1>4. CASE LoadTick
  BY <1>4, LoadTickKeepsIInv
<1>5. CASE LoadOld
  BY <1>5, LoadOldKeepsIInv
<1>6. CASE CopyWord
  BY <1>6, CopyWordKeepsIInv
<1>7. CASE CheckPointer
  BY <1>7, CheckPointerKeepsIInv
<1>8. CASE CheckTick
  BY <1>8, CheckTickKeepsIInv
<1>9. CASE CheckOld
  BY <1>9, CheckOldKeepsIInv
<1>10. CASE Return
  BY <1>10, ReturnKeepsIInv
<1>11. CASE UNCHANGED vars
  BY <1>11, StutterKeepsIInv
<1> QED BY <1>1, <1>2, <1>3, <1>4, <1>5, <1>6, <1>7, <1>8, <1>9, <1>10, <1>11
        DEF Next, Reader

(* The inductive invariant holds in every reachable state.                 *)
THEOREM RingInvariant == Spec => []IInv
<1>1. Init => IInv
  BY InitIInv
<1>2. IInv /\ [Next]_vars => IInv'
  BY NextIInv
<1> QED BY <1>1, <1>2, PTL DEF Spec

-----------------------------------------------------------------------------
(* What a call of ReadData returns.                                        *)

(* The words of an entry that was copied are all of that entry.            *)
LEMMA EntryIsWhole ==
  ASSUME IInv, WordsRight, readCount \in Nat, Len(copied) = readCount * Words,
         NEW i \in Nat, i < readCount
  PROVE  Entry(i) = [w \in 1 .. Words |-> NewestNumber - i]
<1> DEFINE m == (i * Words) + 1
           n == (i + 1) * Words
<1>1. /\ Words \in Nat /\ Words >= 1 /\ copied \in Seq(Nat)
      /\ i * Words \in Nat /\ n = (i * Words) + Words /\ readCount * Words \in Nat
  BY Sizes DEF IInv, TypeInv, ReaderType
<1>2. n <= readCount * Words
  <2>1. (readCount - (i + 1)) * Words >= 0
    BY <1>1
  <2>2. (readCount - (i + 1)) * Words = readCount * Words - n
    BY <1>1
  <2> QED BY <1>1, <2>1, <2>2
<1>3. m \in 1 .. Len(copied) /\ n \in 1 .. Len(copied) /\ n - m + 1 = Words /\ m <= n
  BY <1>1, <1>2
<1> HIDE DEF n
<1>4. Entry(i) = SubSeq(copied, m, n)
  BY DEF Entry, n
<1>5. ASSUME NEW w \in 1 .. Words
      PROVE  copied[m + w - 1] = NewestNumber - i
  <2> DEFINE r == w - 1
  <2>1. r \in 0 .. Words - 1 /\ m + w - 1 = (Words * i + r) + 1
    BY <1>1
  <2>2. m + w - 1 \in 1 .. Len(copied) /\ (m + w - 1) - 1 = Words * i + r
    BY <1>1, <1>3
  <2> HIDE DEF r, m
  <2>3. (Words * i + r) \div Words = i
    <3>1. Words \in Nat \ {0}
      BY <1>1
    <3> QED BY <2>1, <3>1, RemainderIsUnique, Zenon
  <2> QED BY <2>2, <2>3 DEF WordsRight
<1>6. SubSeq(copied, m, n) = [w \in 1 .. Words |-> copied[m + w - 1]]
  BY <1>1, <1>3
<1> QED BY <1>4, <1>5, <1>6

LEMMA IInvReadsAreConsistent == IInv => ReadsAreConsistent
<1> SUFFICES ASSUME IInv, pc = "done", NotLapped
             PROVE  \E n \in before .. written : \A i \in 0 .. readCount - 1 :
                      n - i > 0 /\ Entry(i) = [w \in 1 .. Words |-> n - i]
  BY DEF ReadsAreConsistent
<1>1. /\ NewestNumber <= written /\ Len(copied) = readCount * Words /\ WordsRight /\ CountRight
  BY DEF IInv, AfterCopying, CopiedRight
<1>2. before <= NewestNumber /\ readCount \in 0 .. MaxRead
  BY DEF IInv, CopyInv, Copying
<1>3. NewestNumber \in Int /\ before \in Nat /\ written \in Nat /\ readCount \in Nat
  BY <1>2 DEF IInv, TypeInv, RingType, ReaderType, NewestNumber
<1>4. LastRead \in Nat
  BY Sizes DEF LastRead, Number, IInv, KeptInv, IsPosition, Slots, TypeInv, ReaderType
<1>5. NewestNumber \in before .. written
  BY <1>1, <1>2, <1>3
<1>6. ASSUME NEW i \in 0 .. readCount - 1
      PROVE  NewestNumber - i > 0 /\ Entry(i) = [w \in 1 .. Words |-> NewestNumber - i]
  <2>1. i \in Nat /\ i < readCount
    BY <1>3
  <2>2. NewestNumber - i > 0
    BY <1>1, <1>3, <1>4, <2>1 DEF CountRight
  <2>3. Entry(i) = [w \in 1 .. Words |-> NewestNumber - i]
    BY <1>1, <1>3, <2>1, EntryIsWhole
  <2> QED BY <2>2, <2>3
<1> QED BY <1>5, <1>6

LEMMA IInvReadsContinue == IInv => ReadsContinue
<1> SUFFICES ASSUME IInv, pc = "done", NotLapped
             PROVE  /\ \A j \in 1 .. Len(copied) : copied[j] > LastRead
                    /\ readCount < MaxRead => LastRead + readCount >= before
  BY DEF ReadsContinue, LastRead
<1>1. /\ NewestNumber <= written /\ Len(copied) = readCount * Words /\ WordsRight /\ CountRight
  BY DEF IInv, AfterCopying, CopiedRight
<1>2. before <= NewestNumber /\ readCount \in 0 .. MaxRead
  BY DEF IInv, CopyInv, Copying
<1>3. NewestNumber \in Int /\ before \in Nat /\ readCount \in Nat
  BY <1>2 DEF IInv, TypeInv, ReaderType, NewestNumber
<1>4. LastRead \in Nat
  BY Sizes DEF LastRead, Number, IInv, KeptInv, IsPosition, Slots, TypeInv, ReaderType
<1>5. ASSUME NEW j \in 1 .. Len(copied)
      PROVE  copied[j] > LastRead
  <2> DEFINE a == j - 1
  <2>1. a \in Nat /\ a < readCount * Words /\ Words \in Nat \ {0}
    <3>1. Len(copied) \in Nat /\ j \in Nat /\ 1 <= j /\ j <= Len(copied)
      BY DEF IInv, TypeInv, ReaderType
    <3> QED BY <1>1, <3>1, Sizes
  <2>2. copied[j] = NewestNumber - (a \div Words)
    BY <1>1, <1>5 DEF WordsRight
  <2> HIDE DEF a
  <2>3. a \div Words \in Nat /\ a \div Words < readCount
    BY <1>3, <2>1, QuotientIsBelow
  <2> QED BY <1>1, <1>3, <1>4, <2>2, <2>3 DEF CountRight
<1>6. readCount < MaxRead => LastRead + readCount >= before
  <2>1. ASSUME readCount < MaxRead PROVE readCount = NewestNumber - LastRead
    BY <1>1, <1>3, <2>1 DEF CountRight
  <2> QED BY <1>2, <1>3, <1>4, <2>1
<1> QED BY <1>5, <1>6

LEMMA IInvAssertionsHold == IInv => AssertionsHold
  BY Sizes DEF IInv, CopyInv, Copying, AssertionsHold, Slots

(* Unless the server goes round the whole ring meanwhile, ReadData returns *)
(* the newest entries of one moment during the call, whole and in their    *)
(* order, though the server goes on writing while they are copied.         *)
THEOREM ReadsAreConsistentAlways == Spec => []ReadsAreConsistent
  BY RingInvariant, IInvReadsAreConsistent, PTL

(* Calls of ReadData from the position kept give no entry twice, and leave *)
(* one out only if the buffer of the caller or the ring was too small.     *)
THEOREM ReadsContinueAlways == Spec => []ReadsContinue
  BY RingInvariant, IInvReadsContinue, PTL

(* The assertions of ReadData hold at every call.                          *)
THEOREM AssertionsHoldAlways == Spec => []AssertionsHold
  BY RingInvariant, IInvAssertionsHold, PTL
=============================================================================
