------------------------------ MODULE LifoRing ------------------------------
(***************************************************************************)
(* The rings of samples in the shared memory of hid: ReadData of the rings *)
(* of the pad, the touch panel, the accelerometer, the gyroscope and the   *)
(* debug pad, one algorithm with five payloads, and the two ways in which  *)
(* the readers of hid call it.  No lock is shared with the server, which   *)
(* goes on writing: a reader loads the three words of the ring one by one, *)
(* copies the entries word by word and loads the three words again.        *)
(*                                                                         *)
(* The module ends where ReadData returns.  What the readers then do with  *)
(* the entries is theirs: PadReader::Read drops them while the extra pad   *)
(* samples, and GyroscopeReader::ReadLatest gathers them in a buffer that  *)
(* GyroscopeReader::Read hands out later.                                  *)
(*                                                                         *)
(* The server is not in the repository.  Its steps are those the branches  *)
(* of ReadData are written for: before it writes slot 0 again it keeps the *)
(* tick of that slot, so that equal ticks mean that slot 0 is not yet      *)
(* written.  A tick is the number of the entry written at that moment; an  *)
(* entry is Words times its number.                                        *)
(***************************************************************************)
EXTENDS Integers, Sequences, FiniteSetsExt

CONSTANTS
  NUM,          \* ..._LIFORING_BUFFER_NUM: entries of the ring
  Words,        \* words of an entry
  Lengths,      \* lengths of the buffers passed to ReadData
  MaxEntries    \* bound: entries the server writes

ASSUME SizesAssumption ==
  NUM \in Nat \ {0, 1} /\ Words \in Nat \ {0} /\ Lengths \subseteq Int

VARIABLES
  writePointer, tickWriteZero, oldTickWriteZero, buffers,   \* the ring
  written,      \* entries the server has published
  server,       \* what the server does next, and the words it has written
  indexOfRead, tickOfRead,   \* m_IndexOfRead, m_TickOfRead of the reader
  pc,           \* where the reader is
  call,         \* parameters of its call
  org,          \* its first loads of the three words
  newest,       \* its local writePointer
  readCount,
  copied,       \* the words copied so far, entry after entry
  before        \* history: written when this pass of the loop began

ring == <<writePointer, tickWriteZero, oldTickWriteZero, buffers>>
kept == <<indexOfRead, tickOfRead>>
locals == <<call, org, newest, readCount, copied, before>>
vars == <<ring, written, server, kept, pc, locals>>

NoWords == [pointer |-> -1, tick |-> -1, old |-> -1]

Init ==
  /\ writePointer = -1 /\ tickWriteZero = -1 /\ oldTickWriteZero = -1
  /\ buffers = [slot \in 0..NUM-1 |-> [w \in 1..Words |-> 0]]
  /\ written = 0
  /\ server = [step |-> "begin", words |-> 0]
  /\ indexOfRead = -1 /\ tickOfRead = -1
  /\ pc = "idle"
  /\ call = [len |-> 0, tick |-> -1, index |-> -1, keep |-> FALSE]
  /\ org = NoWords /\ newest = -1 /\ readCount = 0 /\ copied = <<>>
  /\ before = 0

-----------------------------------------------------------------------------
(* The server.                                                             *)

Slot == written % NUM

KeepTick ==
  /\ server.step = "begin" /\ written < MaxEntries /\ Slot = 0
  /\ oldTickWriteZero' = tickWriteZero
  /\ server' = [server EXCEPT !.step = "wrap"]
  /\ UNCHANGED <<writePointer, tickWriteZero, buffers>>

Wrap ==
  /\ server.step = "wrap"
  /\ writePointer' = 0
  /\ server' = [server EXCEPT !.step = "entry"]
  /\ UNCHANGED <<tickWriteZero, oldTickWriteZero, buffers>>

WriteWord ==
  /\ \/ server.step = "entry"
     \/ server.step = "begin" /\ written < MaxEntries /\ Slot # 0
  /\ server.words < Words
  /\ buffers' = [buffers EXCEPT ![Slot][server.words + 1] = written + 1]
  /\ server' = [step |-> "entry", words |-> server.words + 1]
  /\ UNCHANGED <<writePointer, tickWriteZero, oldTickWriteZero>>

Publish ==
  /\ server.words = Words
  /\ IF Slot = 0
       THEN tickWriteZero' = written + 1 /\ UNCHANGED writePointer
       ELSE writePointer' = Slot /\ UNCHANGED tickWriteZero
  /\ server' = [step |-> "begin", words |-> 0]
  /\ UNCHANGED <<oldTickWriteZero, buffers>>

Server ==
  /\ \/ (KeepTick \/ Wrap \/ WriteWord) /\ UNCHANGED written
     \/ Publish /\ written' = written + 1
  /\ UNCHANGED <<kept, pc, locals>>

-----------------------------------------------------------------------------
(* The readers' calls of ReadData.  Read of every reader, and ReadLatest   *)
(* of the gyroscope, go on where the last such call ended; ReadLatest of   *)
(* the others asks for one entry as if nothing had been read.              *)

Call(len, tick, index, keep) ==
  /\ pc = "idle"
  /\ call' = [len |-> len, tick |-> tick, index |-> index, keep |-> keep]
  /\ readCount' = 0
  /\ pc' = IF len <= 0 THEN "idle" ELSE "pointer"
  /\ UNCHANGED <<ring, written, server, kept, org, newest, copied, before>>

ReadOn == \E len \in Lengths : Call(len, tickOfRead, indexOfRead, TRUE)
ReadNewest == Call(1, -1, -1, FALSE)

(* Fault: the whole ring may be read, the slot being written included.     *)
WholeRing == Min({call.len, NUM})

MaxRead == Min({call.len, NUM - 1})

LoadPointer ==
  /\ pc = "pointer"
  /\ org' = [NoWords EXCEPT !.pointer = writePointer]
  /\ copied' = <<>>
  /\ before' = written
  /\ pc' = "tick"
  /\ UNCHANGED <<ring, written, server, kept, call, newest, readCount>>

LoadTick ==
  /\ pc = "tick"
  /\ org' = [org EXCEPT !.tick = tickWriteZero]
  /\ pc' = "old"
  /\ UNCHANGED <<ring, written, server, kept, call, newest, readCount, copied,
                 before>>

(* Fault: slot 0 is taken for written as soon as the pointer is there.     *)
PointerAlone(words) == words.pointer

(* The slot of the newest entry; -1 if there is none.                      *)
Newest(words) ==
  IF words.pointer = 0 /\ words.tick = words.old
    THEN IF words.tick < 0 THEN -1 ELSE NUM - 1
    ELSE words.pointer

(* Fault: the rest of the last round of the ring is counted one short.     *)
CountShort(words, p) ==
  IF words.tick <= call.tick THEN p - call.index
  ELSE IF words.old < 0 THEN p + 1
  ELSE IF words.old <= call.tick THEN p + NUM - 1 - call.index
  ELSE MaxRead

(* The entries which the caller has not read.                              *)
Count(words, p) ==
  IF words.tick <= call.tick THEN p - call.index
  ELSE IF words.old < 0 THEN p + 1
  ELSE IF words.old <= call.tick THEN p + NUM - call.index
  ELSE MaxRead

LoadOld ==
  /\ pc = "old"
  /\ LET words == [org EXCEPT !.old = oldTickWriteZero]
         p == Newest(words)
     IN /\ org' = words
        /\ newest' = p
        /\ readCount' = IF p < 0 THEN 0 ELSE Min({MaxRead, Count(words, p)})
        /\ pc' = IF p < 0 THEN "idle" ELSE "copy"
  /\ UNCHANGED <<ring, written, server, kept, call, copied, before>>

CopyWord ==
  /\ pc = "copy" /\ Len(copied) < readCount * Words
  /\ LET i == Len(copied) \div Words
         word == (Len(copied) % Words) + 1
     IN copied' = Append(copied, buffers[(NUM + newest - i) % NUM][word])
  /\ UNCHANGED <<ring, written, server, kept, pc, call, org, newest,
                 readCount, before>>

(* The three words are loaded again, and all is done again if one differs. *)
Check(at, same, next) ==
  /\ pc = at
  /\ pc' = IF same THEN next ELSE "pointer"
  /\ UNCHANGED <<ring, written, server, kept, locals>>

CheckPointer ==
  /\ Len(copied) >= readCount * Words
  /\ Check("copy", writePointer = org.pointer, "checkTick")
CheckTick == Check("checkTick", tickWriteZero = org.tick, "checkOld")
CheckOld == Check("checkOld", oldTickWriteZero = org.old, "done")

Return ==
  /\ pc = "done"
  /\ IF call.keep
       THEN tickOfRead' = org.tick /\ indexOfRead' = newest
       ELSE UNCHANGED kept
  /\ pc' = "idle"
  /\ UNCHANGED <<ring, written, server, locals>>

Reader ==
  \/ ReadOn \/ ReadNewest \/ LoadPointer \/ LoadTick \/ LoadOld \/ CopyWord
  \/ CheckPointer \/ CheckTick \/ CheckOld \/ Return

Next == Server \/ Reader

Spec == Init /\ [][Next]_vars

-----------------------------------------------------------------------------
(* The check compares the words with what they were and cannot see that    *)
(* the server went once around the ring between two loads: what follows is *)
(* said of a pass of the loop in which it did not.                         *)
NotLapped == written - before < NUM

(* The number of the entry in slot index of the round begun at tick.       *)
Number(tick, index) == IF tick < 0 THEN 0 ELSE tick + index

(* Entry i of what was copied, 0 the newest.                               *)
Entry(i) == SubSeq(copied, (i * Words) + 1, (i + 1) * Words)

(* What a call of ReadData returns is the newest entries of one moment     *)
(* during the call, whole and in their order: no entry is torn by a server *)
(* that writes while it is copied, none is older than its place says.      *)
ReadsAreConsistent ==
  pc = "done" /\ NotLapped =>
    \E n \in before..written : \A i \in 0..readCount-1 :
      n - i > 0 /\ Entry(i) = [w \in 1..Words |-> n - i]

(* Calls of ReadData from the position kept give each entry at most once,  *)
(* and they leave out an entry only if the caller's buffer or the ring was *)
(* too small for all that was new when the call began.                     *)
ReadsContinue ==
  pc = "done" /\ call.keep /\ NotLapped =>
    LET last == Number(call.tick, call.index) IN
    /\ \A i \in 1..Len(copied) : copied[i] > last
    /\ readCount < MaxRead => last + readCount >= before

(* The assertions of ReadData (hidlow_PadLifoRing.cpp:33, 55 and 61): the  *)
(* pointer is in the ring, the caller's tick is not ahead of the ring's,   *)
(* and the number of new entries is not negative.                          *)
AssertionsHold ==
  pc = "copy" /\ NotLapped =>
    org.pointer \in -1..NUM-1 /\ call.tick <= org.tick /\ readCount >= 0
=============================================================================
