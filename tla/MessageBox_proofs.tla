--------------------------- MODULE MessageBox_proofs ---------------------------
(***************************************************************************)
(* For any messages and limits, and however often calls to the daemon      *)
(* fail: what the program's copies, the info files and the index say of    *)
(* the messages there are.                                                 *)
(***************************************************************************)
EXTENDS MessageBox, TLAPS

(* The variables that the argument is about keep their types.              *)
Shapes ==
  /\ store \in [Boxes -> SUBSET Ids] /\ info \in [Boxes -> SUBSET Ids]
  /\ cache \in [Boxes -> SUBSET Ids]
  /\ index \in SUBSET Ids
  /\ skipped \in [Boxes -> BOOLEAN]
  /\ behind \in SUBSET Boxes
  /\ torn \in SUBSET Ids
  /\ opened \in BOOLEAN /\ scanning \in BOOLEAN /\ exists \in BOOLEAN

(* A box that is open is there, and the daemon leaves it alone.            *)
OpenIsSuspended == opened => exists /\ ~scanning

(* A box that does not exist has no messages.                              *)
NoBoxNoMessages == ~exists => store = Empty

IInv ==
  /\ Shapes /\ OpenIsSuspended /\ NoBoxNoMessages
  /\ CacheIsFresh /\ InfoIsCommitted /\ IndexIsKept

-----------------------------------------------------------------------------
(* What the ends of the writes make of the two properties about copies.    *)

(* Every info file is written that was put off: the files that are then    *)
(* not marked as left behind list the messages there are.                  *)
LEMMA CommitKeepsInfo ==
  ASSUME IInv, NEW f \in BOOLEAN, NEW end \in [Boxes -> Ends(f) \cup {"none"}],
         Commit(f, end), ListMessages(end, store)
  PROVE  /\ \A b \in Boxes \ behind' : info'[b] = store[b]
         /\ info' \in [Boxes -> SUBSET Ids] /\ behind' \in SUBSET Boxes
  BY DEF IInv, Shapes, InfoIsCommitted, Commit, ListMessages, Ends

(* A write of all the files that are changed, or of none.                  *)
LEMMA WriteKeepsInfo ==
  ASSUME IInv, NEW files \in [Boxes -> SUBSET Ids],
         NEW end, \A b \in Boxes : end[b] = "none" => files[b] = store[b],
         WriteBoxInfo(end, files)
  PROVE  /\ \A b \in Boxes \ behind' :
              /\ end[b] # "none" => info'[b] = files[b] /\ cache'[b] = files[b]
              /\ end[b] = "none" =>
                   /\ info'[b] = info[b] /\ cache'[b] = cache[b]
                   /\ skipped'[b] = skipped[b] /\ b \notin behind
         /\ info' \in [Boxes -> SUBSET Ids] /\ cache' \in [Boxes -> SUBSET Ids]
         /\ skipped' \in [Boxes -> BOOLEAN] /\ behind' \in SUBSET Boxes
  BY DEF IInv, Shapes, WriteBoxInfo, ListMessages, CopyInfo, ForgetSkipped, SetSkipped

(* So the copies are as they should be after it, of a box that is open.    *)
LEMMA WriteKeepsCopies ==
  ASSUME IInv, NEW files \in [Boxes -> SUBSET Ids],
         NEW end, \A b \in Boxes : end[b] = "none" => opened /\ files[b] = store[b],
         WriteBoxInfo(end, files), store' = files, opened'
  PROVE  (CacheIsFresh /\ InfoIsCommitted)'
  <1>1. CacheIsFresh'
    BY WriteKeepsInfo DEF IInv, CacheIsFresh
  <1>2. InfoIsCommitted'
    BY WriteKeepsInfo DEF IInv, InfoIsCommitted
  <1> QED BY <1>1, <1>2

(* The same for the write of one of the two info files.                    *)
LEMMA WriteOneKeepsCopies ==
  ASSUME IInv, NEW files \in [Boxes -> SUBSET Ids], NEW b \in Boxes,
         NEW f \in BOOLEAN, NEW e \in Ends(f),
         \A c \in Boxes \ {b} : files[c] = store[c],
         WriteBoxInfo(Only(b, e), files), store' = files, opened, opened'
  PROVE  /\ (CacheIsFresh /\ InfoIsCommitted)'
         /\ info' \in [Boxes -> SUBSET Ids] /\ cache' \in [Boxes -> SUBSET Ids]
         /\ skipped' \in [Boxes -> BOOLEAN] /\ behind' \in SUBSET Boxes
  <1>1. \A c \in Boxes : Only(b, e)[c] = "none" => opened /\ files[c] = store[c]
    BY DEF Only, Ends
  <1> QED BY <1>1, WriteKeepsInfo, WriteKeepsCopies

(* Putting a write off.                                                    *)
LEMMA PutOffKeepsCopies ==
  ASSUME IInv, NEW files \in [Boxes -> SUBSET Ids], NEW b \in Boxes, NEW change,
         \A c \in Boxes \ {b} : files[c] = store[c],
         PutOff(b, change), store' = files, opened, opened'
  PROVE  /\ (CacheIsFresh /\ InfoIsCommitted)'
         /\ info' \in [Boxes -> SUBSET Ids] /\ cache' \in [Boxes -> SUBSET Ids]
         /\ skipped' \in [Boxes -> BOOLEAN] /\ behind' \in SUBSET Boxes
  <1>1. CacheIsFresh'
    BY DEF IInv, Shapes, CacheIsFresh, PutOff
  <1>2. InfoIsCommitted'
    BY DEF IInv, Shapes, InfoIsCommitted, PutOff
  <1> QED BY <1>1, <1>2 DEF PutOff, IInv, Shapes

(* An open box that is forgotten is marked as left behind.                 *)
LEMMA AbandonKeepsInfo ==
  ASSUME IInv, behind' = behind \cup Abandoned, UNCHANGED <<info, store>>
  PROVE  \A b \in Boxes \ behind' : info'[b] = store'[b]
  BY DEF IInv, InfoIsCommitted, Abandoned

-----------------------------------------------------------------------------
(* What becomes of the index.                                              *)

(* An index made anew lacks the messages in doubt, and no others.          *)
LEMMA ResetKeepsIndex ==
  ASSUME store' \in [Boxes -> SUBSET Ids], ResetIndex
  PROVE  IndexIsKept' /\ index' \in SUBSET Ids /\ torn' \in SUBSET Ids
  <1>1. store'["out"] \in SUBSET Ids
    BY DEF Boxes
  <1>2. index' = {} \/ index' = store'["out"]
    BY DEF ResetIndex
  <1> QED BY <1>1, <1>2 DEF ResetIndex, IndexIsKept

(* A reading leaves the entries it found, or an index made anew.           *)
LEMMA ReadKeepsIndex ==
  ASSUME store' \in [Boxes -> SUBSET Ids], NEW f \in BOOLEAN,
         NEW entries \in SUBSET Ids, NEW doubt \in SUBSET Ids,
         \A i \in Ids \ doubt : i \in entries <=> i \in store'["out"],
         ReadOutBoxIndex(f, entries, doubt)
  PROVE  IndexIsKept' /\ index' \in SUBSET Ids /\ torn' \in SUBSET Ids
  <1>1. CASE ResetIndex
    BY <1>1, ResetKeepsIndex
  <1>2. CASE index' = entries /\ torn' = doubt
    BY <1>2 DEF IndexIsKept
  <1> QED BY <1>1, <1>2 DEF ReadOutBoxIndex

(* new is the index of the messages there are, but for those in doubt that *)
(* the change is not about.                                                *)
Indexes(new) ==
  new \in SUBSET Ids /\ \A i \in Ids \ (torn \ Differ(new)) : i \in new <=> i \in store'["out"]

(* A change of the index is made, or puts in doubt what it is about.       *)
LEMMA ChangeKeepsIndex ==
  ASSUME index \in SUBSET Ids, torn \in SUBSET Ids, store' \in [Boxes -> SUBSET Ids],
         NEW f \in BOOLEAN, NEW new, Indexes(new), ChangeIndex(f, new) \/ LoseChange(new)
  PROVE  IndexIsKept' /\ index' \in SUBSET Ids /\ torn' \in SUBSET Ids
  <1>1. new \in SUBSET Ids /\ torn \ Differ(new) \in SUBSET Ids
    BY DEF Indexes
  <1>2. CASE ReadOutBoxIndex(f, new, torn \ Differ(new))
    BY <1>1, <1>2, ReadKeepsIndex DEF Indexes
  <1>3. CASE LoseChange(new)
    BY <1>1, <1>3 DEF LoseChange, Differ, Indexes, IndexIsKept
  <1> QED BY <1>2, <1>3 DEF ChangeIndex

(* The index is emptied with the outbox, or what it had is in doubt.       *)
LEMMA EmptyKeepsIndex ==
  ASSUME index \in SUBSET Ids, torn \in SUBSET Ids, store' \in [Boxes -> SUBSET Ids],
         store'["out"] = {}, NEW f \in BOOLEAN, ResetOutBoxIndex(f)
  PROVE  IndexIsKept' /\ index' \in SUBSET Ids /\ torn' \in SUBSET Ids
  <1>1. CASE ResetIndex
    BY <1>1, ResetKeepsIndex
  <1>2. CASE LoseChange({})
    BY <1>2, ChangeKeepsIndex DEF Indexes
  <1> QED BY <1>1, <1>2 DEF ResetOutBoxIndex

(* The same index serves the same outbox.                                  *)
LEMMA SameIndexes ==
  ASSUME IInv, store'["out"] = store["out"]
  PROVE  Indexes(index)
  BY DEF IInv, Shapes, IndexIsKept, Indexes, Differ

-----------------------------------------------------------------------------
(* Nothing exists, is open or listed at first.                             *)
THEOREM InitEstablishes == Init => IInv
  BY DEF Init, IInv, Shapes, OpenIsSuspended, NoBoxNoMessages, CacheIsFresh,
         InfoIsCommitted, IndexIsKept, Empty, Boxes

USE DEF session, SetSkipped, NoneSkipped

(* The steps that open, create, close and delete boxes.                    *)
LEMMA BoxStepKeeps ==
  ASSUME IInv, NEW f \in BOOLEAN,
         \/ OpenMessageBox(f) \/ OpenFails(f) \/ CommitMessageBox(f) \/ CloseMessageBox(f)
         \/ CreateMessageBox(f) \/ CreateFails(f) \/ DeleteBoxFails(f)
         \/ Finalize \/ CreateRefused \/ DeleteMessageBox \/ StopScanning
  PROVE  IInv'
  <1> USE DEF IInv, Shapes
  <1>e. Empty \in [Boxes -> SUBSET Ids] /\ \A b \in Boxes : Empty[b] = {}
    BY DEF Empty
  <1>1. CASE OpenMessageBox(f)
    <2>1. /\ exists /\ exists' = exists /\ store' = store /\ info' = info
          /\ opened' = TRUE /\ scanning' = FALSE
          /\ skipped' = [b \in Boxes |-> FALSE] /\ cache' = info
          /\ behind' = behind \cup Abandoned
          /\ ReadOutBoxIndex(f, index, torn)
      BY <1>1 DEF OpenMessageBox
    <2>2. IndexIsKept' /\ index' \in SUBSET Ids /\ torn' \in SUBSET Ids
      BY <2>1, ReadKeepsIndex DEF IndexIsKept
    <2>3. (CacheIsFresh /\ InfoIsCommitted)'
      BY <2>1, AbandonKeepsInfo DEF CacheIsFresh, InfoIsCommitted
    <2> QED BY <2>1, <2>2, <2>3 DEF OpenIsSuspended, NoBoxNoMessages, Abandoned
  <1>2. CASE OpenFails(f)
    BY <1>2, <1>e, AbandonKeepsInfo
    DEF OpenFails, OpenIsSuspended, NoBoxNoMessages, CacheIsFresh, InfoIsCommitted, IndexIsKept, Abandoned
  <1>3. CASE CommitMessageBox(f)
    <2>1. PICK end \in [Boxes -> Ends(f) \cup {"none"}] : Commit(f, end) /\ WriteBoxInfo(end, store)
      BY <1>3 DEF CommitMessageBox
    <2>2. UNCHANGED <<exists, store, index, order, session, torn>> /\ opened
      BY <1>3 DEF CommitMessageBox
    <2>3. (CacheIsFresh /\ InfoIsCommitted)'
      BY <2>1, <2>2, WriteKeepsCopies
    <2>4. /\ info' \in [Boxes -> SUBSET Ids] /\ cache' \in [Boxes -> SUBSET Ids]
          /\ skipped' \in [Boxes -> BOOLEAN] /\ behind' \in SUBSET Boxes
      BY <2>1, WriteKeepsInfo
    <2> QED BY <2>2, <2>3, <2>4 DEF OpenIsSuspended, NoBoxNoMessages, IndexIsKept
  <1>4. CASE CloseMessageBox(f)
    <2>1. PICK end \in [Boxes -> Ends(f) \cup {"none"}] :
            Commit(f, end) /\ ListMessages(end, store) /\ ForgetSkipped(end)
      BY <1>4 DEF CloseMessageBox
    <2>2. UNCHANGED <<exists, store, index, torn>> /\ Closed
      BY <1>4 DEF CloseMessageBox
    <2>3. /\ \A b \in Boxes \ behind' : info'[b] = store[b]
          /\ info' \in [Boxes -> SUBSET Ids] /\ behind' \in SUBSET Boxes
      BY <2>1, CommitKeepsInfo
    <2>4. skipped' \in [Boxes -> BOOLEAN]
      BY <2>1 DEF ForgetSkipped
    <2> QED BY <2>2, <2>3, <2>4, <1>e
        DEF Closed, OpenIsSuspended, NoBoxNoMessages, CacheIsFresh, InfoIsCommitted, IndexIsKept
  <1>5. CASE CreateMessageBox(f)
    <2>1. PICK end \in [Boxes -> Ends(f)] : WriteBoxInfo(end, Empty)
      BY <1>5 DEF CreateMessageBox
    <2>2. \A b \in Boxes : end[b] # "none"
      BY <2>1 DEF Ends
    <2>3. store' = Empty /\ exists' = TRUE /\ opened' = TRUE /\ scanning' = FALSE
      BY <1>5 DEF CreateMessageBox
    <2>4. (CacheIsFresh /\ InfoIsCommitted)'
      BY <2>1, <2>2, <2>3, <1>e, WriteKeepsCopies
    <2>5. /\ info' \in [Boxes -> SUBSET Ids] /\ cache' \in [Boxes -> SUBSET Ids]
          /\ skipped' \in [Boxes -> BOOLEAN] /\ behind' \in SUBSET Boxes
      BY <2>1, <2>2, <1>e, WriteKeepsInfo
    <2>6. IndexIsKept' /\ index' \in SUBSET Ids /\ torn' \in SUBSET Ids
      BY <1>5, <2>3, <1>e, EmptyKeepsIndex DEF CreateMessageBox, Boxes
    <2> QED BY <2>3, <2>4, <2>5, <2>6, <1>e DEF OpenIsSuspended, NoBoxNoMessages
  <1>6. CASE CreateFails(f)
    <2>1. PICK end \in [Boxes -> Ends(f)] : ListMessages(end, Empty) /\ ForgetSkipped(end)
      BY <1>6 DEF CreateFails
    <2>2. store = Empty /\ store' = Empty /\ exists' \in BOOLEAN /\ Closed /\ UNCHANGED <<index, torn>>
      BY <1>6 DEF CreateFails, NoBoxNoMessages
    <2>3. /\ info' \in [Boxes -> SUBSET Ids] /\ behind' \in SUBSET Boxes
          /\ \A b \in Boxes \ behind' : info'[b] = Empty[b]
      BY <2>1, <1>e DEF ListMessages, Ends
    <2>4. skipped' \in [Boxes -> BOOLEAN]
      BY <2>1 DEF ForgetSkipped
    <2> QED BY <2>2, <2>3, <2>4, <1>e
        DEF Closed, OpenIsSuspended, NoBoxNoMessages, CacheIsFresh, InfoIsCommitted, IndexIsKept
  <1>7. CASE DeleteBoxFails(f)
    BY <1>7, <1>e, AbandonKeepsInfo
    DEF DeleteBoxFails, Closed, OpenIsSuspended, NoBoxNoMessages, CacheIsFresh, InfoIsCommitted, IndexIsKept, Abandoned
  <1>8. CASE Finalize
    BY <1>8, <1>e, AbandonKeepsInfo
    DEF Finalize, OpenIsSuspended, NoBoxNoMessages, CacheIsFresh, InfoIsCommitted, IndexIsKept, Abandoned
  <1>9. CASE CreateRefused
    BY <1>9, AbandonKeepsInfo
    DEF CreateRefused, OpenIsSuspended, NoBoxNoMessages, CacheIsFresh, InfoIsCommitted, IndexIsKept, Abandoned
  <1>10. CASE DeleteMessageBox
    BY <1>10, <1>e
    DEF DeleteMessageBox, Closed, OpenIsSuspended, NoBoxNoMessages, CacheIsFresh, InfoIsCommitted, IndexIsKept, Boxes
  <1>11. CASE StopScanning
    BY <1>11
    DEF StopScanning, OpenIsSuspended, NoBoxNoMessages, CacheIsFresh, InfoIsCommitted, IndexIsKept
  <1> QED BY <1>1, <1>2, <1>3, <1>4, <1>5, <1>6, <1>7, <1>8, <1>9, <1>10, <1>11

(* WriteMessage, whether it stores the message, and writes the info file   *)
(* now or later.                                                           *)
LEMMA WriteKeeps ==
  ASSUME IInv, NEW f \in BOOLEAN, NEW b \in Boxes, NEW id \in Ids,
         NEW known \in BOOLEAN, NEW now \in BOOLEAN, WriteMessage(f, b, id, known, now)
  PROVE  IInv'
  <1> USE DEF IInv, Shapes
  <1> DEFINE files(stored) == IF stored THEN [store EXCEPT ![b] = @ \cup {id}] ELSE store
             unlisted(stored) == IF files(stored)["out"] = store["out"] THEN index ELSE index \cup {id}
  <1>1. opened /\ UNCHANGED <<exists, session>>
    BY DEF WriteMessage
  <1>2. PICK stored \in BOOLEAN :
          /\ store' = files(stored)
          /\ \/ \E end \in Ends(f) :
                  /\ now
                  /\ WriteBoxInfo(Only(b, end), files(stored))
                  /\ IF end = "done" /\ Appends(b, stored, known)
                     THEN ChangeIndex(f, index \cup {id})
                     ELSE LoseChange(unlisted(stored))
             \/ /\ ~now
                /\ PutOff(b, IF stored /\ ~known THEN 1 ELSE 0)
                /\ IF Appends(b, stored, known)
                   THEN ChangeIndex(f, index \cup {id})
                   ELSE LoseChange(unlisted(stored))
    BY DEF WriteMessage
  <1>3. /\ files(stored) \in [Boxes -> SUBSET Ids]
        /\ \A c \in Boxes \ {b} : files(stored)[c] = store[c]
    OBVIOUS
  <1>4. /\ (CacheIsFresh /\ InfoIsCommitted)'
        /\ info' \in [Boxes -> SUBSET Ids] /\ cache' \in [Boxes -> SUBSET Ids]
        /\ skipped' \in [Boxes -> BOOLEAN] /\ behind' \in SUBSET Boxes
    <2> HIDE DEF files, unlisted
    <2>1. CASE now
      BY <1>1, <1>2, <1>3, <2>1, WriteOneKeepsCopies
    <2>2. CASE ~now
      BY <1>1, <1>2, <1>3, <2>2, PutOffKeepsCopies
    <2> QED BY <2>1, <2>2
  <1>5. \/ Appends(b, stored, known) /\ ChangeIndex(f, index \cup {id})
        \/ LoseChange(unlisted(stored))
    BY <1>2
  <1>6. IndexIsKept' /\ index' \in SUBSET Ids /\ torn' \in SUBSET Ids
    <2>1. CASE b = "out" /\ stored
      <3>1. store'["out"] = store["out"] \cup {id}
        BY <1>2, <2>1
      <3>2. Indexes(index \cup {id})
        BY <3>1 DEF Indexes, Differ, IndexIsKept
      <3>3. Indexes(unlisted(stored))
        BY <1>2, <3>2, SameIndexes
      <3> QED BY <1>2, <1>3, <1>5, <3>2, <3>3, ChangeKeepsIndex
    <2>2. CASE ~(b = "out" /\ stored)
      <3>1. store'["out"] = store["out"]
        BY <1>2, <2>2 DEF Boxes
      <3>2. ~Appends(b, stored, known) /\ unlisted(stored) = index
        BY <1>2, <2>2, <3>1 DEF Appends
      <3> QED BY <1>2, <1>3, <1>5, <3>1, <3>2, SameIndexes, ChangeKeepsIndex
    <2> QED BY <2>1, <2>2
  <1>7. store' \in [Boxes -> SUBSET Ids] /\ opened' \in BOOLEAN /\ scanning' \in BOOLEAN /\ exists' \in BOOLEAN
    BY <1>1, <1>2, <1>3
  <1> QED BY <1>1, <1>4, <1>6, <1>7 DEF OpenIsSuspended, NoBoxNoMessages

(* DeleteMessage, whether the daemon has the message or not.               *)
LEMMA DeleteKeeps ==
  ASSUME IInv, NEW f \in BOOLEAN, NEW b \in Boxes, NEW id \in Ids,
         NEW now \in BOOLEAN, DeleteMessage(f, b, id, now)
  PROVE  IInv'
  <1> USE DEF IInv, Shapes
  <1> DEFINE files(deleted) == IF deleted THEN [store EXCEPT ![b] = @ \ {id}] ELSE store
             removes(deleted) == b = "out" /\ deleted
  <1>1. opened /\ UNCHANGED <<exists, session>>
    BY DEF DeleteMessage
  <1>2. PICK deleted \in BOOLEAN :
          /\ store' = files(deleted)
          /\ \/ \E end \in Ends(f) :
                  /\ now
                  /\ WriteBoxInfo(Only(b, end), files(deleted))
                  /\ CASE removes(deleted) /\ end = "done" -> ChangeIndex(f, index \ {id})
                       [] removes(deleted) /\ end # "done" -> LoseChange(index \ {id})
                       [] ~removes(deleted) -> KeepIndex
             \/ /\ ~now
                /\ PutOff(b, IF deleted THEN -1 ELSE 0)
                /\ IF removes(deleted) THEN ChangeIndex(f, index \ {id}) ELSE KeepIndex
    BY DEF DeleteMessage
  <1>3. /\ files(deleted) \in [Boxes -> SUBSET Ids]
        /\ \A c \in Boxes \ {b} : files(deleted)[c] = store[c]
    OBVIOUS
  <1>4. /\ (CacheIsFresh /\ InfoIsCommitted)'
        /\ info' \in [Boxes -> SUBSET Ids] /\ cache' \in [Boxes -> SUBSET Ids]
        /\ skipped' \in [Boxes -> BOOLEAN] /\ behind' \in SUBSET Boxes
    <2> HIDE DEF files, removes
    <2>1. CASE now
      BY <1>1, <1>2, <1>3, <2>1, WriteOneKeepsCopies
    <2>2. CASE ~now
      BY <1>1, <1>2, <1>3, <2>2, PutOffKeepsCopies
    <2> QED BY <2>1, <2>2
  <1>5. \/ removes(deleted) /\ (ChangeIndex(f, index \ {id}) \/ LoseChange(index \ {id}))
        \/ ~removes(deleted) /\ KeepIndex
    BY <1>2
  <1>6. IndexIsKept' /\ index' \in SUBSET Ids /\ torn' \in SUBSET Ids
    <2>1. CASE removes(deleted)
      <3>1. store'["out"] = store["out"] \ {id}
        BY <1>2, <2>1
      <3>2. Indexes(index \ {id})
        BY <3>1 DEF Indexes, Differ, IndexIsKept
      <3> QED BY <1>2, <1>3, <1>5, <2>1, <3>2, ChangeKeepsIndex
    <2>2. CASE ~removes(deleted)
      <3>1. store'["out"] = store["out"]
        BY <1>2, <2>2 DEF Boxes
      <3> QED BY <1>5, <2>2, <3>1 DEF KeepIndex, IndexIsKept
    <2> QED BY <2>1, <2>2
  <1>7. store' \in [Boxes -> SUBSET Ids] /\ opened' \in BOOLEAN /\ scanning' \in BOOLEAN /\ exists' \in BOOLEAN
    BY <1>1, <1>2, <1>3
  <1> QED BY <1>1, <1>4, <1>6, <1>7 DEF OpenIsSuspended, NoBoxNoMessages

(* DeleteAllMessages.                                                      *)
LEMMA DeleteAllKeeps ==
  ASSUME IInv, NEW f \in BOOLEAN, NEW b \in Boxes, DeleteAllMessages(f, b)
  PROVE  IInv'
  <1> USE DEF IInv, Shapes
  <1>1. opened /\ UNCHANGED <<exists, session>> /\ store' = [store EXCEPT ![b] = {}]
    BY DEF DeleteAllMessages
  <1>2. PICK end \in Ends(f) : WriteBoxInfo(Only(b, end), store')
    BY DEF DeleteAllMessages
  <1>3. store' \in [Boxes -> SUBSET Ids] /\ \A c \in Boxes \ {b} : store'[c] = store[c]
    BY <1>1
  <1>4. /\ (CacheIsFresh /\ InfoIsCommitted)'
        /\ info' \in [Boxes -> SUBSET Ids] /\ cache' \in [Boxes -> SUBSET Ids]
        /\ skipped' \in [Boxes -> BOOLEAN] /\ behind' \in SUBSET Boxes
    BY <1>1, <1>2, <1>3, WriteOneKeepsCopies
  <1>5. IndexIsKept' /\ index' \in SUBSET Ids /\ torn' \in SUBSET Ids
    <2>1. CASE b = "out"
      BY <1>1, <1>3, <2>1, EmptyKeepsIndex DEF DeleteAllMessages
    <2>2. CASE b # "out"
      BY <1>1, <2>2 DEF DeleteAllMessages, KeepIndex, IndexIsKept, Boxes
    <2> QED BY <2>1, <2>2
  <1> QED BY <1>1, <1>3, <1>4, <1>5 DEF OpenIsSuspended, NoBoxNoMessages

(* DeleteSentMessages; it may stop half way through the index.             *)
LEMMA DeleteSentKeeps ==
  ASSUME IInv, NEW f \in BOOLEAN, NEW sent \in SUBSET Ids, DeleteSentMessages(f, sent)
  PROVE  IInv'
  <1> USE DEF IInv, Shapes
  <1>1. opened /\ UNCHANGED <<exists, session>> /\ store' = [store EXCEPT !["out"] = @ \ sent]
    BY DEF DeleteSentMessages
  <1>2. PICK end \in Ends(f) : WriteBoxInfo(Only("out", end), store')
    BY DEF DeleteSentMessages
  <1>3. "out" \in Boxes /\ store' \in [Boxes -> SUBSET Ids] /\ \A c \in Boxes \ {"out"} : store'[c] = store[c]
    BY <1>1 DEF Boxes
  <1>4. /\ (CacheIsFresh /\ InfoIsCommitted)'
        /\ info' \in [Boxes -> SUBSET Ids] /\ cache' \in [Boxes -> SUBSET Ids]
        /\ skipped' \in [Boxes -> BOOLEAN] /\ behind' \in SUBSET Boxes
    BY <1>1, <1>2, <1>3, WriteOneKeepsCopies
  <1>5. PICK removed \in SUBSET sent :
          ReadOutBoxIndex(f, index \ removed, (torn \ removed) \cup (sent \ removed))
    BY DEF DeleteSentMessages
  <1>6. IndexIsKept' /\ index' \in SUBSET Ids /\ torn' \in SUBSET Ids
    <2>1. store'["out"] = store["out"] \ sent
      BY <1>1, <1>3
    <2> QED BY <1>3, <1>5, <2>1, ReadKeepsIndex DEF IndexIsKept
  <1> QED BY <1>1, <1>3, <1>4, <1>6 DEF OpenIsSuspended, NoBoxNoMessages

(* The daemon's own step: no box is open.                                  *)
LEMMA ReceiveKeeps ==
  ASSUME IInv, NEW id \in Ids, Receive(id)
  PROVE  IInv'
  BY DEF IInv, Shapes, Receive, OpenIsSuspended, NoBoxNoMessages, CacheIsFresh,
         InfoIsCommitted, IndexIsKept, Boxes

-----------------------------------------------------------------------------
(* Every step keeps the invariant, whether calls to the daemon fail in it  *)
(* or not.                                                                 *)
THEOREM NextKeeps == IInv /\ [Next]_vars => IInv'
  <1> SUFFICES ASSUME IInv, [Next]_vars
               PROVE  IInv'
    OBVIOUS
  <1>1. ASSUME NEW f \in BOOLEAN, Step(f)
        PROVE  IInv'
    BY <1>1, BoxStepKeeps, WriteKeeps, DeleteKeeps, DeleteAllKeeps, DeleteSentKeeps DEF Step
  <1>2. CASE Finalize \/ CreateRefused \/ DeleteMessageBox \/ StopScanning
    BY <1>2, BoxStepKeeps
  <1>3. CASE \E id \in Ids : Receive(id)
    BY <1>3, ReceiveKeeps
  <1>4. CASE UNCHANGED vars
    BY <1>4 DEF vars, IInv, Shapes, OpenIsSuspended, NoBoxNoMessages, CacheIsFresh,
       InfoIsCommitted, IndexIsKept
  <1> QED BY <1>1, <1>2, <1>3, <1>4 DEF Next

(* The invariant holds of every behaviour of the boxes.                    *)
THEOREM InvariantHolds == Spec => []IInv
  BY InitEstablishes, NextKeeps, PTL DEF Spec

(* For any messages, limits and number of failures, the copy of an info    *)
(* file in an open box lists the messages there are, but for files left    *)
(* behind by a failed call (WriteBoxInfo, OpenMessageBox).                 *)
THEOREM CopiesAreFresh == Spec => []CacheIsFresh
  <1>1. IInv => CacheIsFresh
    BY DEF IInv
  <1> QED BY <1>1, InvariantHolds, PTL

(* And what was put off is written before the box is closed.               *)
THEOREM InfoIsWritten == Spec => []InfoIsCommitted
  <1>1. IInv => InfoIsCommitted
    BY DEF IInv
  <1> QED BY <1>1, InvariantHolds, PTL

(* And the index has the messages of the outbox, all and only them: a call *)
(* that fails leaves in doubt the messages it was about and no others, but *)
(* that cecd may make the index anew, without entries, when the program    *)
(* cannot read it (ReadOutBoxIndex).                                       *)
THEOREM IndexIsRight == Spec => []IndexIsKept
  <1>1. IInv => IndexIsKept
    BY DEF IInv
  <1> QED BY <1>1, InvariantHolds, PTL

=============================================================================
