----------------------------- MODULE MessageBox -----------------------------
(***************************************************************************)
(* A StreetPass message box as a program sees it: cec_MessageBox.cpp.  The *)
(* daemon cecd keeps the messages of the inbox and the outbox, an info     *)
(* file for each of them that lists its messages, and the index that       *)
(* orders the outbox.  The program keeps copies of the info files and of   *)
(* the index, and changes messages, info file and index by calls to the    *)
(* daemon that follow one another and fail one by one.  It may put off the *)
(* writing of an info file; the number of messages is then kept apart.     *)
(*                                                                         *)
(* Each public operation is one step, with a choice of what fails in it.   *)
(* The module is about one thread that uses the box at a time: most        *)
(* operations take the box's lock, but CreateMessageBox, CommitMessageBox, *)
(* DeleteMessageBox and DeleteSentMessages do not, and what two threads    *)
(* make of a put-off write with them is not modelled.  The daemon changes  *)
(* a box by itself only while it scans.  A refusal that changes nothing is *)
(* no step.  Of a message only its id is kept, of an index or an info file *)
(* the set of ids in it.                                                   *)
(***************************************************************************)
EXTENDS Integers, FiniteSets

CONSTANTS
  Ids,       \* message ids
  MaxNum,    \* messNumMax of each box
  MaxFaults  \* bound: operations in which a rightful call to the daemon fails

ASSUME MaxNumAssumption == MaxNum \in Nat \ {0}
ASSUME MaxFaultsAssumption == MaxFaults \in Nat

VARIABLES
  \* the daemon
  exists,      \* the box of this title exists
  scanning,    \* CEC is not suspended in ndm: s_NdmSuspended is false
  store,       \* the message files of each box
  info,        \* the messages that each info file lists
  index,       \* the outbox index file
  \* the program
  opened,      \* currentCecTitleId # 0
  boxOpened,   \* b_IsBoxOpened
  suspended,   \* b_IsSuspended
  cache,       \* cecInboxInfo_body, cecOutboxInfo_body
  order,       \* cecOutboxIndex
  skipped,     \* b_SkippedWriteInboxInfo, b_SkippedWriteOutboxInfo
  tmp,         \* tmp_cecInboxInfo.messNum, tmp_cecOutboxInfo.messNum (0: not read)
  failures,    \* operations in which a call to the daemon has failed
  \* history
  behind,      \* boxes whose info a failed call or an abandoned box left behind
  torn         \* messages whose place in the index a failed call left in doubt

session == <<opened, boxOpened, suspended, scanning>>
vars == <<exists, store, info, index, session, cache, order, skipped, tmp, failures, behind, torn>>

Boxes == {"in", "out"}
Empty == [b \in Boxes |-> {}]

Init ==
  /\ exists = FALSE /\ scanning = TRUE
  /\ store = Empty /\ info = Empty /\ index = {}
  /\ opened = FALSE /\ boxOpened = FALSE /\ suspended = FALSE
  /\ cache = Empty /\ order = {}
  /\ skipped = [b \in Boxes |-> FALSE]
  /\ tmp = [b \in Boxes |-> 0]
  /\ failures = 0 /\ behind = {} /\ torn = {}

-----------------------------------------------------------------------------
(* What GetMessHeader can return: the messages in the order of the index   *)
(* if that has as many entries as the info file, else those of the file.   *)
View(b) ==
  IF b = "out" /\ Cardinality(order) = Cardinality(cache[b])
  THEN order \cap cache[b] ELSE cache[b]

(* The number of messages WriteMessage compares with the limit.            *)
Num(b) == IF skipped[b] THEN tmp[b] ELSE Cardinality(cache[b])

(* How WriteBoxInfo ends: the info file is written and read back; or it is *)
(* written, but not read, or not into enough memory; or it is not written. *)
(* f: a call of the operation may fail.                                    *)
Ends(f) == IF f THEN {"done", "unread", "emptied", "failed"} ELSE {"done"}
Only(b, end) == [c \in Boxes |-> IF c = b THEN end ELSE "none"]

(* The numbers kept apart are read only while the flags are set.           *)
SetSkipped(flags) ==
  skipped' = flags /\ tmp' = [b \in Boxes |-> IF flags[b] THEN tmp[b] ELSE 0]

NoneSkipped == [b \in Boxes |-> FALSE]

(* Once the inbox's info file is written, nothing of it is put off.        *)
ForgetSkipped(end) ==
  SetSkipped([b \in Boxes |-> skipped[b] /\ (b = "out" \/ end[b] \in {"none", "failed"})])

(* The copy of an info file that was read back, or could not be.           *)
CopyInfo(end, files) ==
  cache' = [b \in Boxes |-> IF end[b] = "done" THEN files[b]
                            ELSE IF end[b] = "emptied" THEN {} ELSE cache[b]]

(* The daemon lists the messages there are.                                *)
ListMessages(end, files) ==
  /\ info' = [b \in Boxes |-> IF end[b] \in {"none", "failed"} THEN info[b] ELSE files[b]]
  /\ behind' = (behind \ {b \in Boxes : end[b] = "done"})
                 \cup {b \in Boxes : end[b] \notin {"none", "done"}}

WriteBoxInfo(end, files) ==
  ListMessages(end, files) /\ CopyInfo(end, files) /\ ForgetSkipped(end)

(* cecd makes the index anew: without entries, or with those of the        *)
(* messages there are.                                                     *)
ResetIndex ==
  /\ index' \in {{}, store'["out"]}
  /\ torn' = store'["out"] \ index'

(* What a reading of the index leaves in the copy.  One that fails leaves  *)
(* what was there, nothing, or entries of one under the header of the      *)
(* other.                                                                  *)
ReadInto(f) == {index'} \cup (IF f THEN SUBSET Ids ELSE {})

(* ReadOutBoxIndex of a file with these entries, of which those of doubt   *)
(* may be wrong.  It makes the index anew if there is no file, or one that *)
(* it fails to open or whose header it does not read whole.                *)
ReadOutBoxIndex(f, entries, doubt) ==
  /\ \/ index' = entries /\ torn' = doubt
     \/ (f \/ entries = {}) /\ ResetIndex
  /\ order' \in ReadInto(f)

Differ(new) == (new \ index) \cup (index \ new)

(* A change of the index that is not made, for a call failed before it.    *)
LoseChange(new) == UNCHANGED <<index, order>> /\ torn' = torn \cup Differ(new)
KeepIndex == UNCHANGED <<index, order, torn>>

(* AppendOutBoxIndex, RemoveOutBoxIndex, and ResetOutBoxIndex: SetData,    *)
(* and the reading of what it has made.                                    *)
ChangeIndex(f, new) ==
  \/ ReadOutBoxIndex(f, new, torn \ Differ(new))
  \/ f /\ LoseChange(new)

ResetOutBoxIndex(f) ==
  \/ ResetIndex /\ order' \in ReadInto(f)
  \/ f /\ LoseChange({})

(* Boxes left with info files that were to be written later.               *)
Abandoned == {b \in Boxes : opened /\ skipped[b]}

Closed ==
  /\ opened' = FALSE /\ boxOpened' = FALSE
  /\ suspended' = FALSE /\ scanning' = TRUE
  /\ cache' = Empty /\ order' = {}

-----------------------------------------------------------------------------
(* Fault: the daemon goes on scanning while the box is open.               *)
OpenScanning(f) ==
  /\ exists
  /\ opened' = TRUE /\ boxOpened' = TRUE /\ suspended' = TRUE /\ scanning' = TRUE
  /\ SetSkipped(NoneSkipped)
  /\ cache' = info
  /\ behind' = behind \cup Abandoned
  /\ UNCHANGED <<exists, store, info>>
  /\ ReadOutBoxIndex(f, index, torn)

OpenMessageBox(f) ==
  /\ exists
  /\ opened' = TRUE /\ boxOpened' = TRUE /\ suspended' = TRUE /\ scanning' = FALSE
  /\ SetSkipped(NoneSkipped)
  /\ cache' = info
  /\ behind' = behind \cup Abandoned
  /\ UNCHANGED <<exists, store, info>>
  /\ ReadOutBoxIndex(f, index, torn)

(* No such box, another private id, or an info file that cannot be read:   *)
(* whatever box was open is closed without a commit.                       *)
OpenFails(f) ==
  /\ opened' = FALSE /\ boxOpened' = FALSE /\ suspended' = TRUE /\ scanning' = TRUE
  /\ cache' = Empty /\ order' = {}
  /\ \/ SetSkipped(skipped)
     \/ f /\ SetSkipped(NoneSkipped)
  /\ behind' = behind \cup Abandoned
  /\ UNCHANGED <<exists, store, info, index, torn>>

(* Fault: the box is forgotten before it is committed.                     *)
CommitUnopened(f, end) == \A b \in Boxes : end[b] = "none"

(* CommitMessageBox writes the info files whose writing was put off.       *)
Commit(f, end) ==
  \A b \in Boxes : IF opened /\ skipped[b] THEN end[b] \in Ends(f) ELSE end[b] = "none"

CommitMessageBox(f) ==
  /\ opened
  /\ \E end \in [Boxes -> Ends(f) \cup {"none"}] : Commit(f, end) /\ WriteBoxInfo(end, store)
  /\ UNCHANGED <<exists, store, index, order, session, torn>>

(* CloseMessageBox; also DeleteMessageBox(title) when it deletes nothing.  *)
CloseMessageBox(f) ==
  /\ \E end \in [Boxes -> Ends(f) \cup {"none"}] :
       Commit(f, end) /\ ListMessages(end, store) /\ ForgetSkipped(end)
  /\ Closed
  /\ UNCHANGED <<exists, store, index, torn>>

(* The destructor forgets the title before it closes the box, which is     *)
(* then not committed.  The next object starts afresh.                     *)
Finalize ==
  /\ opened' = FALSE /\ boxOpened' = FALSE /\ suspended' = FALSE
  /\ scanning' = (scanning \/ boxOpened \/ suspended)
  /\ cache' = Empty /\ order' = {}
  /\ SetSkipped(NoneSkipped)
  /\ behind' = behind \cup Abandoned
  /\ UNCHANGED <<exists, store, info, index, torn>>

(* A new box.  That writing the outbox's info was put off in the box open  *)
(* before is not forgotten.                                                *)
CreateMessageBox(f) ==
  /\ ~exists
  /\ exists' = TRUE /\ store' = Empty
  /\ opened' = TRUE /\ boxOpened' = TRUE /\ suspended' = TRUE /\ scanning' = FALSE
  /\ \E end \in [Boxes -> Ends(f)] : WriteBoxInfo(end, Empty)
  /\ ResetOutBoxIndex(f)

(* The name, say, cannot be written: the box is deleted, or that fails.    *)
CreateFails(f) ==
  /\ ~exists /\ f
  /\ exists' \in BOOLEAN
  /\ \E end \in [Boxes -> Ends(f)] : ListMessages(end, Empty) /\ ForgetSkipped(end)
  /\ Closed
  /\ UNCHANGED <<store, index, torn>>

(* Bad limits, or a box of the title; or no key, and scanning stays        *)
(* suspended.  A box that was open is forgotten, but not closed.           *)
CreateRefused ==
  /\ opened' = FALSE /\ suspended' = TRUE /\ scanning' \in BOOLEAN
  /\ behind' = behind \cup Abandoned
  /\ UNCHANGED <<boxOpened, exists, store, info, index, cache, order, skipped, tmp, torn>>

DeleteMessageBox ==
  /\ exists
  /\ exists' = FALSE /\ store' = Empty /\ info' = Empty /\ index' = {}
  /\ Closed
  /\ behind' = {} /\ torn' = {}
  /\ UNCHANGED <<skipped, tmp>>

(* The box open cannot be deleted, and is closed without a commit.         *)
DeleteBoxFails(f) ==
  /\ f /\ opened
  /\ Closed
  /\ behind' = behind \cup Abandoned
  /\ UNCHANGED <<exists, store, info, index, skipped, tmp, torn>>

-----------------------------------------------------------------------------
(* The info file is to be written later.                                   *)
PutOff(b, change) ==
  /\ skipped' = [skipped EXCEPT ![b] = TRUE]
  /\ tmp' = [tmp EXCEPT ![b] = Num(b) + change]
  /\ UNCHANGED <<info, cache, behind>>

(* Fault: a message whose file could not be written is put in the index.   *)
AppendsUnstored(b, stored, known) == b = "out" /\ ~known

(* The index is told of a message that is new in the outbox.               *)
Appends(b, stored, known) == b = "out" /\ stored /\ ~known

(* WriteMessage of a message that has an id, or is given one that is free. *)
(* known: it looks as if it were there; it is then not counted, and not put*)
(* in the index, although it may have been deleted since the info file was *)
(* written.                                                                *)
WriteMessage(f, b, id, known, now) ==
  /\ opened
  /\ IF known THEN id \in View(b) ELSE id \notin View(b) \/ id \notin store[b]
  /\ known \/ Num(b) + 1 <= MaxNum
  /\ \E stored \in IF f THEN BOOLEAN ELSE {TRUE} :
       LET files == IF stored THEN [store EXCEPT ![b] = @ \cup {id}] ELSE store
           unlisted == IF files["out"] = store["out"] THEN index ELSE index \cup {id}
       IN /\ store' = files
          /\ \/ \E end \in Ends(f) :
                  /\ now
                  /\ WriteBoxInfo(Only(b, end), files)
                  /\ IF end = "done" /\ Appends(b, stored, known)
                     THEN ChangeIndex(f, index \cup {id})
                     ELSE LoseChange(unlisted)
             \/ /\ ~now
                /\ PutOff(b, IF stored /\ ~known THEN 1 ELSE 0)
                /\ IF Appends(b, stored, known)
                   THEN ChangeIndex(f, index \cup {id})
                   ELSE LoseChange(unlisted)
  /\ UNCHANGED <<exists, session>>

(* DeleteMessage: the daemon deletes the message, or has none of that id.  *)
(* Bound: the count kept apart, which is unsigned, runs below zero once.   *)
DeleteMessage(f, b, id, now) ==
  /\ opened
  /\ \E deleted \in (IF id \in store[b] THEN {TRUE} ELSE {FALSE})
                      \cup (IF f THEN {FALSE} ELSE {}) :
       LET files == IF deleted THEN [store EXCEPT ![b] = @ \ {id}] ELSE store
           removes == b = "out" /\ deleted
       IN /\ store' = files
          /\ \/ \E end \in Ends(f) :
                  /\ now
                  /\ WriteBoxInfo(Only(b, end), files)
                  /\ CASE removes /\ end = "done" -> ChangeIndex(f, index \ {id})
                       [] removes /\ end # "done" -> LoseChange(index \ {id})
                       [] ~removes -> KeepIndex
             \/ /\ ~now
                /\ Num(b) >= 0
                /\ PutOff(b, IF deleted THEN -1 ELSE 0)
                /\ IF removes THEN ChangeIndex(f, index \ {id}) ELSE KeepIndex
  /\ UNCHANGED <<exists, session>>

(* DeleteAllMessages deletes the directory and makes it anew.              *)
DeleteAllMessages(f, b) ==
  /\ opened
  /\ store' = [store EXCEPT ![b] = {}]
  /\ \E end \in Ends(f) : WriteBoxInfo(Only(b, end), store')
  /\ IF b = "out" THEN ResetOutBoxIndex(f) ELSE KeepIndex
  /\ UNCHANGED <<exists, session>>

(* DeleteSentMessages: each of the messages sent is deleted and taken out  *)
(* of the index, until one cannot be deleted.                              *)
DeleteSentMessages(f, sent) ==
  /\ opened
  /\ sent \subseteq View("out") \cap store["out"]
  /\ store' = [store EXCEPT !["out"] = @ \ sent]
  /\ \E removed \in IF f THEN SUBSET sent ELSE {sent} :
       ReadOutBoxIndex(f, index \ removed, (torn \ removed) \cup (sent \ removed))
  /\ \E end \in Ends(f) : WriteBoxInfo(Only("out", end), store')
  /\ UNCHANGED <<exists, session>>

-----------------------------------------------------------------------------
(* The daemon answers that it is busy: it is told to stop scanning, and    *)
(* the call is made again.  GetMessageBoxNum needs no open box.            *)
StopScanning ==
  /\ suspended' = TRUE /\ scanning' = FALSE
  /\ UNCHANGED <<opened, boxOpened, exists, store, info, index, cache, order,
                 skipped, tmp, behind, torn>>

(* The daemon meets another console and receives a message.                *)
Receive(id) ==
  /\ scanning /\ exists
  /\ id \notin store["in"]
  /\ Cardinality(store["in"]) < MaxNum
  /\ store' = [store EXCEPT !["in"] = @ \cup {id}]
  /\ info' = [info EXCEPT !["in"] = store'["in"]]
  /\ UNCHANGED <<exists, index, session, cache, order, skipped, tmp, behind, torn>>

Step(f) ==
  \/ OpenMessageBox(f) \/ OpenFails(f) \/ CommitMessageBox(f) \/ CloseMessageBox(f)
  \/ CreateMessageBox(f) \/ CreateFails(f) \/ DeleteBoxFails(f)
  \/ \E b \in Boxes, id \in Ids, now \in BOOLEAN :
       (\E known \in BOOLEAN : WriteMessage(f, b, id, known, now)) \/ DeleteMessage(f, b, id, now)
  \/ \E b \in Boxes : DeleteAllMessages(f, b)
  \/ \E sent \in SUBSET Ids : DeleteSentMessages(f, sent)

Next ==
  \/ Step(FALSE) /\ UNCHANGED failures
  \/ failures < MaxFaults /\ failures' = failures + 1 /\ Step(TRUE)
  \/ /\ \/ Finalize \/ CreateRefused \/ DeleteMessageBox \/ StopScanning
        \/ \E id \in Ids : Receive(id)
     /\ UNCHANGED failures

Spec == Init /\ [][Next]_vars

-----------------------------------------------------------------------------
(* The program's copy of an info file lists the messages there are, unless *)
(* the file is to be written later: also after the daemon has received     *)
(* messages and other boxes were open, as long as no call to the daemon    *)
(* failed half way and no open box was abandoned.                          *)
CacheIsFresh == \A b \in Boxes \ behind : opened /\ ~skipped[b] => cache[b] = store[b]

(* What was put off is written before the box is closed.                   *)
InfoIsCommitted == \A b \in Boxes \ behind : (opened /\ skipped[b]) \/ info[b] = store[b]

(* The index orders the messages of the outbox, all and only them.  What a *)
(* failed call leaves in doubt is the messages it was about and no others, *)
(* but that cecd may empty the index after a reading that failed.  The one *)
(* other doubt is a message written again before its deletion is in the    *)
(* program's copy of the info file: it is not put back in the index.       *)
IndexIsKept == \A id \in Ids \ torn : id \in index <=> id \in store["out"]

(* The index has room for the messages of an outbox: the assertion of      *)
(* ReadOutBoxIndex.                                                        *)
OutBoxIndexFits == Cardinality(order) <= MaxNum

=============================================================================
