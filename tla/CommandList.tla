---------------------------- MODULE CommandList -----------------------------
(***************************************************************************)
(* The command-list engine of gles2 (systemmanager.c) on top of gxlow.     *)
(* The application's thread records requests in command lists and runs one *)
(* list at a time.  Requests are issued to the graphics server a few ahead *)
(* of the one that is being executed; each one executed raises an          *)
(* interrupt, whose handler, on the receiver's thread, counts it and       *)
(* issues the next ones.                                                   *)
(*                                                                         *)
(* The receiver is what InterruptDelivery promises, which the module       *)
(* InterruptReceiver is shown to implement.  "P3D" stands for every        *)
(* interrupt that ends a request (their handlers all call                  *)
(* sys_commonIntrHandler), "PDC" for the vertical blanks.  What is done    *)
(* under nngxlowLock, the general lock of gxlow, is one action, but for    *)
(* the handler of a request that stops the list, and for Finalize, which   *)
(* keeps the lock while it waits for the receiver.  What is done without   *)
(* it is an action of its own: the state of the run that nngxRunCmdlist    *)
(* writes, and the request that nngxTransferRenderImage counts first.      *)
(*                                                                         *)
(* The server is not under src: it executes the requests of the command    *)
(* request queue in their order, and drops vertical blanks when the relay  *)
(* queue is filled to its high watermark.                                  *)
(***************************************************************************)
EXTENDS Integers, Sequences, FiniteSetsExt

CONSTANTS
  Lists, NoList,
  MaxRequests,              \* max_reqcount of each list
  NumSpeculative,           \* __sysman.num_speculative
  CMDREQ_QUEUE_LENGTH,      \* CmdReqQueueBase::QUEUE_LENGTH
  QUEUE_LENGTH,             \* InterruptRelayQueueBase::QUEUE_LENGTH
  QUEUE_HIGH_WATERMARK

ASSUME NoListIsNone == NoList \notin Lists
ASSUME BoundsAreNat == MaxRequests \in [Lists -> Nat] /\ NumSpeculative \in Nat \ {0}
ASSUME QueuesSuffice ==
  /\ CMDREQ_QUEUE_LENGTH \in Nat /\ 2 * NumSpeculative <= CMDREQ_QUEUE_LENGTH
  /\ QUEUE_LENGTH \in Nat /\ QUEUE_HIGH_WATERMARK \in Nat
  /\ QUEUE_HIGH_WATERMARK + NumSpeculative <= QUEUE_LENGTH

VARIABLES
  used, run, issued,        \* used_reqcount, run_reqcount, issued_reqcount of each list
  stopAt,                   \* the requests of each list with stop_enabled
  boundList, runList,       \* bound_cmdlist, run_cmdlist
  startRun, isRunning, stopSpeculative,
  cmdReqQueue,              \* the command requests the server has yet to execute
  app,                      \* where the application's thread is
  vsync,                    \* has v_counter[0] moved since nngxWaitVSync read it?
  cmdreq,                   \* the request the handler looks at, read before it locks
  handler,                  \* where the handler is
  pending, handling, handlerDone, asleep, stopped       \* of InterruptDelivery

Receiver == INSTANCE InterruptDelivery WITH
  Interrupts <- {"P3D", "PDC"}, NoInterrupt <- "none", Waiters <- {"app"}

counts   == <<used, run, issued, stopAt>>
runState == <<runList, startRun, isRunning, stopSpeculative>>
engine   == <<counts, boundList, runState, cmdReqQueue>>
local    == <<cmdreq, handler>>
receiver == <<pending, handling, handlerDone, asleep, stopped>>
vars     == <<engine, app, vsync, local, receiver>>

NoRequest == [list |-> NoList, id |-> 0]

Init ==
  /\ used = [l \in Lists |-> 0] /\ run = [l \in Lists |-> 0] /\ issued = [l \in Lists |-> 0]
  /\ stopAt = [l \in Lists |-> {}]
  /\ boundList = NoList /\ runList = NoList
  /\ startRun = FALSE /\ isRunning = FALSE /\ stopSpeculative = FALSE
  /\ cmdReqQueue = <<>>
  /\ app = "idle" /\ vsync = "none"
  /\ cmdreq = NoRequest /\ handler = "none"
  /\ Receiver!Init

(* The general lock, when another takes it: the handler and Finalize keep  *)
(* it for more than one action.                                            *)
LockIsFree == handler # "stop" /\ app # "finalize"

(***************************************************************************)
(* sys_issueSpeculativeCommandRequests for list l, of which u requests are *)
(* recorded and r have been run: up to NumSpeculative requests ahead, and  *)
(* none after one that stops the list.  Each is two entries of the command *)
(* request queue, a flush of the cache and the command, as SetCommandlist  *)
(* makes them; an entry for which the queue has no room is lost.           *)
(***************************************************************************)
Entries(l, from, to) ==
  [k \in 1 .. 2 * (to - from) |->
     [list |-> l, id |-> from + (k + 1) \div 2, isFlush |-> k % 2 = 1]]

(* Fault: the window is not minded.                                        *)
IssueAll(l, u, r) ==
  IF stopSpeculative
    THEN UNCHANGED <<issued, stopSpeculative, cmdReqQueue>>
    ELSE LET queued == cmdReqQueue \o Entries(l, issued[l], u)
         IN  /\ issued' = [issued EXCEPT ![l] = u]
             /\ UNCHANGED stopSpeculative
             /\ cmdReqQueue' =
                  SubSeq(queued, 1, Min({Len(queued), CMDREQ_QUEUE_LENGTH}))

(* Fault: the stop flag is not minded.                                     *)
IssueDespiteStop(l, u, r) ==
  LET upTo   == Max({issued[l], Min({u, r + NumSpeculative})})
      queued == cmdReqQueue \o Entries(l, issued[l], upTo)
  IN  /\ issued' = [issued EXCEPT ![l] = upTo]
      /\ UNCHANGED stopSpeculative
      /\ cmdReqQueue' = SubSeq(queued, 1, Min({Len(queued), CMDREQ_QUEUE_LENGTH}))

IssueSpeculative(l, u, r) ==
  IF stopSpeculative
    THEN UNCHANGED <<issued, stopSpeculative, cmdReqQueue>>
    ELSE LET stops  == {k \in stopAt[l] : k > issued[l]}
             upTo   == Max({issued[l], Min({u, r + NumSpeculative} \cup stops)})
             queued == cmdReqQueue \o Entries(l, issued[l], upTo)
         IN  /\ issued' = [issued EXCEPT ![l] = upTo]
             /\ stopSpeculative' = (upTo \in stops)
             /\ cmdReqQueue' =
                  SubSeq(queued, 1, Min({Len(queued), CMDREQ_QUEUE_LENGTH}))

-----------------------------------------------------------------------------
(* The application's calls.                                                *)

BindCmdlist(l) ==
  /\ app = "idle"
  /\ boundList' = l
  /\ UNCHANGED <<counts, runState, cmdReqQueue, app, vsync, local, receiver>>

(* How a recording function ends, under the general lock: it counts its n  *)
(* requests, and starts the list if nothing runs.                          *)
CountRequests(n) ==
  /\ LockIsFree
  /\ used' = [used EXCEPT ![boundList] = @ + n]
  /\ IF boundList = runList /\ startRun /\ ~isRunning
       THEN /\ isRunning' = TRUE
            /\ IssueSpeculative(boundList, used'[boundList], run[boundList])
       ELSE UNCHANGED <<isRunning, issued, stopSpeculative, cmdReqQueue>>
  /\ UNCHANGED <<run, stopAt, boundList, runList, startRun, vsync, local, receiver>>

(* The functions that record requests (nngxSplitDrawCmdlist and the like,  *)
(* nngxUseSavedCmdlist for several at once).                               *)
AddRequests(n) ==
  /\ app = "idle" /\ boundList # NoList
  /\ used[boundList] + n <= MaxRequests[boundList]
  /\ CountRequests(n)
  /\ UNCHANGED app

(* nngxTransferRenderImage, called when commands were recorded since the   *)
(* last split, needs two requests.  It counts the one that ends these      *)
(* commands without the lock, and starts nothing: with no room for the     *)
(* other it returns an error (8028), and the first stays as it is.  (Called*)
(* when no commands were, it is AddRequests(1).)                           *)
TransferRenderImage ==
  /\ app = "idle" /\ boundList # NoList
  /\ used[boundList] < MaxRequests[boundList]
  /\ used' = [used EXCEPT ![boundList] = @ + 1]
  /\ app' = IF used'[boundList] = MaxRequests[boundList] THEN "idle" ELSE "transfer"
  /\ UNCHANGED <<run, issued, stopAt, boundList, runState, cmdReqQueue, vsync, local, receiver>>

CountTransfer ==
  /\ app = "transfer"
  /\ CountRequests(1)
  /\ app' = "idle"

(* nngxRunCmdlist writes the state of the run before it takes the lock.    *)
RunCmdlist ==
  /\ app = "idle" /\ boundList # NoList /\ ~isRunning
  /\ runList' = boundList
  /\ startRun' = TRUE
  /\ isRunning' = (run[boundList] < used[boundList])
  /\ app' = IF isRunning' THEN "issue" ELSE "idle"
  /\ UNCHANGED <<counts, boundList, stopSpeculative, cmdReqQueue, vsync, local, receiver>>

RunIssues ==
  /\ app = "issue" /\ LockIsFree
  /\ IssueSpeculative(runList, used[runList], run[runList])
  /\ app' = "idle"
  /\ UNCHANGED <<used, run, stopAt, boundList, runList, startRun, isRunning, vsync, local, receiver>>

(* Fault: the request after the last one issued is marked.                 *)
StopNextRequest ==
  /\ app = "idle" /\ runList # NoList /\ LockIsFree
  /\ IF isRunning
       THEN /\ stopAt' = [stopAt EXCEPT ![runList] = @ \cup {issued[runList] + 1}]
            /\ stopSpeculative' = TRUE
            /\ UNCHANGED startRun
       ELSE /\ startRun' = FALSE
            /\ UNCHANGED <<stopAt, stopSpeculative>>
  /\ UNCHANGED <<used, run, issued, boundList, runList, isRunning, cmdReqQueue, app, vsync,
                 local, receiver>>

StopCmdlist ==
  /\ app = "idle" /\ runList # NoList /\ LockIsFree
  /\ IF isRunning
       THEN /\ stopAt' = [stopAt EXCEPT ![runList] = @ \cup {issued[runList]}]
            /\ stopSpeculative' = TRUE
            /\ UNCHANGED startRun
       ELSE /\ startRun' = FALSE
            /\ UNCHANGED <<stopAt, stopSpeculative>>
  /\ UNCHANGED <<used, run, issued, boundList, runList, isRunning, cmdReqQueue, app, vsync,
                 local, receiver>>

(* Fault: the requests issued are not forgotten.                           *)
ForgetRecorded(l) ==
  /\ used' = [used EXCEPT ![l] = 0]
  /\ run' = [run EXCEPT ![l] = 0]
  /\ UNCHANGED issued

Forget(l) ==
  /\ used' = [used EXCEPT ![l] = 0]
  /\ run' = [run EXCEPT ![l] = 0]
  /\ issued' = [issued EXCEPT ![l] = 0]

(* nngxClearCmdlist clears the requests recorded, and is refused for the   *)
(* list that is running.                                                   *)
ClearCmdlist ==
  /\ app = "idle" /\ boundList # NoList
  /\ ~(boundList = runList /\ isRunning)
  /\ Forget(boundList)
  /\ stopAt' = [stopAt EXCEPT ![boundList] = {k \in @ : k > used[boundList]}]
  /\ UNCHANGED <<boundList, runState, cmdReqQueue, app, vsync, local, receiver>>

(* nngxDeleteCmdlists, and the list of that name that is made anew.        *)
DeleteCmdlist(l) ==
  /\ app = "idle"
  /\ ~(l = runList /\ isRunning)
  /\ runList' = IF l = runList THEN NoList ELSE runList
  /\ startRun' = (startRun /\ l # runList)
  /\ boundList' = IF l = boundList THEN NoList ELSE boundList
  /\ Forget(l)
  /\ stopAt' = [stopAt EXCEPT ![l] = {}]
  /\ UNCHANGED <<isRunning, stopSpeculative, cmdReqQueue, app, vsync, local, receiver>>

(* nngxWaitCmdlistDone: yield until nothing runs, or until the timeout is  *)
(* over, which is looked at only here.                                     *)
WaitCmdlistDone ==
  /\ app = "idle"
  /\ app' = "wait"
  /\ UNCHANGED <<engine, vsync, local, receiver>>

TestRunning ==
  /\ app = "wait" /\ vsync = "none"
  /\ app' \in IF isRunning THEN {"yield", "idle"} ELSE {"idle"}
  /\ UNCHANGED <<engine, vsync, local, receiver>>

(* nngxWaitVSync for one display: yield until its counter has moved.       *)
WaitVSync ==
  /\ app = "idle"
  /\ app' = "wait" /\ vsync' = "waiting"
  /\ UNCHANGED <<engine, local, receiver>>

TestVSync ==
  /\ app = "wait" /\ vsync # "none"
  /\ app' = IF vsync = "seen" THEN "idle" ELSE "yield"
  /\ vsync' = IF vsync = "seen" THEN "none" ELSE vsync
  /\ UNCHANGED <<engine, local, receiver>>

YieldThread ==
  /\ app = "yield"
  /\ Receiver!WaitAnyHandlerDone("app")
  /\ app' = "asleep"
  /\ UNCHANGED <<engine, vsync, local>>

(* Fault: the counter is read again for each round.                        *)
WakeUpAnew ==
  /\ app = "asleep" /\ "app" \notin asleep
  /\ app' = "wait"
  /\ vsync' = IF vsync = "none" THEN "none" ELSE "waiting"
  /\ UNCHANGED <<engine, local, receiver>>

WakeUp ==
  /\ app = "asleep" /\ "app" \notin asleep
  /\ app' = "wait"
  /\ UNCHANGED <<engine, vsync, local, receiver>>

(* nngxFinalize: gxlow's Finalize keeps the general lock while it waits    *)
(* for the receiver to stop.                                               *)
Finalize ==
  /\ app = "idle" /\ LockIsFree
  /\ app' = "finalize"
  /\ UNCHANGED <<engine, vsync, local, receiver>>

(* Fault: the receiver is not signalled, and sees the request to end only  *)
(* after another interrupt.                                                *)
FinalizeUnsignalled ==
  /\ app = "finalize" /\ handlerDone
  /\ Receiver!Stop
  /\ app' = "finalized"
  /\ UNCHANGED <<engine, vsync, local>>

FinalizeReceiver ==
  /\ app = "finalize"
  /\ Receiver!Stop
  /\ app' = "finalized"
  /\ UNCHANGED <<engine, vsync, local>>

-----------------------------------------------------------------------------
(* The handlers, run by the receiver.                                      *)

(* sys_P3DCallback and the first lines of sys_commonIntrHandler; the       *)
(* handler of a vertical blank counts it and leaves the engine alone.      *)
EnterHandler ==
  /\ Receiver!Begin
  /\ \/ /\ handling' = "P3D"
        /\ cmdreq' = [list |-> runList, id |-> run[runList] + 1]
        /\ handler' = "lock"
        /\ UNCHANGED vsync
     \/ /\ handling' = "PDC"
        /\ handler' = "return"
        /\ vsync' = IF vsync = "waiting" THEN "seen" ELSE vsync
        /\ UNCHANGED cmdreq
  /\ UNCHANGED <<engine, app>>

(* Fault: stop_speculative is not taken back.                              *)
CountKeepsStop ==
  LET l == cmdreq.list IN
  /\ handler = "lock" /\ LockIsFree
  /\ run' = [run EXCEPT ![l] = @ + 1]
  /\ \/ /\ cmdreq.id \notin stopAt[l]
        /\ IF run'[l] < used[l]
             THEN IssueSpeculative(runList, used[runList], run'[runList]) /\ UNCHANGED isRunning
             ELSE isRunning' = FALSE /\ UNCHANGED <<issued, stopSpeculative, cmdReqQueue>>
        /\ handler' = "return"
        /\ UNCHANGED startRun
     \/ /\ cmdreq.id \in stopAt[l]
        /\ startRun' = FALSE
        /\ handler' = "stop"
        /\ UNCHANGED <<isRunning, stopSpeculative, issued, cmdReqQueue>>
  /\ UNCHANGED <<used, stopAt, boundList, runList, app, vsync, cmdreq, receiver>>

(* sys_commonIntrHandler, under the general lock: count the request, issue *)
(* the next ones, or end the run.                                          *)
CountAndIssue ==
  LET l == cmdreq.list IN
  /\ handler = "lock" /\ LockIsFree
  /\ run' = [run EXCEPT ![l] = @ + 1]
  /\ \/ /\ cmdreq.id \notin stopAt[l]
        /\ IF run'[l] < used[l]
             THEN IssueSpeculative(runList, used[runList], run'[runList]) /\ UNCHANGED isRunning
             ELSE isRunning' = FALSE /\ UNCHANGED <<issued, stopSpeculative, cmdReqQueue>>
        /\ handler' = "return"
        /\ UNCHANGED startRun
     \/ /\ cmdreq.id \in stopAt[l]
        /\ startRun' = FALSE /\ stopSpeculative' = FALSE
        /\ handler' = "stop"
        /\ UNCHANGED <<isRunning, issued, cmdReqQueue>>
  /\ UNCHANGED <<used, stopAt, boundList, runList, app, vsync, cmdreq, receiver>>

(* is_running, which nngxRunCmdlist reads without the lock, comes last.    *)
StopRunning ==
  /\ handler = "stop"
  /\ isRunning' = FALSE
  /\ handler' = "return"
  /\ UNCHANGED <<counts, boundList, runList, startRun, stopSpeculative, cmdReqQueue, app,
                 vsync, cmdreq, receiver>>

LeaveHandler ==
  /\ handler = "return"
  /\ Receiver!End
  /\ handler' = "none" /\ cmdreq' = NoRequest
  /\ UNCHANGED <<engine, app, vsync>>

-----------------------------------------------------------------------------
(* The graphics server.                                                    *)

ExecuteRequest ==
  /\ cmdReqQueue # <<>>
  /\ cmdReqQueue' = Tail(cmdReqQueue)
  /\ IF Head(cmdReqQueue).isFlush \/ Len(pending) = QUEUE_LENGTH
       THEN UNCHANGED receiver
       ELSE Receiver!Accept("P3D")
  /\ UNCHANGED <<counts, boundList, runState, app, vsync, local>>

VerticalBlank ==
  /\ Len(pending) < QUEUE_HIGH_WATERMARK /\ ~stopped
  /\ Receiver!Accept("PDC")
  /\ UNCHANGED <<engine, app, vsync, local>>

-----------------------------------------------------------------------------
(* How many requests one call records, at most: a bound of the model.      *)
MaxBatch == 2

Call ==
  \/ \E l \in Lists \cup {NoList} : BindCmdlist(l)
  \/ \E n \in 1 .. MaxBatch : AddRequests(n)
  \/ TransferRenderImage
  \/ RunCmdlist \/ StopCmdlist \/ ClearCmdlist
  \/ \E l \in Lists : DeleteCmdlist(l)
  \/ WaitCmdlistDone \/ WaitVSync \/ Finalize

AppStep == CountTransfer \/ RunIssues \/ TestRunning \/ TestVSync \/ WakeUp \/ FinalizeReceiver

Handle == EnterHandler \/ CountAndIssue \/ StopRunning \/ LeaveHandler

Next ==
  \/ Call \/ AppStep \/ YieldThread
  \/ Handle
  \/ ExecuteRequest \/ VerticalBlank

Spec == Init /\ [][Next]_vars

(* Threads in the middle of a call run on, and the server executes what it *)
(* is given.  The table's lock, which the receiver takes for each handler  *)
(* and gives back, is got by the thread that wants to yield.               *)
FairSpec ==
  /\ Spec
  /\ WF_vars(AppStep) /\ SF_vars(YieldThread)
  /\ WF_vars(Handle) /\ WF_vars(ExecuteRequest)

-----------------------------------------------------------------------------
TypeOK ==
  /\ used \in [Lists -> Nat] /\ run \in [Lists -> Nat] /\ issued \in [Lists -> Nat]
  /\ stopAt \in [Lists -> SUBSET Nat]
  /\ \A l \in Lists :
       /\ run[l] <= issued[l] /\ issued[l] <= used[l] /\ used[l] <= MaxRequests[l]
       /\ stopAt[l] \subseteq 1 .. issued[l]
  /\ boundList \in Lists \cup {NoList} /\ runList \in Lists \cup {NoList}
  /\ startRun \in BOOLEAN /\ isRunning \in BOOLEAN /\ stopSpeculative \in BOOLEAN
  /\ cmdReqQueue \in Seq([list : Lists, id : Nat, isFlush : BOOLEAN])
  /\ vsync \in {"none", "waiting", "seen"}
  /\ app \in {"idle", "transfer", "issue", "wait", "yield", "asleep", "finalize", "finalized"}
  /\ cmdreq \in [list : Lists, id : Nat] \cup {NoRequest}
  /\ handler \in {"none", "lock", "stop", "return"}
  /\ pending \in Seq({"P3D", "PDC"}) /\ handling \in {"P3D", "PDC", "none"}
  /\ handlerDone \in BOOLEAN /\ asleep \subseteq {"app"} /\ stopped \in BOOLEAN

(* The interrupts of requests that were executed and not yet counted.      *)
Occurrences(seq, x) == {k \in DOMAIN seq : seq[k] = x}

Uncounted ==
  Cardinality(Occurrences(pending, "P3D")) + (IF handler = "lock" THEN 1 ELSE 0)

InFlight == IF runList = NoList THEN 0 ELSE issued[runList] - run[runList]

(* The places of the commands in their queue, beside those of the flushes. *)
Commands == {k \in DOMAIN cmdReqQueue : ~cmdReqQueue[k].isFlush}

(* The requests issued and not yet counted are, in order, those whose      *)
(* interrupts are on their way to the handler and those the server still   *)
(* has: none is lost in either queue, executed twice, or left behind by    *)
(* the list that was run before.                                           *)
InFlightIsExact ==
  /\ \A l \in Lists \ {runList} : issued[l] = run[l]
  /\ InFlight = Uncounted + Cardinality(Commands)
  /\ \A k \in Commands :
       /\ cmdReqQueue[k].list = runList
       /\ cmdReqQueue[k].id =
            run[runList] + Uncounted + Cardinality({j \in Commands : j <= k})

(* The request of a started list that nngxTransferRenderImage has counted  *)
(* and left: it is about to count another and start both, or the list is   *)
(* full and it has returned an error.                                      *)
LeftBehind ==
  /\ run[runList] + 1 = used[runList]
  /\ (app = "transfer" /\ boundList = runList) \/ used[runList] = MaxRequests[runList]

(* The engine says that it is running exactly while a request is in        *)
(* flight, whose interrupt will keep it going; a stop that was asked for   *)
(* is marked on the last of them, so that it will be seen; and no request  *)
(* of a list that was started waits with nothing in flight to start it,    *)
(* but for the one that nngxTransferRenderImage counts without the lock.   *)
RunningIsExact ==
  /\ isRunning <=> InFlight > 0 \/ app = "issue" \/ handler = "stop"
  /\ stopSpeculative => InFlight > 0 /\ issued[runList] \in stopAt[runList]
  /\ runList # NoList /\ startRun /\ run[runList] < used[runList] =>
       isRunning \/ LeftBehind

(* After nngxStopCmdlist nothing is issued until nngxRunCmdlist.           *)
StopIsObeyed ==
  [][(stopSpeculative \/ ~startRun) => Len(cmdReqQueue') <= Len(cmdReqQueue)]_vars

(* nngxWaitCmdlistDone returns: what is running comes to its end, and the  *)
(* thread that waits for it is told.                                       *)
WaitReturns == (app \in {"wait", "yield", "asleep"} /\ vsync = "none") ~> app = "idle"

(* nngxWaitVSync returns if vertical blanks go on, although they are       *)
(* dropped while the relay queue is filled to its watermark, and although  *)
(* one that is handled between the test and the yield wakes nobody.        *)
VSyncReturns == []<><<VerticalBlank>>_vars => (vsync = "waiting" ~> app = "idle")

(* nngxFinalize returns when it is called while no command list is running *)
(* and vertical blanks do not go on for ever.  (Called while one runs, it  *)
(* does not: the receiver, for which it waits, waits for the lock that it  *)
(* holds.)                                                                 *)
FinalizeReturns ==
  <>[](pending = <<>>) => ((app = "finalize" /\ ~isRunning) ~> app = "finalized")

=============================================================================
