---------------------------- MODULE SoundThreads ----------------------------
(***************************************************************************)
(* The threads of the sound library: snd_ThreadManager.cpp.  A program     *)
(* starts and finalizes them; the sound thread runs one frame after each   *)
(* sync of the DSP and, when the library runs on core 1, hands the         *)
(* program's callbacks of that frame to the user thread on core 0 and      *)
(* waits for it before it sends the parameters to the DSP.                 *)
(*                                                                         *)
(* The two light events between the threads reset themselves and have one  *)
(* waiter each, so that an event is a flag which Wait takes in one step    *)
(* (LightEvent models their inside).  Callbacks change no state here.  An  *)
(* error return that changes nothing is no step.                           *)
(***************************************************************************)
VARIABLES
  soundCreated, soundEnabled,   \* m_IsSoundThreadCreated, ...Enabled
  userCreated, userEnabled,     \* m_IsUserSoundThreadCreated, ...Enabled
  callback,                     \* m_UserSoundThreadCallback is not NULL
  aux,                          \* an auxiliary bus has a callback
  core,                         \* m_CoreNo
  toUser, toSystem,             \* m_EventSystem2User, m_EventUser2System
  asks,                         \* locals of the frame: the user thread is asked
  request,                      \* what the program asked StartSoundThread for
  pc                            \* where the program and the two threads are

flags == <<soundCreated, soundEnabled, userCreated, userEnabled>>
setup == <<callback, aux, core, request>>
events == <<toUser, toSystem>>
vars == <<flags, setup, events, asks, pc>>

Requests == [core : {0, 1}, callback : BOOLEAN, user : BOOLEAN]

Init ==
  /\ soundCreated = FALSE /\ soundEnabled = FALSE
  /\ userCreated = FALSE /\ userEnabled = FALSE
  /\ callback = FALSE /\ aux = FALSE /\ core = 0
  /\ toUser = FALSE /\ toSystem = FALSE /\ asks = FALSE
  /\ request \in Requests
  /\ pc = [app |-> "idle", sound |-> "none", user |-> "none"]

Goto(actor, place) == pc' = [pc EXCEPT ![actor] = place]

-----------------------------------------------------------------------------
(* The sound thread: SoundThreadFuncImpl.                                  *)

SoundEnable ==
  /\ pc.sound = "enable"
  /\ soundEnabled' = TRUE
  /\ Goto("sound", "test")
  /\ UNCHANGED <<soundCreated, userCreated, userEnabled, setup, events, asks>>

SoundTest ==
  /\ pc.sound = "test"
  /\ Goto("sound", IF soundEnabled THEN "sync" ELSE "ended")
  /\ UNCHANGED <<flags, setup, events, asks>>

(* WaitForDspSync: the DSP interrupts once a frame.                        *)
DspSync ==
  /\ pc.sound = "sync"
  /\ Goto("sound", "readUser")
  /\ UNCHANGED <<flags, setup, events, asks>>

ReadUser ==
  /\ pc.sound = "readUser"
  /\ asks' = userCreated
  /\ Goto("sound", "readCallbacks")
  /\ UNCHANGED <<flags, setup, events>>

(* Fault: the callback of the program is forgotten.                        *)
ReadAuxOnly ==
  /\ pc.sound = "readCallbacks"
  /\ asks' = (asks /\ aux)
  /\ Goto("sound", "ask")
  /\ UNCHANGED <<flags, setup, events>>

ReadCallbacks ==
  /\ pc.sound = "readCallbacks"
  /\ asks' = (asks /\ (callback \/ aux))
  /\ Goto("sound", "ask")
  /\ UNCHANGED <<flags, setup, events>>

Ask ==
  /\ pc.sound = "ask"
  /\ toUser' = (toUser \/ asks)
  /\ Goto("sound", IF core = 0 /\ callback THEN "callback" ELSE "nwCallback")
  /\ UNCHANGED <<flags, setup, toSystem, asks>>

(* The program's callback on the sound thread, and that of NW.             *)
SoundCallback ==
  /\ pc.sound \in {"callback", "nwCallback"}
  /\ Goto("sound", IF pc.sound = "callback" THEN "nwCallback"
                   ELSE IF asks THEN "await" ELSE "send")
  /\ UNCHANGED <<flags, setup, events, asks>>

Await ==
  /\ pc.sound = "await"
  /\ toSystem
  /\ toSystem' = FALSE
  /\ Goto("sound", "send")
  /\ UNCHANGED <<flags, setup, toUser, asks>>

(* SendParameterToDsp, which calls the callbacks of the auxiliary buses if *)
(* no user thread does.                                                    *)
Send ==
  /\ pc.sound = "send"
  /\ Goto("sound", "test")
  /\ UNCHANGED <<flags, setup, events, asks>>

SoundStep ==
  \/ SoundEnable \/ SoundTest \/ DspSync \/ ReadUser \/ ReadCallbacks
  \/ Ask \/ SoundCallback \/ Await \/ Send

-----------------------------------------------------------------------------
(* The user thread: UserSoundThreadFuncImpl.                               *)

UserEnable ==
  /\ pc.user = "enable"
  /\ userEnabled' = TRUE
  /\ Goto("user", "test")
  /\ UNCHANGED <<soundCreated, soundEnabled, userCreated, setup, events, asks>>

UserTest ==
  /\ pc.user = "test"
  /\ Goto("user", IF userEnabled THEN "wait" ELSE "ended")
  /\ UNCHANGED <<flags, setup, events, asks>>

UserWait ==
  /\ pc.user = "wait"
  /\ toUser
  /\ toUser' = FALSE
  /\ Goto("user", "callback")
  /\ UNCHANGED <<flags, setup, toSystem, asks>>

(* The program's callback and those of the auxiliary buses, then Signal.   *)
UserReply ==
  /\ pc.user = "callback"
  /\ toSystem' = TRUE
  /\ Goto("user", "test")
  /\ UNCHANGED <<flags, setup, toUser, asks>>

UserStep == UserEnable \/ UserTest \/ UserWait \/ UserReply

-----------------------------------------------------------------------------
(* StartSoundThread of the program.  The thread runs before the callback   *)
(* and the core it should use are stored.                                  *)

Start ==
  /\ pc.app = "idle"
  /\ ~soundCreated
  /\ request' \in Requests
  /\ pc' = [pc EXCEPT !.app = "publish", !.sound = "enable"]
  /\ UNCHANGED <<flags, callback, aux, core, events, asks>>

PublishCallback ==
  /\ pc.app = "publish"
  /\ callback' = request.callback
  /\ soundCreated' = TRUE
  /\ Goto("app", "publishCore")
  /\ UNCHANGED <<soundEnabled, userCreated, userEnabled, aux, core, request, events, asks>>

PublishCore ==
  /\ pc.app = "publishCore"
  /\ core' = request.core
  /\ Goto("app", IF request.user THEN "startUser" ELSE "idle")
  /\ UNCHANGED <<flags, callback, aux, request, events, asks>>

(* Fault: the events keep what the last user thread left in them.          *)
StartUserKeepingEvents ==
  /\ pc.app = "startUser"
  /\ core = 1
  /\ pc' = [pc EXCEPT !.app = "markUser", !.user = "enable"]
  /\ UNCHANGED <<flags, setup, events, asks>>

(* StartUserSoundThread: the events are initialized, the thread runs, and  *)
(* then it is marked as created.                                           *)
StartUser ==
  /\ pc.app = "startUser"
  /\ core = 1
  /\ toUser' = FALSE
  /\ toSystem' = FALSE
  /\ pc' = [pc EXCEPT !.app = "markUser", !.user = "enable"]
  /\ UNCHANGED <<flags, setup, asks>>

MarkUser ==
  /\ pc.app = "markUser"
  /\ userCreated' = TRUE
  /\ Goto("app", "idle")
  /\ UNCHANGED <<soundCreated, soundEnabled, userEnabled, setup, events, asks>>

(* The library runs on core 0, or the kernel refuses the thread (which on  *)
(* core 1 happens after the events are initialized): what was started is   *)
(* finalized.                                                              *)
StartUserFails ==
  /\ pc.app = "startUser"
  /\ IF core = 1 THEN toUser' = FALSE /\ toSystem' = FALSE ELSE UNCHANGED events
  /\ Goto("app", "finalizeUser")
  /\ UNCHANGED <<flags, setup, asks>>

(* RegisterAuxCallback and ClearAuxCallback, at any time between two calls *)
(* that start or finalize.                                                 *)
SetAux ==
  /\ pc.app = "idle"
  /\ aux' = ~aux
  /\ UNCHANGED <<flags, callback, core, request, events, asks, pc>>

-----------------------------------------------------------------------------
(* FinalizeSoundThread of the program, which begins with                   *)
(* FinalizeUserSoundThread.                                                *)

Finalize ==
  /\ pc.app = "idle"
  /\ soundCreated
  /\ Goto("app", "finalizeUser")
  /\ UNCHANGED <<flags, setup, events, asks>>

FinalizeUser ==
  /\ pc.app = "finalizeUser"
  /\ userEnabled' = (userEnabled /\ ~userCreated)
  /\ Goto("app", IF userCreated THEN "joinUser" ELSE "finalizeSound")
  /\ UNCHANGED <<soundCreated, soundEnabled, userCreated, setup, events, asks>>

JoinUser ==
  /\ pc.app = "joinUser"
  /\ pc.user = "ended"
  /\ pc' = [pc EXCEPT !.app = "unmarkUser", !.user = "none"]
  /\ UNCHANGED <<flags, setup, events, asks>>

UnmarkUser ==
  /\ pc.app = "unmarkUser"
  /\ userCreated' = FALSE
  /\ Goto("app", "release")
  /\ UNCHANGED <<soundCreated, soundEnabled, userEnabled, setup, events, asks>>

(* Fault: the sound thread is not released from a frame it has begun.      *)
ReleaseNobody ==
  /\ pc.app = "release"
  /\ Goto("app", "finalizeSound")
  /\ UNCHANGED <<flags, setup, events, asks>>

(* The sound thread may have asked a user thread that is gone.             *)
Release ==
  /\ pc.app = "release"
  /\ toSystem' = TRUE
  /\ Goto("app", "finalizeSound")
  /\ UNCHANGED <<flags, setup, toUser, asks>>

FinalizeSound ==
  /\ pc.app = "finalizeSound"
  /\ soundEnabled' = FALSE
  /\ Goto("app", "joinSound")
  /\ UNCHANGED <<soundCreated, userCreated, userEnabled, setup, events, asks>>

JoinSound ==
  /\ pc.app = "joinSound"
  /\ pc.sound = "ended"
  /\ callback' = FALSE
  /\ core' = 0
  /\ soundCreated' = FALSE
  /\ pc' = [pc EXCEPT !.app = "idle", !.sound = "none"]
  /\ UNCHANGED <<soundEnabled, userCreated, userEnabled, aux, request, events, asks>>

Starting == PublishCallback \/ PublishCore \/ StartUser \/ MarkUser \/ StartUserFails

Finalizing ==
  FinalizeUser \/ JoinUser \/ UnmarkUser \/ Release \/ FinalizeSound \/ JoinSound

-----------------------------------------------------------------------------
Next ==
  \/ SoundStep \/ UserStep
  \/ Start \/ Finalize \/ SetAux
  \/ Starting \/ Finalizing

Spec == Init /\ [][Next]_vars

(* The threads run, the DSP interrupts, and a call the program has made    *)
(* goes on; the program need not make one.                                 *)
FairSpec ==
  /\ Spec
  /\ WF_vars(SoundStep)
  /\ WF_vars(UserStep)
  /\ WF_vars(Starting)
  /\ WF_vars(Finalizing)

-----------------------------------------------------------------------------
(* The program's callbacks run on one thread at a time, and the parameters *)
(* of a frame are not sent while the user thread still works on it,        *)
(* whatever the threads started before have left in the events.            *)
CallbacksDoNotOverlap == pc.user = "callback" => pc.sound \notin {"callback", "send"}

(* A frame that was handed to the user thread ends, also when that thread  *)
(* is finalized, has ended or is gone before it takes the frame.           *)
FramesEnd == pc.sound = "await" ~> pc.sound = "send"

(* A join returns if the thread has seen to its flag before the flag was   *)
(* cleared (a thread that begins later sets it again, and runs on) and, of *)
(* the user thread, if there is a callback that makes frames wake it.      *)
JoinsReturn ==
  /\ (/\ pc.app = "joinUser" /\ pc.user # "enable" /\ ~userEnabled
      /\ callback \/ aux
      /\ soundEnabled) ~> pc.app # "joinUser"
  /\ (pc.app = "joinSound" /\ pc.sound # "enable" /\ ~soundEnabled) ~> pc.app = "idle"

=============================================================================
