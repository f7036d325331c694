------------------------- MODULE CommandList_proofs -------------------------
(***************************************************************************)
(* Proofs about CommandList, for every set of lists, every number of       *)
(* requests they have room for, every window of requests issued ahead, and *)
(* queues that are long enough for it.                                     *)
(***************************************************************************)
EXTENDS CommandList, FiniteSetTheorems, FunctionTheorems, SequenceTheorems, TLAPS

NumCommands == (Len(cmdReqQueue) + 1) \div 2

(* Seen from its end the queue is pairs of a flush and a command, with the *)
(* requests of the list that runs, down from the last one issued; the      *)
(* flush of the first may have been executed.                              *)
QueueShape ==
  \A k \in 1 .. Len(cmdReqQueue) :
    cmdReqQueue[k] = [list |-> runList,
                      id |-> issued[runList] - ((Len(cmdReqQueue) - k) \div 2),
                      isFlush |-> (Len(cmdReqQueue) - k) % 2 = 1]

FlightInv ==
  /\ \A l \in Lists \ {runList} : issued[l] = run[l]
  /\ InFlight = Uncounted + NumCommands

WindowInv == \A l \in Lists : issued[l] - run[l] <= NumSpeculative

(* A mark that is still to be met is the last stop's, on the last request  *)
(* issued: every other mark is behind.                                     *)
StopInv ==
  \A l \in Lists : \A k \in stopAt[l] :
    k > run[l] => l = runList /\ k = issued[l] /\ stopSpeculative

(* What the handler read before it had the lock is still so, and the run   *)
(* that it ends is ended but for is_running.                               *)
HandlerInv ==
  /\ handler = "none" <=> handling = "none"
  /\ handler \in {"lock", "stop"} => handling = "P3D"
  /\ handler = "lock" => cmdreq = [list |-> runList, id |-> run[runList] + 1]
  /\ handler = "stop" => InFlight = 0 /\ ~startRun

(* Between what nngxRunCmdlist writes without the lock and what it does    *)
(* under it.                                                               *)
IssueInv ==
  app = "issue" =>
    /\ runList # NoList /\ InFlight = 0 /\ isRunning /\ startRun /\ ~stopSpeculative
    /\ run[runList] < used[runList] /\ handler # "stop"

(* nngxTransferRenderImage has room for its second request.                *)
TransferInv ==
  app = "transfer" => boundList \in Lists /\ used[boundList] < MaxRequests[boundList]

StartedInv == InFlight > 0 => startRun

(* Blanks leave the relay queue room for a window of requests.             *)
BlanksInv == Cardinality(Occurrences(pending, "PDC")) <= QUEUE_HIGH_WATERMARK

IInv ==
  /\ TypeOK /\ QueueShape /\ FlightInv /\ WindowInv /\ StopInv /\ HandlerInv
  /\ IssueInv /\ TransferInv /\ StartedInv /\ BlanksInv /\ RunningIsExact

-----------------------------------------------------------------------------
(* Halves, and the sets of places that the invariant counts.               *)

LEMMA Halves ==
  ASSUME NEW n \in Int
  PROVE  /\ n \div 2 \in Int /\ n % 2 \in {0, 1}
         /\ n = 2 * (n \div 2) + (n % 2)
  OBVIOUS

LEMMA HalfOfSum ==
  ASSUME NEW n \in Nat, NEW k \in 1 .. n, (n - k) % 2 = 0
  PROVE  (n + 1) \div 2 - (n - k) \div 2 = (k + 1) \div 2
  OBVIOUS

LEMMA EvenPlaces ==
  ASSUME NEW n \in Nat
  PROVE  LET P == {j \in 1 .. n : (n - j) % 2 = 0}
         IN  IsFiniteSet(P) /\ Cardinality(P) = (n + 1) \div 2
<1> DEFINE P == {j \in 1 .. n : (n - j) % 2 = 0}
           m == (n + 1) \div 2
           f == [i \in 1 .. m |-> n - 2 * (m - i)]
<1>1. m \in Nat /\ (n = 2 * m \/ n = 2 * m - 1)
  OBVIOUS
<1>2. f \in Bijection(1 .. m, P)
  <2>1. ASSUME NEW i \in 1 .. m PROVE n - 2 * (m - i) \in P
    BY <1>1
  <2>2. ASSUME NEW j \in P PROVE \E i \in 1 .. m : n - 2 * (m - i) = j
    <3> DEFINE h == (n - j) \div 2
    <3>1. h \in Int /\ n - j = 2 * h /\ j \in 1 .. n
      BY Halves
    <3> HIDE DEF h
    <3>2. m - h \in 1 .. m /\ n - 2 * (m - (m - h)) = j
      BY <1>1, <3>1
    <3> QED BY <3>2
  <2>3. ASSUME NEW i \in 1 .. m, NEW j \in 1 .. m, n - 2 * (m - i) = n - 2 * (m - j)
        PROVE  i = j
    BY <1>1, <2>3
  <2> HIDE DEF m, P
  <2> QED BY <2>1, <2>2, <2>3, Fun_IsBij
<1>3. IsFiniteSet(1 .. m) /\ Cardinality(1 .. m) = m
  BY <1>1, FS_Interval
<1> HIDE DEF m, P, f
<1>4. IsFiniteSet(P) /\ Cardinality(P) = m
  BY <1>2, <1>3, Fun_ExistsBij, FS_Bijection
<1> QED BY <1>4 DEF m, P

LEMMA PlacesOfSequence ==
  ASSUME NEW S, NEW q \in Seq(S)
  PROVE  Len(q) \in Nat /\ IsFiniteSet(1 .. Len(q)) /\ Cardinality(1 .. Len(q)) = Len(q)
<1>1. Len(q) \in Nat
  OBVIOUS
<1>2. /\ IsFiniteSet(1 .. Len(q))
      /\ Cardinality(1 .. Len(q)) = IF 1 > Len(q) THEN 0 ELSE Len(q) - 1 + 1
  BY <1>1, FS_Interval
<1>3. QED
  BY <1>1, <1>2

LEMMA OccurrencesAreFinite ==
  ASSUME NEW S, NEW q \in Seq(S), NEW x
  PROVE  /\ IsFiniteSet(Occurrences(q, x))
         /\ Cardinality(Occurrences(q, x)) \in 0 .. Len(q)
<1>1. Occurrences(q, x) \in SUBSET (1 .. Len(q))
  BY DEF Occurrences
<1>2. Len(q) \in Nat /\ IsFiniteSet(1 .. Len(q)) /\ Cardinality(1 .. Len(q)) = Len(q)
  BY PlacesOfSequence
<1>3. IsFiniteSet(Occurrences(q, x)) /\ Cardinality(Occurrences(q, x)) <= Len(q)
  BY <1>1, <1>2, FS_Subset
<1>4. Cardinality(Occurrences(q, x)) \in Nat
  BY <1>3, FS_CardinalityType
<1>5. QED
  BY <1>2, <1>3, <1>4

LEMMA OccurrencesOfAppend ==
  ASSUME NEW S, NEW q \in Seq(S), NEW e \in S, NEW x
  PROVE  Cardinality(Occurrences(Append(q, e), x)) =
           Cardinality(Occurrences(q, x)) + (IF e = x THEN 1 ELSE 0)
<1>1. Len(q) \in Nat /\ Len(q) + 1 \notin Occurrences(q, x)
  BY DEF Occurrences
<1>2. /\ DOMAIN Append(q, e) = (1 .. Len(q)) \cup {Len(q) + 1}
      /\ \A k \in 1 .. Len(q) : Append(q, e)[k] = q[k]
      /\ Append(q, e)[Len(q) + 1] = e
  OBVIOUS
<1>3. Occurrences(Append(q, e), x) =
        IF e = x THEN Occurrences(q, x) \cup {Len(q) + 1} ELSE Occurrences(q, x)
  BY <1>2 DEF Occurrences
<1>4. IsFiniteSet(Occurrences(q, x)) /\ Cardinality(Occurrences(q, x)) \in Nat
  BY OccurrencesAreFinite
<1>5. Cardinality(Occurrences(q, x) \cup {Len(q) + 1}) = Cardinality(Occurrences(q, x)) + 1
  BY <1>1, <1>4, FS_AddElement
<1>6. QED
  BY <1>3, <1>4, <1>5

LEMMA OccurrencesOfTail ==
  ASSUME NEW S, NEW q \in Seq(S), q # <<>>, NEW x
  PROVE  Cardinality(Occurrences(q, x)) =
           Cardinality(Occurrences(Tail(q), x)) + (IF Head(q) = x THEN 1 ELSE 0)
<1> DEFINE T == Occurrences(Tail(q), x)
           R == Occurrences(q, x) \ {1}
           f == [k \in T |-> k + 1]
<1>1. /\ Tail(q) \in Seq(S) /\ Len(q) \in Nat \ {0} /\ Len(Tail(q)) = Len(q) - 1
      /\ \A k \in 1 .. Len(Tail(q)) : Tail(q)[k] = q[k + 1]
      /\ Head(q) = q[1]
  OBVIOUS
<1>2. DOMAIN q = 1 .. Len(q) /\ DOMAIN Tail(q) = 1 .. (Len(q) - 1)
  BY <1>1
<1>3. f \in Bijection(T, R)
  <2>1. ASSUME NEW k \in T PROVE k \in Int /\ k + 1 \in R
    BY <1>1, <1>2 DEF Occurrences
  <2>2. ASSUME NEW j \in R PROVE \E k \in T : k + 1 = j
    <3>1. j \in 2 .. Len(q) /\ q[j] = x
      BY <1>1, <1>2 DEF Occurrences
    <3>2. j - 1 \in 1 .. (Len(q) - 1) /\ Tail(q)[j - 1] = x /\ (j - 1) + 1 = j
      BY <1>1, <3>1
    <3> QED BY <1>2, <3>2 DEF Occurrences
  <2>3. ASSUME NEW i \in T, NEW j \in T, i + 1 = j + 1 PROVE i = j
    BY <2>1, <2>3
  <2> HIDE DEF T, R
  <2>4. f \in [T -> R]
    BY <2>1
  <2> QED BY <2>2, <2>3, <2>4, Fun_IsBij
<1>4. IsFiniteSet(T) /\ Cardinality(T) \in Nat
  <2> DEFINE t == Tail(q)
  <2>1. t \in Seq(S)
    BY <1>1
  <2> HIDE DEF t
  <2>2. IsFiniteSet(Occurrences(t, x)) /\ Cardinality(Occurrences(t, x)) \in 0 .. Len(t)
    BY <2>1, OccurrencesAreFinite
  <2> QED BY <2>1, <2>2 DEF t
<1>5. IsFiniteSet(Occurrences(q, x)) /\ Cardinality(Occurrences(q, x)) \in Nat
  BY OccurrencesAreFinite
<1>6. Cardinality(R) = Cardinality(Occurrences(q, x)) - (IF Head(q) = x THEN 1 ELSE 0)
  <2>1. 1 \in Occurrences(q, x) <=> Head(q) = x
    BY <1>1, <1>2 DEF Occurrences
  <2>2. Cardinality(R) = IF 1 \in Occurrences(q, x) THEN Cardinality(Occurrences(q, x)) - 1
                         ELSE Cardinality(Occurrences(q, x))
    BY <1>5, FS_RemoveElement
  <2> QED BY <1>5, <2>1, <2>2
<1>7. Cardinality(R) = Cardinality(T)
  <2> HIDE DEF T, R, f
  <2> QED BY <1>3, <1>4, Fun_ExistsBij, FS_Bijection
<1>8. QED
  BY <1>4, <1>5, <1>6, <1>7

LEMMA OccurrencesMakeUpTheWhole ==
  ASSUME NEW q \in Seq({"P3D", "PDC"})
  PROVE  Len(q) = Cardinality(Occurrences(q, "P3D")) + Cardinality(Occurrences(q, "PDC"))
<1> DEFINE P == Occurrences(q, "P3D")
           B == Occurrences(q, "PDC")
<1>1. P \cup B = 1 .. Len(q) /\ P \cap B = {}
  <2>1. DOMAIN q = 1 .. Len(q) /\ \A k \in 1 .. Len(q) : q[k] \in {"P3D", "PDC"}
    OBVIOUS
  <2> QED BY <2>1 DEF Occurrences
<1>2. Len(q) \in Nat /\ Cardinality(1 .. Len(q)) = Len(q)
  BY PlacesOfSequence
<1>3. /\ IsFiniteSet(P) /\ Cardinality(P) \in Nat
      /\ IsFiniteSet(B) /\ Cardinality(B) \in Nat
  BY OccurrencesAreFinite
<1>4. Cardinality({}) = 0
  BY FS_EmptySet
<1> HIDE DEF P, B
<1>5. Cardinality(P \cup B) = Cardinality(P) + Cardinality(B) - Cardinality(P \cap B)
  BY <1>3, FS_Union
<1>6. Cardinality(P \cup B) = Len(q) /\ Cardinality(P \cap B) = 0
  BY <1>1, <1>2, <1>4
<1>7. Len(q) = Cardinality(P) + Cardinality(B)
  BY <1>3, <1>5, <1>6
<1>8. QED
  BY <1>7 DEF P, B

-----------------------------------------------------------------------------
Requests == [list : Lists, id : Nat, isFlush : BOOLEAN]

(* TypeOK in four parts, most of which a step leaves alone.                *)
CountsOK ==
  /\ used \in [Lists -> Nat] /\ run \in [Lists -> Nat] /\ issued \in [Lists -> Nat]
  /\ stopAt \in [Lists -> SUBSET Nat]
  /\ \A l \in Lists :
       /\ run[l] <= issued[l] /\ issued[l] <= used[l] /\ used[l] <= MaxRequests[l]
       /\ stopAt[l] \subseteq 1 .. issued[l]

EngineOK ==
  /\ boundList \in Lists \cup {NoList} /\ runList \in Lists \cup {NoList}
  /\ startRun \in BOOLEAN /\ isRunning \in BOOLEAN /\ stopSpeculative \in BOOLEAN
  /\ cmdReqQueue \in Seq(Requests)

ThreadsOK ==
  /\ vsync \in {"none", "waiting", "seen"}
  /\ app \in {"idle", "transfer", "issue", "wait", "yield", "asleep", "finalize", "finalized"}
  /\ cmdreq \in [list : Lists, id : Nat] \cup {NoRequest}
  /\ handler \in {"none", "lock", "stop", "return"}

ReceiverOK ==
  /\ pending \in Seq({"P3D", "PDC"}) /\ handling \in {"P3D", "PDC", "none"}
  /\ handlerDone \in BOOLEAN /\ asleep \subseteq {"app"} /\ stopped \in BOOLEAN

LEMMA TypeParts ==
  /\ TypeOK => CountsOK /\ EngineOK /\ ThreadsOK /\ ReceiverOK
  /\ CountsOK' /\ EngineOK' /\ ThreadsOK' /\ ReceiverOK' => TypeOK'
  BY Zenon DEF TypeOK, CountsOK, EngineOK, ThreadsOK, ReceiverOK, Requests

LEMMA CountsAreNumbers ==
  ASSUME IInv
  PROVE  /\ Len(cmdReqQueue) \in Nat
         /\ NumCommands \in Nat
         /\ Len(cmdReqQueue) = 2 * NumCommands \/ Len(cmdReqQueue) = 2 * NumCommands - 1
         /\ Cardinality(Occurrences(pending, "P3D")) \in Nat
         /\ Cardinality(Occurrences(pending, "PDC")) \in Nat
         /\ Len(pending) = Cardinality(Occurrences(pending, "P3D"))
                             + Cardinality(Occurrences(pending, "PDC"))
         /\ Uncounted \in Nat
         /\ handler = "lock" => Uncounted > 0
         /\ InFlight \in Nat
         /\ InFlight > 0 => runList \in Lists
         /\ runList \in Lists => InFlight = issued[runList] - run[runList]
         /\ InFlight = Uncounted + NumCommands
<1>1. cmdReqQueue \in Seq(Requests) /\ pending \in Seq({"P3D", "PDC"})
  BY DEF IInv, TypeOK, Requests
<1>2. Len(cmdReqQueue) \in Nat /\ Len(pending) \in Nat
  BY <1>1
<1>3. /\ NumCommands \in Nat
      /\ Len(cmdReqQueue) = 2 * NumCommands \/ Len(cmdReqQueue) = 2 * NumCommands - 1
  BY <1>2 DEF NumCommands
<1>4. /\ Cardinality(Occurrences(pending, "P3D")) \in 0 .. Len(pending)
      /\ Cardinality(Occurrences(pending, "PDC")) \in 0 .. Len(pending)
  BY <1>1, OccurrencesAreFinite
<1>5. /\ Cardinality(Occurrences(pending, "P3D")) \in Nat
      /\ Cardinality(Occurrences(pending, "PDC")) \in Nat
  BY <1>2, <1>4
<1>6. Len(pending) = Cardinality(Occurrences(pending, "P3D"))
                       + Cardinality(Occurrences(pending, "PDC"))
  BY <1>1, OccurrencesMakeUpTheWhole
<1>7. Uncounted \in Nat /\ (handler = "lock" => Uncounted > 0)
  BY <1>5 DEF Uncounted
<1>8. /\ InFlight \in Nat
      /\ InFlight > 0 => runList \in Lists
      /\ runList \in Lists => InFlight = issued[runList] - run[runList]
  BY NoListIsNone DEF InFlight, IInv, TypeOK
<1>9. InFlight = Uncounted + NumCommands
  BY DEF IInv, FlightInv
<1>10. QED
  BY <1>2, <1>3, <1>5, <1>6, <1>7, <1>8, <1>9

(* What holds while nothing runs.                                          *)
LEMMA NothingRuns ==
  ASSUME IInv, InFlight = 0
  PROVE  /\ Uncounted = 0 /\ NumCommands = 0 /\ Len(cmdReqQueue) = 0
         /\ cmdReqQueue = <<>>
         /\ handler # "lock" /\ ~stopSpeculative
         /\ \A l \in Lists : issued[l] = run[l] /\ \A k \in stopAt[l] : ~(k > run[l])
<1>1. Uncounted = 0 /\ NumCommands = 0 /\ Len(cmdReqQueue) = 0 /\ handler # "lock"
  BY CountsAreNumbers
<1>2. cmdReqQueue = <<>>
  BY <1>1 DEF IInv, TypeOK
<1>3. ~stopSpeculative
  BY DEF IInv, RunningIsExact
<1>4. ASSUME NEW l \in Lists PROVE issued[l] = run[l]
  <2>1. CASE l = runList
    <3>1. issued[l] - run[l] = 0
      BY <2>1, CountsAreNumbers
    <3>2. issued[l] \in Nat /\ run[l] \in Nat
      BY DEF IInv, TypeOK
    <3> QED BY <3>1, <3>2
  <2>2. CASE l # runList
    BY <2>2 DEF IInv, FlightInv
  <2> QED BY <2>1, <2>2
<1>5. \A l \in Lists : \A k \in stopAt[l] : ~(k > run[l])
  BY <1>3 DEF IInv, StopInv
<1>6. QED
  BY <1>1, <1>2, <1>3, <1>4, <1>5

LEMMA IdleWhenNotRunning ==
  ASSUME IInv, ~isRunning
  PROVE  InFlight = 0 /\ app # "issue" /\ handler # "stop"
  BY CountsAreNumbers DEF IInv, RunningIsExact

(* Steps that leave the engine and the interrupts alone.                   *)
LEMMA QuietSteps ==
  ASSUME IInv, TypeOK',
         UNCHANGED <<counts, runState, cmdReqQueue, cmdreq, handler, pending, handling>>,
         app' = "issue" <=> app = "issue",
         app' = "transfer" <=> app = "transfer",
         app = "transfer" => UNCHANGED boundList
  PROVE  IInv'
<1> USE DEF counts, runState
<1>1. Uncounted' = Uncounted /\ InFlight' = InFlight /\ NumCommands' = NumCommands
  BY DEF Uncounted, InFlight, NumCommands
<1>2. QueueShape'
  BY DEF IInv, QueueShape
<1>3. FlightInv'
  BY <1>1 DEF IInv, FlightInv
<1>4. WindowInv' /\ StopInv' /\ BlanksInv'
  BY DEF IInv, WindowInv, StopInv, BlanksInv
<1>5. HandlerInv' /\ IssueInv' /\ TransferInv' /\ StartedInv'
  BY <1>1 DEF IInv, HandlerInv, IssueInv, TransferInv, StartedInv
<1>6. RunningIsExact'
  BY <1>1 DEF IInv, RunningIsExact, LeftBehind
<1>7. QED
  BY <1>2, <1>3, <1>4, <1>5, <1>6 DEF IInv

LEMMA EntriesAreRequests ==
  ASSUME NEW l \in Lists, NEW from \in Nat, NEW d \in Nat
  PROVE  /\ Entries(l, from, from + d) \in Seq(Requests)
         /\ Len(Entries(l, from, from + d)) = 2 * d
         /\ \A k \in 1 .. 2 * d :
              Entries(l, from, from + d)[k] =
                [list |-> l, id |-> from + (k + 1) \div 2, isFlush |-> k % 2 = 1]
<1>1. 2 * ((from + d) - from) = 2 * d /\ 2 * d \in Nat
  OBVIOUS
<1>2. Entries(l, from, from + d) =
        [k \in 1 .. 2 * d |->
           [list |-> l, id |-> from + (k + 1) \div 2, isFlush |-> k % 2 = 1]]
  BY <1>1 DEF Entries
<1>3. ASSUME NEW k \in 1 .. 2 * d
      PROVE  [list |-> l, id |-> from + (k + 1) \div 2, isFlush |-> k % 2 = 1] \in Requests
  <2>1. from + (k + 1) \div 2 \in Nat
    OBVIOUS
  <2>2. (k % 2 = 1) \in BOOLEAN
    OBVIOUS
  <2> QED BY <2>1, <2>2 DEF Requests
<1> DEFINE e(k) == [list |-> l, id |-> from + (k + 1) \div 2, isFlush |-> k % 2 = 1]
<1>4. \A k \in 1 .. 2 * d : e(k) \in Requests
  BY <1>3
<1>5. Entries(l, from, from + d) = [k \in 1 .. 2 * d |-> e(k)]
  BY <1>2
<1> HIDE DEF e
<1>6. /\ Entries(l, from, from + d) \in Seq(Requests)
      /\ Len(Entries(l, from, from + d)) = 2 * d
      /\ \A k \in 1 .. 2 * d : Entries(l, from, from + d)[k] = e(k)
  BY <1>1, <1>4, <1>5
<1>7. QED
  BY <1>6 DEF e

(* The last of n places, seen from a place and from d pairs further on.    *)
LEMMA PlacesFurtherOn ==
  ASSUME NEW n \in Nat, NEW d \in Nat, NEW k \in 1 .. n + 2 * d
  PROVE  /\ k <= n => /\ ((n + 2 * d) - k) \div 2 = ((n - k) \div 2) + d
                      /\ ((n + 2 * d) - k) % 2 = (n - k) % 2
         /\ k > n => /\ ((n + 2 * d) - k) \div 2 = d - (((k - n) + 1) \div 2)
                     /\ ((n + 2 * d) - k) % 2 = (k - n) % 2
  OBVIOUS

(* The larger of two.                                                      *)
LEMMA MaxOfTwo ==
  ASSUME NEW a \in Int, NEW b \in Int, a <= b
  PROVE  Max({a, b}) = b
  <1>1. b \in {a, b} /\ \A y \in {a, b} : b >= y
    OBVIOUS
  <1>2. \A x \in {a, b} : (\A y \in {a, b} : x >= y) => x = b
    OBVIOUS
  <1> QED BY <1>1, <1>2 DEF Max

(* What IssueSpeculative does while no stop is asked for: no mark is met,  *)
(* and the queue has room for all that the window allows.                  *)
LEMMA IssueEffect ==
  ASSUME NEW l \in Lists, NEW u \in Nat, NEW r \in Nat,
         issued \in [Lists -> Nat], stopAt[l] \subseteq 1 .. issued[l],
         cmdReqQueue \in Seq(Requests), ~stopSpeculative,
         r <= issued[l], issued[l] <= u, issued[l] - r <= NumSpeculative,
         Len(cmdReqQueue) <= 2 * (issued[l] - r),
         l = runList, QueueShape, UNCHANGED runList, IssueSpeculative(l, u, r)
  PROVE  \E d \in Nat :
           /\ issued' = [issued EXCEPT ![l] = @ + d]
           /\ issued[l] + d <= u /\ issued[l] + d - r <= NumSpeculative
           /\ u > r => issued[l] + d > r
           /\ stopSpeculative' = FALSE
           /\ cmdReqQueue' \in Seq(Requests)
           /\ Len(cmdReqQueue') = Len(cmdReqQueue) + 2 * d
           /\ QueueShape'
<1> DEFINE i     == issued[l]
           n     == Len(cmdReqQueue)
           stops == {k \in stopAt[l] : k > issued[l]}
           limit == IF u <= r + NumSpeculative THEN u ELSE r + NumSpeculative
<1>1. i \in Nat /\ n \in Nat /\ NumSpeculative \in Nat \ {0} /\ CMDREQ_QUEUE_LENGTH \in Nat
      /\ 2 * NumSpeculative <= CMDREQ_QUEUE_LENGTH
  BY BoundsAreNat, QueuesSuffice
<1>2. stops = {}
  BY <1>1
<1>3. Min({u, r + NumSpeculative} \cup stops) = limit
  BY <1>1, <1>2 DEF Min
<1>4. limit \in Nat /\ i <= limit
  BY <1>1
<1>5. Max({i, limit}) = limit
  <2>1. i \in Int /\ limit \in Int
    BY <1>1, <1>4
  <2> QED BY <2>1, <1>4, MaxOfTwo
<1> DEFINE d == limit - i
           queued == cmdReqQueue \o Entries(l, i, i + d)
<1>6. d \in Nat /\ i + d = limit
  BY <1>1, <1>4
<1>7. /\ issued' = [issued EXCEPT ![l] = limit]
      /\ stopSpeculative' = (limit \in stops)
      /\ cmdReqQueue' = SubSeq(queued, 1, Min({Len(queued), CMDREQ_QUEUE_LENGTH}))
  <2> DEFINE upTo == Max({issued[l], Min({u, r + NumSpeculative} \cup stops)})
  <2>1. upTo = limit
    <3> HIDE DEF limit, stops
    <3> QED BY <1>3, <1>5, Zenon
  <2>2. LET all == cmdReqQueue \o Entries(l, issued[l], upTo)
        IN  /\ issued' = [issued EXCEPT ![l] = upTo] /\ stopSpeculative' = (upTo \in stops)
            /\ cmdReqQueue' = SubSeq(all, 1, Min({Len(all), CMDREQ_QUEUE_LENGTH}))
    BY Zenon DEF IssueSpeculative
  <2> HIDE DEF upTo, limit, stops
  <2> QED BY <1>6, <2>1, <2>2, Zenon
<1>8. i + d <= u /\ i + d - r <= NumSpeculative /\ (u > r => i + d > r)
  BY <1>1, <1>6
<1>9. issued' = [issued EXCEPT ![l] = @ + d] /\ stopSpeculative' = FALSE
  <2>1. limit \notin stops
    BY <1>2
  <2> HIDE DEF limit, stops
  <2>2. stopSpeculative' = FALSE
    <3>1. (limit \in stops) = FALSE
      BY <2>1
    <3>2. stopSpeculative' = (limit \in stops)
      BY <1>7
    <3> QED BY ONLY <3>1, <3>2, Zenon
  <2>3. issued[l] + d = limit
    BY <1>6 DEF i
  <2> HIDE DEF d
  <2> QED BY <1>7, <2>2, <2>3
<1> HIDE DEF d, i, limit, stops
<1>10. /\ queued \in Seq(Requests) /\ Len(queued) = n + 2 * d
       /\ \A k \in 1 .. n : queued[k] = cmdReqQueue[k]
       /\ \A k \in (n + 1) .. (n + 2 * d) : queued[k] = Entries(l, i, i + d)[k - n]
  <2>1. i \in Nat /\ d \in Nat /\ n \in Nat
    BY <1>1, <1>6
  <2> DEFINE E == Entries(l, i, i + d)
  <2>2. E \in Seq(Requests) /\ Len(E) = 2 * d
    BY <2>1, EntriesAreRequests
  <2>3. queued = cmdReqQueue \o E
    OBVIOUS
  <2> HIDE DEF E
  <2> HIDE DEF queued
  <2>4. /\ queued \in Seq(Requests) /\ Len(queued) = n + 2 * d
        /\ \A k \in 1 .. n : queued[k] = cmdReqQueue[k]
        /\ \A k \in (n + 1) .. (n + 2 * d) : queued[k] = E[k - n]
    BY <2>1, <2>2, <2>3
  <2> QED BY <2>4 DEF E
<1>11. cmdReqQueue' = queued
  <2>1. n + 2 * d <= CMDREQ_QUEUE_LENGTH
    <3>1. n <= 2 * (i - r)
      BY DEF i
    <3> HIDE DEF n
    <3> QED BY <3>1, <1>1, <1>6, <1>8
  <2>2. Min({Len(queued), CMDREQ_QUEUE_LENGTH}) = Len(queued)
    BY <2>1, <1>1, <1>6, <1>10 DEF Min
  <2>3. SubSeq(queued, 1, Len(queued)) = queued
    BY <1>10
  <2> QED BY <2>2, <2>3, <1>7
<1>12. QueueShape'
  <2>1. Len(cmdReqQueue') = n + 2 * d /\ issued'[l] = i + d /\ runList' = l
    BY <1>9, <1>10, <1>11 DEF i
  <2>2. ASSUME NEW k \in 1 .. n + 2 * d
        PROVE  cmdReqQueue'[k] = [list |-> l, id |-> (i + d) - (((n + 2 * d) - k) \div 2),
                                  isFlush |-> ((n + 2 * d) - k) % 2 = 1]
    <3>1. CASE k <= n
      <4>1. cmdReqQueue'[k] = [list |-> l, id |-> i - ((n - k) \div 2),
                               isFlush |-> (n - k) % 2 = 1]
        BY <3>1, <1>1, <1>6, <1>10, <1>11 DEF QueueShape, i
      <4>2. /\ ((n + 2 * d) - k) \div 2 = ((n - k) \div 2) + d
            /\ ((n + 2 * d) - k) % 2 = (n - k) % 2
        BY <3>1, <1>1, <1>6, PlacesFurtherOn
      <4>3. i - ((n - k) \div 2) = (i + d) - (((n - k) \div 2) + d)
        <5>1. (n - k) \div 2 \in Int
          BY <1>1
        <5> QED BY <5>1, <1>1, <1>6
      <4> QED BY <4>1, <4>2, <4>3
    <3>2. CASE k > n
      <4>1. k - n \in 1 .. 2 * d /\ k \in (n + 1) .. (n + 2 * d)
        BY <3>2, <1>1, <1>6
      <4>2. cmdReqQueue'[k] = [list |-> l, id |-> i + ((k - n) + 1) \div 2,
                               isFlush |-> (k - n) % 2 = 1]
        <5>1. cmdReqQueue'[k] = Entries(l, i, i + d)[k - n]
          BY <4>1, <1>10, <1>11
        <5>2. i \in Nat /\ d \in Nat
          BY <1>1, <1>6
        <5>3. Entries(l, i, i + d)[k - n] =
                [list |-> l, id |-> i + ((k - n) + 1) \div 2, isFlush |-> (k - n) % 2 = 1]
          BY <4>1, <5>2, EntriesAreRequests, ZenonT(30)
        <5> QED BY <5>1, <5>3
      <4>3. /\ ((n + 2 * d) - k) \div 2 = d - (((k - n) + 1) \div 2)
            /\ ((n + 2 * d) - k) % 2 = (k - n) % 2
        BY <3>2, <1>1, <1>6, PlacesFurtherOn, SMTT(30)
      <4>4. i + ((k - n) + 1) \div 2 = (i + d) - (d - (((k - n) + 1) \div 2))
        <5>1. ((k - n) + 1) \div 2 \in Int
          BY <1>1
        <5> QED BY <5>1, <1>1, <1>6
      <4> QED BY <4>2, <4>3, <4>4
    <3> QED BY <3>1, <3>2, <1>1, <1>6
  <2> QED BY <2>1, <2>2 DEF QueueShape
<1>13. Len(cmdReqQueue') = n + 2 * d /\ cmdReqQueue' \in Seq(Requests)
  BY <1>10, <1>11
<1>14. QED
  BY <1>6, <1>8, <1>9, <1>12, <1>13 DEF i

LEMMA HalfFurtherOn ==
  ASSUME NEW n \in Nat, NEW d \in Nat
  PROVE  ((n + 2 * d) + 1) \div 2 = ((n + 1) \div 2) + d
  OBVIOUS

(* IssueSpeculative in a state of IInv, for the list that runs, when r of  *)
(* its requests have been run: those of run, or one more.                  *)
LEMMA IssueWhileRunning ==
  ASSUME IInv, runList \in Lists, ~stopSpeculative, NEW u \in Nat, NEW r \in Nat,
         issued[runList] <= u, UNCHANGED runList, IssueSpeculative(runList, u, r),
         \/ r = run[runList] /\ Uncounted = 0
         \/ r = run[runList] + 1 /\ Uncounted > 0
  PROVE  \E d \in Nat :
           /\ issued' = [issued EXCEPT ![runList] = @ + d]
           /\ r <= issued[runList]
           /\ issued[runList] + d <= u /\ issued[runList] + d - r <= NumSpeculative
           /\ u > r => issued[runList] + d > r
           /\ stopSpeculative' = FALSE
           /\ cmdReqQueue' \in Seq(Requests)
           /\ NumCommands' = NumCommands + d
           /\ QueueShape'
<1> DEFINE l == runList
<1>1. /\ issued \in [Lists -> Nat] /\ stopAt[l] \subseteq 1 .. issued[l]
      /\ cmdReqQueue \in Seq(Requests) /\ QueueShape
      /\ run[l] \in Nat /\ issued[l] \in Nat /\ issued[l] - run[l] <= NumSpeculative
      /\ NumSpeculative \in Nat
  BY BoundsAreNat DEF IInv, TypeOK, WindowInv, Requests
<1>2. /\ issued[l] - run[l] = Uncounted + NumCommands
      /\ Uncounted \in Nat /\ NumCommands \in Nat /\ Len(cmdReqQueue) \in Nat
      /\ Len(cmdReqQueue) <= 2 * NumCommands
  BY CountsAreNumbers
<1>3. /\ r <= issued[l] /\ issued[l] - r <= NumSpeculative
      /\ Len(cmdReqQueue) <= 2 * (issued[l] - r)
  BY <1>1, <1>2
<1>4. PICK d \in Nat :
         /\ issued' = [issued EXCEPT ![l] = @ + d]
         /\ issued[l] + d <= u /\ issued[l] + d - r <= NumSpeculative
         /\ u > r => issued[l] + d > r
         /\ stopSpeculative' = FALSE
         /\ cmdReqQueue' \in Seq(Requests)
         /\ Len(cmdReqQueue') = Len(cmdReqQueue) + 2 * d
         /\ QueueShape'
  BY <1>1, <1>3, IssueEffect
<1>5. NumCommands' = NumCommands + d
  <2>1. Len(cmdReqQueue) \in Nat /\ Len(cmdReqQueue') = Len(cmdReqQueue) + 2 * d
    BY <1>2, <1>4
  <2>2. ((Len(cmdReqQueue) + 2 * d) + 1) \div 2 = ((Len(cmdReqQueue) + 1) \div 2) + d
    BY <2>1, HalfFurtherOn
  <2> QED BY <2>1, <2>2, Zenon DEF NumCommands
<1>6. QED
  BY <1>3, <1>4, <1>5

LEMMA CountRequestsKeepsIInv ==
  ASSUME IInv, NEW n \in Nat \ {0}, boundList \in Lists, CountRequests(n),
         used[boundList] + n <= MaxRequests[boundList],
         app \in {"idle", "transfer"}, app' = "idle"
  PROVE  IInv'
<1> USE DEF CountRequests
<1>1. boundList \in Lists /\ n \in Nat \ {0}
  OBVIOUS
<1>2. PICK u \in Nat : u = used[boundList] + n /\ u <= MaxRequests[boundList]
  BY <1>1 DEF IInv, TypeOK
<1>3. used' = [used EXCEPT ![boundList] = u] /\ used'[boundList] = u
  BY <1>1, <1>2 DEF IInv, TypeOK
<1>4. Uncounted' = Uncounted
  BY DEF Uncounted, receiver, local
<1>5. /\ WindowInv /\ StopInv /\ HandlerInv /\ StartedInv /\ BlanksInv'
      /\ IssueInv' /\ TransferInv'
  BY DEF IInv, BlanksInv, IssueInv, TransferInv, receiver
<1>6. CASE boundList = runList /\ startRun /\ ~isRunning
  <2>1. InFlight = 0 /\ app # "issue" /\ handler # "stop" /\ runList \in Lists
    BY <1>1, <1>6, IdleWhenNotRunning
  <2>2. /\ Uncounted = 0 /\ NumCommands = 0 /\ handler # "lock" /\ ~stopSpeculative
        /\ \A l \in Lists : issued[l] = run[l] /\ \A k \in stopAt[l] : ~(k > run[l])
    BY <2>1, NothingRuns
  <2>3. /\ run[runList] \in Nat /\ issued[runList] <= u
        /\ run[runList] < u
    BY <1>1, <1>2, <1>6 DEF IInv, TypeOK
  <2>4. isRunning' = TRUE /\ UNCHANGED runList /\ IssueSpeculative(runList, u, run[runList])
    BY <1>3, <1>6
  <2>5. PICK d \in Nat :
           /\ issued' = [issued EXCEPT ![runList] = @ + d]
           /\ issued[runList] + d <= u /\ issued[runList] + d - run[runList] <= NumSpeculative
           /\ u > run[runList] => issued[runList] + d > run[runList]
           /\ stopSpeculative' = FALSE
           /\ cmdReqQueue' \in Seq(Requests)
           /\ NumCommands' = NumCommands + d
           /\ QueueShape'
    BY <2>1, <2>2, <2>3, <2>4, IssueWhileRunning
  <2>6. d > 0 /\ InFlight' = d
    BY <2>1, <2>2, <2>3, <2>5, NoListIsNone DEF InFlight, IInv, TypeOK
  <2>7. TypeOK'
    <3>1. used' \in [Lists -> Nat] /\ issued' \in [Lists -> Nat]
      <4>1. used \in [Lists -> Nat] /\ issued \in [Lists -> Nat] /\ issued[runList] + d \in Nat
        BY <2>1 DEF IInv, TypeOK
      <4> HIDE DEF CountRequests
      <4> QED BY <1>3, <2>5, <4>1
    <3>2. ASSUME NEW l \in Lists
          PROVE  /\ run[l] <= issued'[l] /\ issued'[l] <= used'[l]
                 /\ used'[l] <= MaxRequests[l] /\ stopAt[l] \subseteq 1 .. issued'[l]
      <4>1. /\ run[l] <= issued[l] /\ issued[l] <= used[l]
            /\ used[l] <= MaxRequests[l] /\ stopAt[l] \subseteq 1 .. issued[l]
            /\ run[l] \in Nat /\ issued[l] \in Nat /\ used[l] \in Nat
        BY DEF IInv, TypeOK
      <4>2. CASE l = runList
        <5>1. issued'[l] = issued[l] + d /\ used'[l] = u
          BY <1>3, <1>6, <2>5, <4>2 DEF IInv, TypeOK
        <5>2. run[l] <= issued[l] + d /\ stopAt[l] \subseteq 1 .. (issued[l] + d)
          BY <4>1
        <5>3. issued[l] + d <= u /\ u <= MaxRequests[l]
          BY <1>2, <1>6, <2>5, <4>2
        <5> HIDE DEF CountRequests
        <5> QED BY <5>1, <5>2, <5>3
      <4>3. CASE l # runList
        BY <1>3, <1>6, <2>5, <4>1, <4>3 DEF IInv, TypeOK
      <4> QED BY <4>2, <4>3
    <3>3. /\ isRunning' = TRUE /\ stopSpeculative' = FALSE /\ cmdReqQueue' \in Seq(Requests)
          /\ UNCHANGED <<run, stopAt, boundList, runList, startRun, vsync, cmdreq, handler,
                         pending, handling, handlerDone, asleep, stopped>>
          /\ app' = "idle"
      BY <2>4, <2>5 DEF receiver, local
    <3> HIDE DEF CountRequests
    <3>4. CountsOK /\ EngineOK /\ ThreadsOK /\ ReceiverOK
      BY TypeParts DEF IInv
    <3>5. CountsOK'
      BY <3>1, <3>2, <3>3, <3>4 DEF CountsOK
    <3>6. EngineOK'
      BY <3>3, <3>4 DEF EngineOK
    <3>7. ThreadsOK' /\ ReceiverOK'
      BY <3>3, <3>4 DEF ThreadsOK, ReceiverOK
    <3> QED BY <3>5, <3>6, <3>7, TypeParts
  <2>8. FlightInv' /\ WindowInv'
    BY <1>4, <1>5, <2>1, <2>2, <2>4, <2>5, <2>6 DEF FlightInv, WindowInv, IInv, TypeOK
  <2>9. StopInv' /\ HandlerInv' /\ StartedInv' /\ RunningIsExact'
    BY <1>5, <1>6, <2>1, <2>2, <2>4, <2>5, <2>6
       DEF StopInv, HandlerInv, StartedInv, RunningIsExact, receiver, local
  <2> QED BY <1>5, <2>5, <2>7, <2>8, <2>9 DEF IInv
<1>7. CASE ~(boundList = runList /\ startRun /\ ~isRunning)
  <2>1. UNCHANGED <<isRunning, issued, stopSpeculative, cmdReqQueue>>
    BY <1>7
  <2>2. InFlight' = InFlight /\ NumCommands' = NumCommands
    BY <2>1 DEF InFlight, NumCommands
  <2>3. TypeOK'
    <3>1. CountsOK /\ EngineOK /\ ThreadsOK /\ ReceiverOK
      BY TypeParts DEF IInv
    <3>2. /\ UNCHANGED <<run, issued, stopAt, boundList, runList, startRun, isRunning,
                         stopSpeculative, cmdReqQueue, vsync, cmdreq, handler,
                         pending, handling, handlerDone, asleep, stopped>>
          /\ app' = "idle"
      BY <2>1 DEF receiver, local
    <3> HIDE DEF CountRequests
    <3>3. CountsOK'
      <4>1. used' \in [Lists -> Nat]
        BY <1>3, <3>1 DEF CountsOK
      <4>2. ASSUME NEW l \in Lists
            PROVE  issued[l] <= used'[l] /\ used'[l] <= MaxRequests[l]
        <5>1. CASE l = boundList
          BY <1>1, <1>2, <1>3, <3>1, <5>1 DEF CountsOK
        <5>2. CASE l # boundList
          BY <1>3, <3>1, <5>2 DEF CountsOK
        <5> QED BY <5>1, <5>2
      <4> QED BY <3>1, <3>2, <4>1, <4>2 DEF CountsOK
    <3>4. EngineOK' /\ ThreadsOK' /\ ReceiverOK'
      BY <3>1, <3>2 DEF EngineOK, ThreadsOK, ReceiverOK
    <3> QED BY <3>3, <3>4, TypeParts
  <2>4. QueueShape' /\ FlightInv' /\ WindowInv' /\ StopInv'
    BY <1>4, <1>5, <2>1, <2>2 DEF IInv, QueueShape, FlightInv, WindowInv, StopInv
  <2>5. HandlerInv' /\ StartedInv'
    BY <1>5, <2>1, <2>2 DEF HandlerInv, StartedInv, receiver, local
  <2>6. RunningIsExact'
    <3>1. /\ UNCHANGED <<run, stopAt, boundList, runList, startRun, isRunning, issued,
                         stopSpeculative, handler>>
          /\ app' = "idle" /\ app # "issue"
      BY <2>1 DEF local
    <3>2. ASSUME ~isRunning, startRun, runList # NoList, run[runList] < used'[runList]
          PROVE  LeftBehind'
      <4>1. boundList # runList /\ runList \in Lists
        BY <1>7, <3>2 DEF IInv, TypeOK
      <4>2. used'[runList] = used[runList]
        BY <1>3, <4>1 DEF IInv, TypeOK
      <4>3. LeftBehind
        BY <3>2, <4>2 DEF IInv, RunningIsExact
      <4> QED BY <3>1, <4>1, <4>2, <4>3 DEF LeftBehind
    <3> HIDE DEF CountRequests
    <3> QED BY <2>2, <3>1, <3>2 DEF IInv, RunningIsExact
  <2> QED BY <1>5, <2>3, <2>4, <2>5, <2>6 DEF IInv
<1>8. QED
  BY <1>6, <1>7

LEMMA RecordingKeepsIInv ==
  ASSUME IInv, CountTransfer \/ \E n \in 1 .. MaxBatch : AddRequests(n)
  PROVE  IInv'
<1>1. ASSUME NEW n \in 1 .. MaxBatch, AddRequests(n) PROVE IInv'
  <2>1. /\ n \in Nat \ {0} /\ boundList \in Lists /\ CountRequests(n)
        /\ used[boundList] + n <= MaxRequests[boundList]
        /\ app = "idle" /\ app' = "idle"
    BY <1>1 DEF AddRequests, IInv, TypeOK
  <2> QED BY <2>1, CountRequestsKeepsIInv
<1>2. CASE CountTransfer
  <2>1. /\ boundList \in Lists /\ CountRequests(1)
        /\ used[boundList] < MaxRequests[boundList]
        /\ app = "transfer" /\ app' = "idle"
    BY <1>2 DEF CountTransfer, IInv, TransferInv
  <2>2. used[boundList] + 1 <= MaxRequests[boundList]
    BY <2>1, BoundsAreNat DEF IInv, TypeOK
  <2> QED BY <2>1, <2>2, CountRequestsKeepsIInv
<1>3. QED
  BY <1>1, <1>2

(* The request counted without the lock is the only one that waits: no     *)
(* other of a started list did while nothing ran, or there were no room.   *)
LEMMA TransferRenderImageKeepsIInv ==
  ASSUME IInv, TransferRenderImage
  PROVE  IInv'
<1> USE DEF TransferRenderImage, runState, local, receiver
<1>1. /\ boundList \in Lists /\ used[boundList] < MaxRequests[boundList]
      /\ used[boundList] \in Nat /\ MaxRequests[boundList] \in Nat
  BY BoundsAreNat DEF IInv, TypeOK
<1>2. PICK u \in Nat : u = used[boundList] + 1 /\ u <= MaxRequests[boundList]
  <2>1. used[boundList] + 1 \in Nat /\ used[boundList] + 1 <= MaxRequests[boundList]
    BY ONLY <1>1
  <2> HIDE DEF TransferRenderImage
  <2> QED BY <2>1, Zenon
<1>3. /\ used' = [used EXCEPT ![boundList] = u] /\ used'[boundList] = u
      /\ used' \in [Lists -> Nat]
      /\ \A l \in Lists : l # boundList => used'[l] = used[l]
  BY <1>1, <1>2 DEF IInv, TypeOK
<1>4. /\ UNCHANGED <<run, issued, stopAt, boundList, runList, startRun, isRunning,
                     stopSpeculative, cmdReqQueue, vsync, cmdreq, handler, pending, handling,
                     handlerDone, asleep, stopped>>
      /\ app = "idle"
      /\ app' = IF u = MaxRequests[boundList] THEN "idle" ELSE "transfer"
  BY <1>3
<1> HIDE DEF TransferRenderImage
<1>5. Uncounted' = Uncounted /\ NumCommands' = NumCommands /\ InFlight' = InFlight
  BY <1>4 DEF Uncounted, NumCommands, InFlight
<1>6. TypeOK'
  <2>1. CountsOK /\ EngineOK /\ ThreadsOK /\ ReceiverOK
    BY TypeParts DEF IInv
  <2>2. CountsOK'
    <3>1. ASSUME NEW l \in Lists PROVE issued[l] <= used'[l] /\ used'[l] <= MaxRequests[l]
      BY <1>2, <1>3, <2>1 DEF CountsOK
    <3> QED BY <1>3, <1>4, <2>1, <3>1 DEF CountsOK
  <2>3. EngineOK' /\ ThreadsOK' /\ ReceiverOK'
    BY <1>4, <2>1 DEF EngineOK, ThreadsOK, ReceiverOK
  <2> QED BY <2>2, <2>3, TypeParts
<1>7. QueueShape' /\ FlightInv' /\ WindowInv' /\ StopInv' /\ BlanksInv'
  BY <1>4, <1>5 DEF IInv, QueueShape, FlightInv, WindowInv, StopInv, BlanksInv
<1>8. HandlerInv' /\ IssueInv' /\ StartedInv'
  BY <1>4, <1>5 DEF IInv, HandlerInv, IssueInv, StartedInv
<1>9. TransferInv'
  <2>1. app' = "transfer" => u < MaxRequests[boundList]
    BY <1>1, <1>2, <1>4
  <2> QED BY <1>1, <1>3, <1>4, <2>1 DEF TransferInv
<1>10. RunningIsExact'
  <2>1. ASSUME ~isRunning, startRun, runList # NoList, run[runList] < used'[runList]
        PROVE  LeftBehind'
    <3>1. runList \in Lists /\ run[runList] \in Nat /\ used[runList] \in Nat
          /\ run[runList] <= used[runList]
      BY <2>1 DEF IInv, TypeOK
    <3>2. CASE boundList = runList
      <4>1. ~(run[runList] < used[runList])
        <5>1. used[runList] # MaxRequests[runList] /\ app # "transfer"
          BY <1>1, <1>4, <3>2
        <5> QED BY <2>1, <5>1 DEF IInv, RunningIsExact, LeftBehind
      <4> QED BY <1>2, <1>3, <1>4, <3>1, <3>2, <4>1 DEF LeftBehind
    <3>3. CASE boundList # runList
      <4>1. used'[runList] = used[runList]
        BY <1>3, <3>1, <3>3
      <4> QED BY <1>4, <2>1, <4>1 DEF IInv, RunningIsExact, LeftBehind
    <3> QED BY <3>2, <3>3
  <2> QED BY <1>4, <1>5, <2>1 DEF IInv, RunningIsExact
<1>11. QED
  BY <1>6, <1>7, <1>8, <1>9, <1>10 DEF IInv

LEMMA RunCmdlistKeepsIInv ==
  ASSUME IInv, RunCmdlist
  PROVE  IInv'
<1> USE DEF RunCmdlist, counts, receiver, local
<1>1. InFlight = 0 /\ app # "issue" /\ handler # "stop"
  BY IdleWhenNotRunning
<1>2. /\ Uncounted = 0 /\ NumCommands = 0 /\ Len(cmdReqQueue) = 0 /\ handler # "lock"
      /\ ~stopSpeculative /\ cmdReqQueue = <<>>
      /\ \A l \in Lists : issued[l] = run[l] /\ \A k \in stopAt[l] : ~(k > run[l])
  BY <1>1, NothingRuns
<1>3. boundList \in Lists /\ runList' = boundList
  BY DEF IInv, TypeOK
<1>4. Uncounted' = 0 /\ NumCommands' = 0 /\ InFlight' = 0
  BY <1>2, <1>3, NoListIsNone DEF Uncounted, NumCommands, InFlight, IInv, TypeOK
<1>5. /\ app' = "issue" <=> isRunning'
      /\ isRunning' <=> run[boundList] < used[boundList]
  OBVIOUS
<1>6. TypeOK'
  BY <1>3 DEF IInv, TypeOK
<1>7. QueueShape' /\ FlightInv' /\ WindowInv' /\ StopInv'
  BY <1>2, <1>4 DEF QueueShape, FlightInv, WindowInv, StopInv, IInv
<1>8. HandlerInv' /\ IssueInv' /\ TransferInv' /\ StartedInv' /\ BlanksInv'
  BY <1>1, <1>2, <1>3, <1>4, <1>5, NoListIsNone
     DEF HandlerInv, IssueInv, TransferInv, StartedInv, BlanksInv, IInv
<1>9. RunningIsExact'
  <2>1. ~stopSpeculative' /\ handler' # "stop" /\ run' = run /\ used' = used
    BY <1>1, <1>2
  <2> HIDE DEF RunCmdlist
  <2> QED BY <1>3, <1>4, <1>5, <2>1 DEF RunningIsExact
<1>10. QED
  BY <1>6, <1>7, <1>8, <1>9 DEF IInv

LEMMA RunIssuesKeepsIInv ==
  ASSUME IInv, RunIssues
  PROVE  IInv'
<1> USE DEF RunIssues, receiver, local
<1>1. /\ runList \in Lists /\ InFlight = 0 /\ isRunning /\ startRun
      /\ run[runList] < used[runList] /\ handler # "stop"
  BY DEF IInv, TypeOK, IssueInv
<1>2. /\ Uncounted = 0 /\ NumCommands = 0 /\ handler # "lock" /\ ~stopSpeculative
      /\ \A l \in Lists : issued[l] = run[l] /\ \A k \in stopAt[l] : ~(k > run[l])
  BY <1>1, NothingRuns
<1>3. PICK u \in Nat, r \in Nat : u = used[runList] /\ r = run[runList]
  BY <1>1 DEF IInv, TypeOK
<1>4. /\ issued[runList] = r /\ r < u /\ issued[runList] <= u
      /\ UNCHANGED runList /\ IssueSpeculative(runList, u, r)
  BY <1>1, <1>2, <1>3
<1>5. PICK d \in Nat :
         /\ issued' = [issued EXCEPT ![runList] = @ + d]
         /\ issued[runList] + d <= u /\ issued[runList] + d - r <= NumSpeculative
         /\ u > r => issued[runList] + d > r
         /\ stopSpeculative' = FALSE
         /\ cmdReqQueue' \in Seq(Requests)
         /\ NumCommands' = NumCommands + d
         /\ QueueShape'
  <2> HIDE DEF RunIssues
  <2> QED BY <1>1, <1>2, <1>3, <1>4, IssueWhileRunning
<1>6. Uncounted' = Uncounted
  BY DEF Uncounted
<1>7. d > 0 /\ InFlight' = d
  BY <1>1, <1>2, <1>3, <1>4, <1>5, NoListIsNone DEF InFlight, IInv, TypeOK
<1>8. TypeOK'
  <2>1. issued' \in [Lists -> Nat]
    <3>1. issued \in [Lists -> Nat] /\ issued[runList] + d \in Nat
      BY <1>1 DEF IInv, TypeOK
    <3> HIDE DEF RunIssues
    <3> QED BY <1>5, <3>1
  <2>2. ASSUME NEW l \in Lists
        PROVE  /\ run[l] <= issued'[l] /\ issued'[l] <= used[l]
               /\ used[l] <= MaxRequests[l] /\ stopAt[l] \subseteq 1 .. issued'[l]
    <3>1. /\ run[l] <= issued[l] /\ issued[l] <= used[l]
          /\ used[l] <= MaxRequests[l] /\ stopAt[l] \subseteq 1 .. issued[l]
          /\ run[l] \in Nat /\ issued[l] \in Nat /\ used[l] \in Nat
      BY DEF IInv, TypeOK
    <3>2. CASE l = runList
      <4>1. issued'[l] = issued[l] + d
        BY <1>5, <3>2 DEF IInv, TypeOK
      <4>2. run[l] <= issued[l] + d /\ stopAt[l] \subseteq 1 .. (issued[l] + d)
        BY <3>1
      <4>3. issued[l] + d <= used[l]
        BY <1>3, <1>5, <3>2
      <4> HIDE DEF RunIssues
      <4> QED BY <3>1, <4>1, <4>2, <4>3
    <3>3. CASE l # runList
      BY <1>5, <3>1, <3>3 DEF IInv, TypeOK
    <3> QED BY <3>2, <3>3
  <2>3. /\ UNCHANGED <<used, run, stopAt, boundList, runList, startRun, isRunning, vsync,
                       cmdreq, handler, pending, handling, handlerDone, asleep, stopped>>
        /\ app' = "idle" /\ stopSpeculative' = FALSE /\ cmdReqQueue' \in Seq(Requests)
    BY <1>5
  <2> HIDE DEF RunIssues
  <2>4. CountsOK /\ EngineOK /\ ThreadsOK /\ ReceiverOK
    BY TypeParts DEF IInv
  <2>5. CountsOK'
    BY <2>1, <2>2, <2>3, <2>4 DEF CountsOK
  <2>6. EngineOK'
    BY <2>3, <2>4 DEF EngineOK
  <2>7. ThreadsOK'
    BY <2>3, <2>4 DEF ThreadsOK
  <2>8. ReceiverOK'
    BY <2>3, <2>4 DEF ReceiverOK
  <2> QED BY <2>5, <2>6, <2>7, <2>8, TypeParts
<1>9. FlightInv' /\ WindowInv'
  BY <1>1, <1>2, <1>3, <1>5, <1>6, <1>7 DEF FlightInv, WindowInv, IInv, TypeOK
<1>10. /\ StopInv' /\ HandlerInv' /\ IssueInv' /\ TransferInv' /\ StartedInv' /\ BlanksInv'
       /\ RunningIsExact'
  BY <1>1, <1>2, <1>5, <1>7
     DEF StopInv, HandlerInv, IssueInv, TransferInv, StartedInv, BlanksInv, RunningIsExact, IInv
<1>11. QED
  BY <1>5, <1>8, <1>9, <1>10 DEF IInv

LEMMA StopCmdlistKeepsIInv ==
  ASSUME IInv, StopCmdlist
  PROVE  IInv'
<1> USE DEF StopCmdlist, receiver, local, LockIsFree
<1>1. runList \in Lists
  BY DEF IInv, TypeOK
<1>2. Uncounted' = Uncounted /\ NumCommands' = NumCommands /\ InFlight' = InFlight
  BY DEF Uncounted, NumCommands, InFlight
<1>3. QueueShape' /\ FlightInv' /\ WindowInv' /\ BlanksInv' /\ TransferInv'
  BY <1>2 DEF QueueShape, FlightInv, WindowInv, BlanksInv, TransferInv, IInv
<1>4. InFlight \in Nat /\ InFlight = issued[runList] - run[runList]
  BY <1>1, CountsAreNumbers
<1>5. CASE isRunning
  <2>1. InFlight > 0
    BY <1>5 DEF IInv, RunningIsExact
  <2>2. issued[runList] \in Nat \ {0} /\ issued[runList] > run[runList]
    BY <1>1, <1>4, <2>1 DEF IInv, TypeOK
  <2>3. /\ stopAt' = [stopAt EXCEPT ![runList] = @ \cup {issued[runList]}]
        /\ stopSpeculative' = TRUE /\ UNCHANGED startRun
    BY <1>5
  <2>4. TypeOK'
    <3>1. stopAt' \in [Lists -> SUBSET Nat]
      BY <1>1, <2>2, <2>3 DEF IInv, TypeOK
    <3>2. ASSUME NEW l \in Lists PROVE stopAt'[l] \subseteq 1 .. issued[l]
      BY <1>1, <2>2, <2>3 DEF IInv, TypeOK
    <3> QED BY <2>3, <3>1, <3>2 DEF IInv, TypeOK
  <2>5. StopInv'
    <3> SUFFICES ASSUME NEW l \in Lists, NEW k \in stopAt'[l], k > run[l]
                 PROVE  l = runList /\ k = issued[l] /\ stopSpeculative'
      BY DEF StopInv
    <3>1. CASE l = runList /\ k = issued[runList]
      BY <2>3, <3>1
    <3>2. CASE ~(l = runList /\ k = issued[runList])
      <4>1. k \in stopAt[l]
        BY <1>1, <2>3, <3>2 DEF IInv, TypeOK
      <4> QED BY <2>3, <4>1 DEF IInv, StopInv
    <3> QED BY <3>1, <3>2
  <2>6. HandlerInv' /\ IssueInv' /\ StartedInv'
    BY <1>2, <2>1, <2>3 DEF HandlerInv, IssueInv, StartedInv, IInv
  <2>7. RunningIsExact'
    <3>1. issued[runList] \in stopAt'[runList]
      BY <1>1, <2>3 DEF IInv, TypeOK
    <3> QED BY <1>2, <1>5, <2>1, <2>3, <3>1 DEF RunningIsExact, IInv
  <2> QED BY <1>3, <2>4, <2>5, <2>6, <2>7 DEF IInv
<1>6. CASE ~isRunning
  <2>1. InFlight = 0
    BY <1>6, IdleWhenNotRunning
  <2>2. startRun' = FALSE /\ UNCHANGED <<stopAt, stopSpeculative>>
    BY <1>6
  <2>3. TypeOK' /\ StopInv'
    <3>1. UNCHANGED <<used, run, issued, stopAt, boundList, runList, isRunning, cmdReqQueue, app,
                      vsync, cmdreq, handler, pending, handling, handlerDone, asleep, stopped>>
      BY <2>2 DEF counts
    <3> HIDE DEF StopCmdlist
    <3>2. CountsOK /\ EngineOK /\ ThreadsOK /\ ReceiverOK /\ StopInv
      BY TypeParts DEF IInv
    <3>3. CountsOK' /\ StopInv'
      BY <2>2, <3>1, <3>2 DEF CountsOK, StopInv
    <3>4. EngineOK'
      BY <2>2, <3>1, <3>2 DEF EngineOK
    <3>5. ThreadsOK' /\ ReceiverOK'
      BY <3>1, <3>2 DEF ThreadsOK, ReceiverOK
    <3> QED BY <3>3, <3>4, <3>5, TypeParts
  <2>4. HandlerInv' /\ IssueInv' /\ StartedInv' /\ RunningIsExact'
    BY <1>2, <2>1, <2>2 DEF HandlerInv, IssueInv, StartedInv, RunningIsExact, IInv
  <2> QED BY <1>3, <2>3, <2>4 DEF IInv
<1>7. QED
  BY <1>5, <1>6

LEMMA ClearCmdlistKeepsIInv ==
  ASSUME IInv, ClearCmdlist
  PROVE  IInv'
<1> USE DEF ClearCmdlist, Forget, runState, receiver, local
<1> DEFINE l == boundList
<1>1. l \in Lists
  BY DEF IInv, TypeOK
<1>2. /\ used' = [used EXCEPT ![l] = 0] /\ run' = [run EXCEPT ![l] = 0]
      /\ issued' = [issued EXCEPT ![l] = 0]
      /\ used \in [Lists -> Nat] /\ run \in [Lists -> Nat] /\ issued \in [Lists -> Nat]
      /\ stopAt \in [Lists -> SUBSET Nat]
  BY DEF IInv, TypeOK
<1>3. stopAt' = [stopAt EXCEPT ![l] = {}]
  <2>1. {k \in stopAt[l] : k > used[l]} = {}
    BY <1>1 DEF IInv, TypeOK
  <2> QED BY <2>1
<1>4. TypeOK'
  <2>1. /\ used' \in [Lists -> Nat] /\ run' \in [Lists -> Nat] /\ issued' \in [Lists -> Nat]
        /\ stopAt' \in [Lists -> SUBSET Nat]
    BY <1>1, <1>2, <1>3
  <2>2. ASSUME NEW m \in Lists
        PROVE  /\ run'[m] <= issued'[m] /\ issued'[m] <= used'[m] /\ used'[m] <= MaxRequests[m]
               /\ stopAt'[m] \subseteq 1 .. issued'[m]
    <3>1. CASE m = l
      <4>1. issued'[m] = 0 /\ run'[m] = 0 /\ used'[m] = 0 /\ stopAt'[m] = {}
        BY <1>1, <1>2, <1>3, <3>1
      <4> QED BY <4>1, BoundsAreNat
    <3>2. CASE m # l
      <4>1. /\ issued'[m] = issued[m] /\ run'[m] = run[m] /\ used'[m] = used[m]
            /\ stopAt'[m] = stopAt[m]
        BY <1>1, <1>2, <1>3, <3>2
      <4> QED BY <4>1 DEF IInv, TypeOK
    <3> QED BY <3>1, <3>2
  <2> QED BY <2>1, <2>2 DEF IInv, TypeOK
<1>5. /\ InFlight' = InFlight
      /\ l = runList => cmdReqQueue = <<>> /\ handler # "lock" /\ ~stopSpeculative
  <2>1. CASE l = runList
    <3>1. InFlight = 0
      BY <2>1, IdleWhenNotRunning
    <3>2. issued'[l] = 0 /\ run'[l] = 0
      BY <1>1, <1>2
    <3>3. InFlight' = 0
      BY <2>1, <3>2 DEF InFlight
    <3> QED BY <3>1, <3>3, NothingRuns
  <2>2. CASE l # runList
    BY <1>2, <2>2 DEF InFlight, IInv, TypeOK
  <2> QED BY <2>1, <2>2
<1>6. Uncounted' = Uncounted /\ NumCommands' = NumCommands
  BY DEF Uncounted, NumCommands
<1>7. QueueShape'
  <2>1. CASE l = runList
    BY <1>5, <2>1 DEF QueueShape
  <2>2. CASE l # runList
    <3>1. issued'[runList] = issued[runList]
      BY <1>2, <2>2
    <3> QED BY <3>1 DEF QueueShape, IInv
  <2> QED BY <2>1, <2>2
<1>8. FlightInv' /\ WindowInv' /\ StopInv'
  <2>1. ASSUME NEW m \in Lists
        PROVE  /\ m # runList => issued'[m] = run'[m]
               /\ issued'[m] - run'[m] <= NumSpeculative
               /\ \A k \in stopAt'[m] : k > run'[m] =>
                    m = runList /\ k = issued'[m] /\ stopSpeculative
    <3>1. CASE m = l
      <4>1. issued'[m] = 0 /\ run'[m] = 0 /\ stopAt'[m] = {}
        BY <1>1, <1>2, <1>3, <3>1
      <4> QED BY <4>1, BoundsAreNat
    <3>2. CASE m # l
      <4>1. issued'[m] = issued[m] /\ run'[m] = run[m] /\ stopAt'[m] = stopAt[m]
        BY <1>2, <1>3, <3>2
      <4>2. /\ m # runList => issued[m] = run[m]
            /\ issued[m] - run[m] <= NumSpeculative
            /\ \A k \in stopAt[m] : k > run[m] =>
                 m = runList /\ k = issued[m] /\ stopSpeculative
        BY DEF IInv, FlightInv, WindowInv, StopInv
      <4> QED BY <4>1, <4>2
    <3> QED BY <3>1, <3>2
  <2>2. UNCHANGED <<runList, stopSpeculative>> /\ InFlight' = Uncounted' + NumCommands'
    BY <1>5, <1>6 DEF IInv, FlightInv
  <2> QED BY <2>1, <2>2 DEF FlightInv, WindowInv, StopInv
<1>9. HandlerInv' /\ IssueInv' /\ StartedInv' /\ BlanksInv'
  <2>1. handler = "lock" => run'[runList] = run[runList]
    BY <1>2, <1>5
  <2> QED BY <1>5, <2>1 DEF HandlerInv, IssueInv, StartedInv, BlanksInv, IInv
<1>9a. TransferInv'
  BY DEF TransferInv
<1>10. RunningIsExact'
  <2>1. CASE l = runList
    <3>1. run'[runList] = 0 /\ used'[runList] = 0
      BY <1>1, <1>2, <2>1
    <3> QED BY <1>5, <2>1, <3>1 DEF RunningIsExact, IInv
  <2>2. CASE l # runList
    <3>1. /\ run'[runList] = run[runList] /\ used'[runList] = used[runList]
          /\ issued'[runList] = issued[runList] /\ stopAt'[runList] = stopAt[runList]
      BY <1>2, <1>3, <2>2
    <3> QED BY <1>5, <3>1 DEF RunningIsExact, LeftBehind, IInv
  <2> QED BY <2>1, <2>2
<1>11. QED
  BY <1>4, <1>7, <1>8, <1>9, <1>9a, <1>10 DEF IInv

LEMMA DeleteCmdlistKeepsIInv ==
  ASSUME IInv, NEW l \in Lists, DeleteCmdlist(l)
  PROVE  IInv'
<1> USE DEF DeleteCmdlist, Forget, receiver, local
<1>1. /\ used' = [used EXCEPT ![l] = 0] /\ run' = [run EXCEPT ![l] = 0]
      /\ issued' = [issued EXCEPT ![l] = 0] /\ stopAt' = [stopAt EXCEPT ![l] = {}]
      /\ used \in [Lists -> Nat] /\ run \in [Lists -> Nat] /\ issued \in [Lists -> Nat]
      /\ stopAt \in [Lists -> SUBSET Nat]
  BY DEF IInv, TypeOK
<1>1a. startRun' <=> startRun /\ l # runList
  OBVIOUS
<1>2. TypeOK'
  <2>1. /\ used' \in [Lists -> Nat] /\ run' \in [Lists -> Nat] /\ issued' \in [Lists -> Nat]
        /\ stopAt' \in [Lists -> SUBSET Nat]
    BY <1>1
  <2>2. ASSUME NEW m \in Lists
        PROVE  /\ run'[m] <= issued'[m] /\ issued'[m] <= used'[m] /\ used'[m] <= MaxRequests[m]
               /\ stopAt'[m] \subseteq 1 .. issued'[m]
    <3>1. CASE m = l
      <4>1. issued'[m] = 0 /\ run'[m] = 0 /\ used'[m] = 0 /\ stopAt'[m] = {}
        BY <1>1, <3>1
      <4> QED BY <4>1, BoundsAreNat
    <3>2. CASE m # l
      <4>1. /\ issued'[m] = issued[m] /\ run'[m] = run[m] /\ used'[m] = used[m]
            /\ stopAt'[m] = stopAt[m]
        BY <1>1, <3>2
      <4> QED BY <4>1 DEF IInv, TypeOK
    <3> QED BY <3>1, <3>2
  <2> QED BY <2>1, <2>2 DEF IInv, TypeOK
<1>3. /\ InFlight' = InFlight
      /\ l = runList => /\ InFlight = 0 /\ cmdReqQueue = <<>> /\ handler # "lock"
                        /\ handler # "stop" /\ ~stopSpeculative
  <2>1. CASE l = runList
    <3>1. InFlight = 0 /\ handler # "stop"
      BY <2>1, IdleWhenNotRunning
    <3>2. InFlight' = 0
      BY <2>1 DEF InFlight
    <3> QED BY <3>1, <3>2, NothingRuns
  <2>2. CASE l # runList
    BY <1>1, <2>2 DEF InFlight, IInv, TypeOK
  <2> QED BY <2>1, <2>2
<1>4. Uncounted' = Uncounted /\ NumCommands' = NumCommands
  BY DEF Uncounted, NumCommands
<1>5. QueueShape'
  <2>1. CASE l = runList
    BY <1>3, <2>1 DEF QueueShape
  <2>2. CASE l # runList
    <3>1. issued'[runList] = issued[runList] /\ runList' = runList
      BY <1>1, <2>2
    <3> QED BY <3>1 DEF QueueShape, IInv
  <2> QED BY <2>1, <2>2
<1>6. FlightInv' /\ WindowInv' /\ StopInv'
  <2>1. ASSUME NEW m \in Lists
        PROVE  /\ m # runList' => issued'[m] = run'[m]
               /\ issued'[m] - run'[m] <= NumSpeculative
               /\ \A k \in stopAt'[m] : k > run'[m] =>
                    m = runList' /\ k = issued'[m] /\ stopSpeculative
    <3>1. CASE m = l
      <4>1. issued'[m] = 0 /\ run'[m] = 0 /\ stopAt'[m] = {}
        BY <1>1, <3>1
      <4> QED BY <4>1, BoundsAreNat
    <3>2. CASE m # l
      <4>1. issued'[m] = issued[m] /\ run'[m] = run[m] /\ stopAt'[m] = stopAt[m]
        BY <1>1, <3>2
      <4>2. /\ m # runList => issued[m] = run[m]
            /\ issued[m] - run[m] <= NumSpeculative
            /\ \A k \in stopAt[m] : k > run[m] =>
                 m = runList /\ k = issued[m] /\ stopSpeculative
        BY DEF IInv, FlightInv, WindowInv, StopInv
      <4>3. m = runList => m = runList'
        BY <3>2
      <4>4. m # runList' => m # runList
        BY <4>3
      <4> QED BY <4>1, <4>2, <4>3, <4>4
    <3> QED BY <3>1, <3>2
  <2>2. UNCHANGED stopSpeculative /\ InFlight' = Uncounted' + NumCommands'
    BY <1>3, <1>4 DEF IInv, FlightInv
  <2> QED BY <2>1, <2>2 DEF FlightInv, WindowInv, StopInv
<1>7. HandlerInv' /\ IssueInv' /\ StartedInv' /\ BlanksInv'
  <2>1. handler = "lock" => run'[runList] = run[runList] /\ runList' = runList
    BY <1>1, <1>3
  <2>2. InFlight > 0 /\ startRun => startRun'
    BY <1>3, <1>1a
  <2>3. handler = "stop" => ~startRun'
    BY <1>1a DEF HandlerInv, IInv
  <2> QED BY <1>3, <2>1, <2>2, <2>3 DEF HandlerInv, IssueInv, StartedInv, BlanksInv, IInv
<1>7a. TransferInv'
  BY DEF TransferInv
<1>8. RunningIsExact'
  <2>1. CASE l = runList
    BY <1>3, <2>1 DEF RunningIsExact, IInv
  <2>2. CASE l # runList
    <3>1. /\ run'[runList] = run[runList] /\ used'[runList] = used[runList]
          /\ issued'[runList] = issued[runList] /\ stopAt'[runList] = stopAt[runList]
          /\ runList' = runList /\ (startRun' => startRun)
      BY <1>1, <1>1a, <2>2
    <3> QED BY <1>3, <3>1 DEF RunningIsExact, LeftBehind, IInv
  <2> QED BY <2>1, <2>2
<1>9. QED
  BY <1>2, <1>5, <1>6, <1>7, <1>7a, <1>8 DEF IInv

LEMMA EnterHandlerKeepsIInv ==
  ASSUME IInv, EnterHandler
  PROVE  IInv'
<1> USE DEF EnterHandler, Receiver!Begin, engine, counts, runState
<1>1. /\ pending \in Seq({"P3D", "PDC"}) /\ pending # <<>>
      /\ pending' = Tail(pending) /\ pending' \in Seq({"P3D", "PDC"})
      /\ handling' = Head(pending) /\ handler = "none"
  BY DEF IInv, TypeOK, HandlerInv
<1> DEFINE P3D == Cardinality(Occurrences(pending, "P3D"))
           PDC == Cardinality(Occurrences(pending, "PDC"))
<1>2. /\ P3D = Cardinality(Occurrences(pending', "P3D")) + (IF handling' = "P3D" THEN 1 ELSE 0)
      /\ PDC = Cardinality(Occurrences(pending', "PDC")) + (IF handling' = "PDC" THEN 1 ELSE 0)
  BY <1>1, OccurrencesOfTail
<1>3. /\ P3D \in Nat /\ Cardinality(Occurrences(pending', "P3D")) \in Nat
      /\ PDC \in Nat /\ Cardinality(Occurrences(pending', "PDC")) \in Nat
  <2>1. PICK p \in Seq({"P3D", "PDC"}) : p = pending'
    BY <1>1
  <2>2. /\ Cardinality(Occurrences(p, "P3D")) \in 0 .. Len(p) /\ Len(p) \in Nat
        /\ Cardinality(Occurrences(p, "PDC")) \in 0 .. Len(p)
    BY OccurrencesAreFinite
  <2> QED BY <2>1, <2>2, CountsAreNumbers
<1>4. BlanksInv'
  BY <1>2, <1>3, QueuesSuffice DEF BlanksInv, IInv
<1>5. NumCommands' = NumCommands /\ InFlight' = InFlight
  BY DEF NumCommands, InFlight
<1>6. QueueShape' /\ WindowInv' /\ StopInv' /\ TransferInv' /\ LeftBehind' = LeftBehind
  BY DEF IInv, QueueShape, WindowInv, StopInv, TransferInv, LeftBehind
<1>7. CASE handling' = "P3D"
  <2>1. handler' = "lock" /\ cmdreq' = [list |-> runList, id |-> run[runList] + 1]
        /\ UNCHANGED vsync
    BY <1>7
  <2>2. Uncounted' = Uncounted
    BY <1>1, <1>2, <1>3, <1>7, <2>1 DEF Uncounted
  <2>3. Uncounted > 0
    BY <1>1, <1>2, <1>3, <1>7 DEF Uncounted
  <2>4. InFlight > 0 /\ runList \in Lists
    BY <2>3, CountsAreNumbers
  <2>5. TypeOK'
    <3>1. cmdreq' \in [list : Lists, id : Nat]
      BY <2>1, <2>4 DEF IInv, TypeOK
    <3> QED BY <1>1, <1>7, <2>1, <3>1 DEF IInv, TypeOK
  <2>6. FlightInv'
    BY <1>5, <2>2 DEF IInv, FlightInv
  <2>7. HandlerInv' /\ IssueInv' /\ StartedInv' /\ RunningIsExact'
    BY <1>1, <1>5, <1>6, <1>7, <2>1, <2>4
       DEF IInv, HandlerInv, IssueInv, StartedInv, RunningIsExact
  <2> QED BY <1>4, <1>6, <2>5, <2>6, <2>7 DEF IInv
<1>8. CASE handling' = "PDC"
  <2>1. /\ handler' = "return" /\ UNCHANGED cmdreq
        /\ vsync' = IF vsync = "waiting" THEN "seen" ELSE vsync
    BY <1>8
  <2>2. Uncounted' = Uncounted
    BY <1>1, <1>2, <1>3, <1>8, <2>1 DEF Uncounted
  <2>3. TypeOK'
    BY <1>1, <1>8, <2>1 DEF IInv, TypeOK
  <2>4. FlightInv'
    BY <1>5, <2>2 DEF IInv, FlightInv
  <2>5. HandlerInv' /\ IssueInv' /\ StartedInv' /\ RunningIsExact'
    BY <1>1, <1>5, <1>6, <1>8, <2>1
       DEF IInv, HandlerInv, IssueInv, StartedInv, RunningIsExact
  <2> QED BY <1>4, <1>6, <2>3, <2>4, <2>5 DEF IInv
<1>9. QED
  BY <1>7, <1>8

LEMMA StopRunningKeepsIInv ==
  ASSUME IInv, StopRunning
  PROVE  IInv'
<1> USE DEF StopRunning, counts, receiver
<1>1. InFlight = 0 /\ ~startRun /\ app # "issue"
  BY DEF IInv, HandlerInv, IssueInv
<1>2. ~stopSpeculative
  BY <1>1, NothingRuns
<1>3. Uncounted' = Uncounted /\ NumCommands' = NumCommands /\ InFlight' = InFlight
  BY DEF Uncounted, NumCommands, InFlight
<1>4. TypeOK'
  <2>1. handler' \in {"none", "lock", "stop", "return"} /\ isRunning' \in BOOLEAN
    OBVIOUS
  <2>2. UNCHANGED <<used, run, issued, stopAt, boundList, runList, startRun, stopSpeculative,
                    cmdReqQueue, app, vsync, cmdreq, pending, handling, handlerDone, asleep,
                    stopped>>
    OBVIOUS
  <2> HIDE DEF StopRunning
  <2> QED BY <2>1, <2>2 DEF IInv, TypeOK
<1>5. QueueShape' /\ FlightInv' /\ WindowInv' /\ StopInv' /\ BlanksInv'
  BY <1>3 DEF IInv, QueueShape, FlightInv, WindowInv, StopInv, BlanksInv
<1>6. HandlerInv' /\ IssueInv' /\ TransferInv' /\ StartedInv' /\ RunningIsExact'
  BY <1>1, <1>2, <1>3 DEF IInv, HandlerInv, IssueInv, TransferInv, StartedInv, RunningIsExact
<1>7. QED
  BY <1>4, <1>5, <1>6 DEF IInv

LEMMA LeaveHandlerKeepsIInv ==
  ASSUME IInv, LeaveHandler
  PROVE  IInv'
<1> USE DEF LeaveHandler, Receiver!End, engine, counts, runState
<1>1. Uncounted' = Uncounted /\ NumCommands' = NumCommands /\ InFlight' = InFlight
  BY DEF Uncounted, NumCommands, InFlight
<1>2. TypeOK'
  BY DEF IInv, TypeOK
<1>3. QueueShape' /\ FlightInv' /\ WindowInv' /\ StopInv' /\ BlanksInv'
  BY <1>1 DEF IInv, QueueShape, FlightInv, WindowInv, StopInv, BlanksInv
<1>4. HandlerInv' /\ IssueInv' /\ TransferInv' /\ StartedInv' /\ RunningIsExact'
  BY <1>1 DEF IInv, HandlerInv, IssueInv, TransferInv, StartedInv, RunningIsExact, LeftBehind
<1>5. QED
  BY <1>2, <1>3, <1>4 DEF IInv

LEMMA VerticalBlankKeepsIInv ==
  ASSUME IInv, VerticalBlank
  PROVE  IInv'
<1> USE DEF VerticalBlank, Receiver!Accept, engine, counts, runState, local
<1>1. pending \in Seq({"P3D", "PDC"}) /\ pending' = Append(pending, "PDC")
  BY DEF IInv, TypeOK
<1>2. /\ Cardinality(Occurrences(pending', "P3D")) = Cardinality(Occurrences(pending, "P3D"))
      /\ Cardinality(Occurrences(pending', "PDC")) = Cardinality(Occurrences(pending, "PDC")) + 1
  <2>1. /\ Cardinality(Occurrences(pending', "P3D")) =
             Cardinality(Occurrences(pending, "P3D")) + (IF "PDC" = "P3D" THEN 1 ELSE 0)
        /\ Cardinality(Occurrences(pending', "PDC")) =
             Cardinality(Occurrences(pending, "PDC")) + (IF "PDC" = "PDC" THEN 1 ELSE 0)
    BY <1>1, OccurrencesOfAppend
  <2> QED BY <2>1, CountsAreNumbers
<1>3. BlanksInv'
  BY <1>2, CountsAreNumbers, QueuesSuffice DEF BlanksInv
<1>4. Uncounted' = Uncounted /\ NumCommands' = NumCommands /\ InFlight' = InFlight
  BY <1>2 DEF Uncounted, NumCommands, InFlight
<1>5. TypeOK'
  BY <1>1 DEF IInv, TypeOK
<1>6. QueueShape' /\ FlightInv' /\ WindowInv' /\ StopInv'
  BY <1>4 DEF IInv, QueueShape, FlightInv, WindowInv, StopInv
<1>7. HandlerInv' /\ IssueInv' /\ TransferInv' /\ StartedInv' /\ RunningIsExact'
  BY <1>4 DEF IInv, HandlerInv, IssueInv, TransferInv, StartedInv, RunningIsExact, LeftBehind
<1>8. QED
  BY <1>3, <1>5, <1>6, <1>7 DEF IInv

(* Both queues have room for a window of requests: what is in flight is    *)
(* within it, two entries of the command request queue belong to each      *)
(* command at the most, and blanks fill the relay queue to the watermark.  *)
LEMMA QueuesHaveRoom ==
  ASSUME IInv
  PROVE  /\ Len(cmdReqQueue) <= 2 * NumSpeculative
         /\ NumCommands > 0 => Len(pending) < QUEUE_LENGTH
<1> DEFINE P3D == Cardinality(Occurrences(pending, "P3D"))
           PDC == Cardinality(Occurrences(pending, "PDC"))
<1>1. /\ P3D \in Nat /\ PDC \in Nat /\ Len(pending) = P3D + PDC
      /\ Uncounted \in Nat /\ NumCommands \in Nat /\ InFlight = Uncounted + NumCommands
  BY CountsAreNumbers
<1>2. P3D <= Uncounted
  BY <1>1 DEF Uncounted
<1>3. ASSUME NumCommands > 0 PROVE InFlight <= NumSpeculative
  <2>1. runList \in Lists /\ InFlight = issued[runList] - run[runList]
    BY <1>3, CountsAreNumbers
  <2> QED BY <2>1 DEF IInv, WindowInv
<1>4. PDC <= QUEUE_HIGH_WATERMARK
  BY DEF IInv, BlanksInv
<1>5. Len(cmdReqQueue) \in Nat /\ Len(cmdReqQueue) <= 2 * NumCommands
  <2>1. Len(cmdReqQueue) \in Nat
    BY CountsAreNumbers
  <2> QED BY <2>1 DEF NumCommands
<1> HIDE DEF P3D, PDC
<1> QED BY <1>1, <1>2, <1>3, <1>4, <1>5, QueuesSuffice, BoundsAreNat

LEMMA HalfOfRest ==
  ASSUME NEW n \in Nat \ {0}
  PROVE  /\ (n - 1) % 2 = 1 => ((n - 1) + 1) \div 2 = (n + 1) \div 2
         /\ (n - 1) % 2 # 1 => ((n - 1) + 1) \div 2 = ((n + 1) \div 2) - 1
  OBVIOUS

LEMMA ExecuteRequestKeepsIInv ==
  ASSUME IInv, ExecuteRequest
  PROVE  IInv'
<1> USE DEF ExecuteRequest, Receiver!Accept, counts, runState, local, receiver
<1> DEFINE n == Len(cmdReqQueue)
           flush == Head(cmdReqQueue).isFlush
           P3D == Cardinality(Occurrences(pending, "P3D"))
           PDC == Cardinality(Occurrences(pending, "PDC"))
<1>1. /\ cmdReqQueue \in Seq(Requests) /\ n \in Nat \ {0}
      /\ cmdReqQueue' = Tail(cmdReqQueue) /\ cmdReqQueue' \in Seq(Requests)
      /\ Len(cmdReqQueue') = n - 1
      /\ \A k \in 1 .. (n - 1) : cmdReqQueue'[k] = cmdReqQueue[k + 1]
      /\ Head(cmdReqQueue) = cmdReqQueue[1]
  BY DEF IInv, TypeOK, Requests
<1>2. flush <=> (n - 1) % 2 = 1
  <2>1. cmdReqQueue[1] = [list |-> runList, id |-> issued[runList] - ((n - 1) \div 2),
                          isFlush |-> (n - 1) % 2 = 1]
    BY <1>1 DEF IInv, QueueShape
  <2> DEFINE odd == (n - 1) % 2 = 1
             id  == issued[runList] - ((n - 1) \div 2)
  <2>2. Head(cmdReqQueue) = [list |-> runList, id |-> id, isFlush |-> odd]
    BY <1>1, <2>1
  <2> HIDE DEF odd, id
  <2>3. flush = odd
    BY ONLY <2>2
  <2> QED BY <2>3, Zenon DEF odd
<1>3. /\ flush => NumCommands' = NumCommands
      /\ ~flush => NumCommands' = NumCommands - 1
  BY <1>1, <1>2, HalfOfRest DEF NumCommands
<1>4. QueueShape'
  <2>1. ASSUME NEW k \in 1 .. (n - 1)
        PROVE  cmdReqQueue'[k] = [list |-> runList,
                                  id |-> issued[runList] - (((n - 1) - k) \div 2),
                                  isFlush |-> ((n - 1) - k) % 2 = 1]
    <3>1. n - (k + 1) = (n - 1) - k /\ k + 1 \in 1 .. n
      BY <1>1
    <3> QED BY <1>1, <3>1 DEF IInv, QueueShape
  <2> QED BY <1>1, <2>1 DEF QueueShape
<1>5. InFlight' = InFlight
  BY DEF InFlight
<1>6. /\ WindowInv' /\ StopInv' /\ HandlerInv' /\ IssueInv' /\ TransferInv' /\ StartedInv'
      /\ RunningIsExact'
  BY <1>5 DEF IInv, WindowInv, StopInv, HandlerInv, IssueInv, TransferInv, StartedInv,
              RunningIsExact, LeftBehind
<1>7. pending \in Seq({"P3D", "PDC"})
  BY DEF IInv, TypeOK
<1>8. ASSUME pending' \in Seq({"P3D", "PDC"}), UNCHANGED <<handling, handlerDone, asleep, stopped>>
      PROVE  TypeOK'
  <2>1. cmdReqQueue' \in Seq([list : Lists, id : Nat, isFlush : BOOLEAN])
    BY <1>1 DEF Requests
  <2>2. UNCHANGED <<used, run, issued, stopAt, boundList, runList, startRun, isRunning,
                    stopSpeculative, app, vsync, cmdreq, handler, handling, handlerDone,
                    asleep, stopped>>
    BY <1>8
  <2> HIDE DEF ExecuteRequest
  <2> QED BY <1>8, <2>1, <2>2 DEF IInv, TypeOK
<1>9. CASE flush
  <2>1. UNCHANGED pending
    BY <1>9
  <2>2. Uncounted' = Uncounted
    BY <2>1 DEF Uncounted
  <2>3. TypeOK'
    BY <1>7, <1>9, <1>8
  <2>4. FlightInv' /\ BlanksInv'
    BY <1>3, <1>5, <1>9, <2>1, <2>2 DEF IInv, FlightInv, BlanksInv
  <2> QED BY <1>4, <1>6, <2>3, <2>4 DEF IInv
<1>10. CASE ~flush
  <2>1. NumCommands > 0
    BY <1>1, CountsAreNumbers
  <2>2. Len(pending) < QUEUE_LENGTH
    BY <2>1, QueuesHaveRoom
  <2>3. pending' = Append(pending, "P3D") /\ UNCHANGED <<handling, handlerDone, asleep, stopped>>
    BY <1>7, <1>10, <2>2, QueuesSuffice
  <2>4. /\ Cardinality(Occurrences(pending', "P3D")) = P3D + 1
        /\ Cardinality(Occurrences(pending', "PDC")) = PDC
    <3>1. /\ Cardinality(Occurrences(pending', "P3D")) = P3D + (IF "P3D" = "P3D" THEN 1 ELSE 0)
          /\ Cardinality(Occurrences(pending', "PDC")) = PDC + (IF "P3D" = "PDC" THEN 1 ELSE 0)
      BY <1>7, <2>3, OccurrencesOfAppend
    <3> QED BY <3>1, CountsAreNumbers
  <2>5. Uncounted' = Uncounted + 1
    BY <2>4, CountsAreNumbers DEF Uncounted
  <2>6. TypeOK'
    <3>1. pending' \in Seq({"P3D", "PDC"})
      BY <1>7, <2>3
    <3> QED BY <1>8, <2>3, <3>1
  <2>7. FlightInv'
    <3>1. InFlight' = Uncounted' + NumCommands'
      BY <1>3, <1>5, <1>10, <2>5, CountsAreNumbers
    <3> QED BY <3>1 DEF IInv, FlightInv
  <2>8. BlanksInv'
    BY <2>4 DEF IInv, BlanksInv
  <2> QED BY <1>4, <1>6, <2>6, <2>7, <2>8 DEF IInv
<1>11. QED
  BY <1>9, <1>10

LEMMA CountAndIssueKeepsIInv ==
  ASSUME IInv, CountAndIssue
  PROVE  IInv'
<1> USE DEF CountAndIssue, receiver
<1> DEFINE l == runList
<1>1. /\ handler = "lock" /\ cmdreq.list = l /\ cmdreq.id = run[l] + 1
      /\ handling = "P3D" /\ app # "finalize"
  BY DEF IInv, HandlerInv, LockIsFree
<1>2. Uncounted > 0 /\ InFlight > 0 /\ l \in Lists /\ InFlight = issued[l] - run[l]
      /\ Uncounted \in Nat /\ NumCommands \in Nat /\ InFlight = Uncounted + NumCommands
  BY <1>1, CountsAreNumbers
<1>3. /\ isRunning /\ startRun /\ app # "issue"
  BY <1>2 DEF IInv, RunningIsExact, StartedInv, IssueInv
<1>4. /\ run \in [Lists -> Nat] /\ issued \in [Lists -> Nat] /\ used \in [Lists -> Nat]
      /\ run[l] \in Nat /\ issued[l] \in Nat /\ used[l] \in Nat
      /\ issued[l] > run[l] /\ issued[l] <= used[l]
  BY <1>2 DEF IInv, TypeOK
<1>5. PICK r \in Nat : r = run[l] + 1 /\ r <= issued[l]
  BY <1>4
<1>6. run' = [run EXCEPT ![l] = r] /\ run'[l] = r /\ run' \in [Lists -> Nat]
  BY <1>1, <1>2, <1>4, <1>5
<1>7. handler' # "lock" => Uncounted' = Uncounted - 1
  BY <1>1, CountsAreNumbers DEF Uncounted
<1>8. UNCHANGED <<used, stopAt, boundList, runList, app, vsync, cmdreq, pending, handling,
                  handlerDone, asleep, stopped>>
  OBVIOUS
<1>9. /\ issued[l] - run[l] <= NumSpeculative /\ BlanksInv' /\ TransferInv'
      /\ \A m \in Lists \ {l} : issued[m] = run[m]
      /\ \A m \in Lists : issued[m] - run[m] <= NumSpeculative
      /\ \A m \in Lists : \A k \in stopAt[m] :
            k > run[m] => m = l /\ k = issued[m] /\ stopSpeculative
  BY <1>2, <1>8 DEF IInv, WindowInv, BlanksInv, TransferInv, FlightInv, StopInv
<1>10. CASE r \notin stopAt[l] /\ r < used[l]
  <2>1. /\ handler' = "return" /\ UNCHANGED <<isRunning, startRun>>
        /\ IssueSpeculative(runList, used[runList], r)
    BY <1>1, <1>5, <1>6, <1>8, <1>10
  <2>2. PICK d \in Nat :
           /\ issued' = [issued EXCEPT ![l] = @ + d]
           /\ issued[l] + d <= used[l] /\ issued[l] + d - r <= NumSpeculative
           /\ issued[l] + d > r
           /\ stopSpeculative' \in BOOLEAN
           /\ stopSpeculative' => stopSpeculative /\ d = 0
           /\ stopSpeculative => stopSpeculative'
           /\ cmdReqQueue' \in Seq(Requests)
           /\ NumCommands' = NumCommands + d
           /\ QueueShape'
    <3>1. CASE stopSpeculative
      <4>1. UNCHANGED <<issued, stopSpeculative, cmdReqQueue>>
        BY <2>1, <3>1 DEF IssueSpeculative
      <4>2. issued[l] \in stopAt[l]
        BY <3>1 DEF IInv, RunningIsExact
      <4>3. issued[l] # r
        BY <1>10, <4>2
      <4>4. issued[l] + 0 > r /\ issued[l] + 0 - r <= NumSpeculative
        BY <1>4, <1>5, <1>9, <4>3, BoundsAreNat
      <4>5. issued' = [issued EXCEPT ![l] = @ + 0]
        BY <1>4, <4>1
      <4>6. QueueShape' /\ NumCommands' = NumCommands + 0
        BY <1>2, <1>8, <4>1 DEF IInv, QueueShape, NumCommands
      <4>7. cmdReqQueue' \in Seq(Requests) /\ stopSpeculative' \in BOOLEAN
        BY <4>1 DEF IInv, TypeOK, Requests
      <4> HIDE DEF CountAndIssue
      <4> QED BY <1>4, <3>1, <4>1, <4>4, <4>5, <4>6, <4>7
    <3>2. CASE ~stopSpeculative
      <4>1. PICK u \in Nat : u = used[l]
        BY <1>4
      <4>2. IssueSpeculative(runList, u, r) /\ issued[runList] <= u /\ UNCHANGED runList
        BY <1>4, <1>8, <2>1, <4>1
      <4> HIDE DEF CountAndIssue
      <4>3. PICK d \in Nat :
               /\ issued' = [issued EXCEPT ![runList] = @ + d]
               /\ issued[runList] + d <= u /\ issued[runList] + d - r <= NumSpeculative
               /\ u > r => issued[runList] + d > r
               /\ stopSpeculative' = FALSE
               /\ cmdReqQueue' \in Seq(Requests)
               /\ NumCommands' = NumCommands + d
               /\ QueueShape'
        BY <1>2, <1>5, <3>2, <4>2, IssueWhileRunning
      <4> QED BY <1>10, <3>2, <4>1, <4>3
    <3> QED BY <3>1, <3>2
  <2> HIDE DEF CountAndIssue
  <2>3. issued'[l] = issued[l] + d /\ issued[l] + d \in Nat /\ issued' \in [Lists -> Nat]
        /\ \A m \in Lists \ {l} : issued'[m] = issued[m] /\ run'[m] = run[m]
    BY <1>2, <1>4, <1>6, <2>2
  <2>4. InFlight' = (issued[l] + d) - r
    BY <1>2, <1>6, <1>8, <2>3, NoListIsNone DEF InFlight
  <2>5. InFlight' > 0 /\ InFlight' = Uncounted' + NumCommands'
    <3>1. Uncounted' = Uncounted - 1 /\ NumCommands' = NumCommands + d
      BY <1>7, <2>1, <2>2
    <3> QED BY <1>2, <1>4, <1>5, <2>2, <2>4, <3>1, SMTT(30)
  <2>6. TypeOK'
    <3>1. ASSUME NEW m \in Lists
          PROVE  /\ run'[m] <= issued'[m] /\ issued'[m] <= used[m]
                 /\ stopAt[m] \subseteq 1 .. issued'[m]
      <4>1. CASE m = l
        <5>1. r <= issued[l] + d /\ stopAt[l] \subseteq 1 .. (issued[l] + d)
          BY <1>2, <1>4, <1>5, SMTT(30) DEF IInv, TypeOK
        <5> QED BY <1>6, <2>2, <2>3, <4>1, <5>1
      <4>2. CASE m # l
        BY <2>3, <4>2 DEF IInv, TypeOK
      <4> QED BY <4>1, <4>2
    <3>2. CountsOK /\ EngineOK /\ ThreadsOK /\ ReceiverOK
      BY TypeParts DEF IInv
    <3>3. CountsOK'
      BY <1>6, <1>8, <2>3, <3>1, <3>2 DEF CountsOK
    <3>4. EngineOK' /\ ThreadsOK' /\ ReceiverOK'
      BY <1>8, <2>1, <2>2, <3>2 DEF EngineOK, ThreadsOK, ReceiverOK
    <3> QED BY <3>3, <3>4, TypeParts
  <2>7. FlightInv' /\ WindowInv'
    <3>1. FlightInv'
      BY <1>8, <1>9, <2>3, <2>5 DEF FlightInv
    <3>2. WindowInv'
      <4> SUFFICES ASSUME NEW m \in Lists PROVE issued'[m] - run'[m] <= NumSpeculative
        BY DEF WindowInv
      <4>1. CASE m = l
        <5>1. issued'[m] = issued[l] + d /\ run'[m] = r
          BY <1>6, <2>3, <4>1
        <5> QED BY <1>4, <1>5, <2>2, <5>1, BoundsAreNat, SMTT(30)
      <4>2. CASE m # l
        BY <1>9, <2>3, <4>2
      <4> QED BY <4>1, <4>2
    <3> QED BY <3>1, <3>2
  <2>8. StopInv'
    <3> SUFFICES ASSUME NEW m \in Lists, NEW k \in stopAt[m], k > run'[m]
                 PROVE  m = l /\ k = issued'[m] /\ stopSpeculative'
      BY <1>8 DEF StopInv
    <3>1. k > run[m]
      <4>1. k \in Nat /\ run[m] \in Nat
        BY <1>4 DEF IInv, TypeOK
      <4>2. CASE m = l
        BY <1>5, <1>6, <4>1, <4>2
      <4>3. CASE m # l
        BY <2>3, <4>3
      <4> QED BY <4>2, <4>3
    <3>2. m = l /\ k = issued[m] /\ stopSpeculative
      BY <1>9, <3>1
    <3>3. CASE stopSpeculative'
      BY <1>4, <2>2, <2>3, <3>2, <3>3
    <3>4. CASE ~stopSpeculative'
      BY <2>2, <3>2, <3>4
    <3> QED BY <3>3, <3>4
  <2>9. HandlerInv' /\ IssueInv' /\ StartedInv'
    BY <1>1, <1>3, <1>8, <2>1 DEF IInv, HandlerInv, IssueInv, StartedInv
  <2>10. RunningIsExact'
    <3>1. stopSpeculative' => issued'[l] \in stopAt[l]
      BY <1>4, <2>2, <2>3 DEF IInv, RunningIsExact
    <3> QED BY <1>3, <1>8, <2>1, <2>5, <3>1 DEF RunningIsExact
  <2> QED BY <1>9, <2>2, <2>6, <2>7, <2>8, <2>9, <2>10 DEF IInv
<1>11. ASSUME UNCHANGED <<issued, cmdReqQueue>>, r = issued[l], handler' # "lock",
              ~stopSpeculative', stopSpeculative' \in BOOLEAN,
              startRun' \in BOOLEAN, isRunning' \in BOOLEAN,
              handler' \in {"stop", "return"},
              handler' = "stop" => ~startRun' /\ isRunning',
              handler' = "return" => ~isRunning' /\ ~(r < used[l])
       PROVE  IInv'
  <2> HIDE DEF CountAndIssue
  <2>1. InFlight' = 0
    BY <1>2, <1>4, <1>6, <1>8, <1>11, NoListIsNone DEF InFlight
  <2>2. Uncounted' = Uncounted - 1 /\ NumCommands' = NumCommands
    BY <1>7, <1>11 DEF NumCommands
  <2>3. \A m \in Lists \ {l} : run'[m] = run[m]
    BY <1>4, <1>6
  <2>4. TypeOK'
    <3>1. ASSUME NEW m \in Lists PROVE run'[m] <= issued[m]
      <4>1. CASE m = l
        BY <1>5, <1>6, <4>1
      <4>2. CASE m # l
        BY <2>3, <4>2 DEF IInv, TypeOK
      <4> QED BY <4>1, <4>2
    <3> QED BY <1>6, <1>8, <1>11, <3>1 DEF IInv, TypeOK
  <2>5. QueueShape'
    BY <1>8, <1>11 DEF IInv, QueueShape
  <2>6. FlightInv'
    <3>1. InFlight = 1
      BY <1>2, <1>4, <1>5, <1>11
    <3>2. InFlight' = Uncounted' + NumCommands'
      BY <1>2, <2>1, <2>2, <3>1
    <3> QED BY <1>8, <1>9, <1>11, <2>3, <3>2 DEF FlightInv
  <2>7. WindowInv'
    <3> SUFFICES ASSUME NEW m \in Lists PROVE issued[m] - run'[m] <= NumSpeculative
      BY <1>11 DEF WindowInv
    <3>1. CASE m = l
      BY <1>4, <1>6, <1>11, <3>1, BoundsAreNat
    <3>2. CASE m # l
      BY <1>9, <2>3, <3>2
    <3> QED BY <3>1, <3>2
  <2>8. StopInv'
    <3> SUFFICES ASSUME NEW m \in Lists, NEW k \in stopAt[m], k > run'[m] PROVE FALSE
      BY <1>8 DEF StopInv
    <3>1. k \in Nat /\ k <= issued[m]
      BY DEF IInv, TypeOK
    <3>2. CASE m = l
      BY <1>4, <1>6, <1>11, <3>1, <3>2
    <3>3. CASE m # l
      BY <1>9, <2>3, <3>1, <3>3
    <3> QED BY <3>2, <3>3
  <2>9. HandlerInv' /\ IssueInv' /\ StartedInv'
    BY <1>1, <1>3, <1>8, <1>11, <2>1 DEF IInv, HandlerInv, IssueInv, StartedInv
  <2>10. RunningIsExact'
    BY <1>3, <1>6, <1>8, <1>11, <2>1 DEF RunningIsExact
  <2> QED BY <1>9, <2>4, <2>5, <2>6, <2>7, <2>8, <2>9, <2>10 DEF IInv
<1>12. CASE r \notin stopAt[l] /\ ~(r < used[l])
  <2>1. /\ handler' = "return" /\ isRunning' = FALSE
        /\ UNCHANGED <<startRun, issued, stopSpeculative, cmdReqQueue>>
    BY <1>1, <1>5, <1>6, <1>12
  <2>2. r = issued[l]
    BY <1>4, <1>5, <1>12
  <2>3. ~stopSpeculative
    BY <1>12, <2>2 DEF IInv, RunningIsExact
  <2>4. stopSpeculative' \in BOOLEAN /\ startRun' \in BOOLEAN
    BY <2>1 DEF IInv, TypeOK
  <2> HIDE DEF CountAndIssue
  <2> QED BY <1>11, <1>12, <2>1, <2>2, <2>3, <2>4
<1>13. CASE r \in stopAt[l]
  <2>1. /\ handler' = "stop" /\ startRun' = FALSE /\ stopSpeculative' = FALSE
        /\ UNCHANGED <<isRunning, issued, cmdReqQueue>>
    BY <1>1, <1>5, <1>13
  <2>2. r = issued[l]
    BY <1>2, <1>4, <1>5, <1>9, <1>13
  <2>3. isRunning' \in BOOLEAN /\ isRunning'
    BY <1>3, <2>1 DEF IInv, TypeOK
  <2> HIDE DEF CountAndIssue
  <2> QED BY <1>11, <2>1, <2>2, <2>3
<1>14. QED
  BY <1>10, <1>12, <1>13

(* The calls and the steps that touch neither requests nor interrupts.     *)
LEMMA QuietCallsKeepIInv ==
  ASSUME IInv,
         \/ \E l \in Lists \cup {NoList} : BindCmdlist(l)
         \/ WaitCmdlistDone \/ TestRunning \/ WaitVSync \/ TestVSync
         \/ YieldThread \/ WakeUp \/ Finalize \/ FinalizeReceiver
  PROVE  IInv'
<1> USE DEF engine, counts, runState, local, receiver
<1>1. ASSUME NEW l \in Lists \cup {NoList}, BindCmdlist(l) PROVE IInv'
  <2>1. TypeOK'
    BY <1>1 DEF BindCmdlist, IInv, TypeOK
  <2> QED BY <1>1, <2>1, QuietSteps DEF BindCmdlist
<1>2. CASE WaitCmdlistDone
  <2>1. TypeOK'
    BY <1>2 DEF WaitCmdlistDone, IInv, TypeOK
  <2> QED BY <1>2, <2>1, QuietSteps DEF WaitCmdlistDone
<1>3. CASE TestRunning
  <2>1. TypeOK' /\ app' \notin {"issue", "transfer"}
    BY <1>3 DEF TestRunning, IInv, TypeOK
  <2> QED BY <1>3, <2>1, QuietSteps DEF TestRunning
<1>4. CASE WaitVSync
  <2>1. TypeOK'
    BY <1>4 DEF WaitVSync, IInv, TypeOK
  <2> QED BY <1>4, <2>1, QuietSteps DEF WaitVSync
<1>5. CASE TestVSync
  <2>1. TypeOK' /\ app' \notin {"issue", "transfer"}
    BY <1>5 DEF TestVSync, IInv, TypeOK
  <2> QED BY <1>5, <2>1, QuietSteps DEF TestVSync
<1>6. CASE YieldThread
  <2>1. TypeOK'
    <3>1. /\ UNCHANGED <<engine, vsync, local, pending, handling, stopped>> /\ app' = "asleep"
          /\ handlerDone' \in BOOLEAN /\ asleep' \subseteq {"app"}
      BY <1>6 DEF YieldThread, Receiver!WaitAnyHandlerDone, IInv, TypeOK
    <3>2. CountsOK /\ EngineOK /\ ThreadsOK /\ ReceiverOK
      BY TypeParts DEF IInv
    <3>3. UNCHANGED <<used, run, issued, stopAt, boundList, runList, startRun, isRunning,
                      stopSpeculative, cmdReqQueue, vsync, cmdreq, handler>>
      BY <3>1 DEF engine, counts, runState, local
    <3>4. CountsOK' /\ EngineOK' /\ ThreadsOK' /\ ReceiverOK'
      BY <3>1, <3>2, <3>3 DEF CountsOK, EngineOK, ThreadsOK, ReceiverOK
    <3> QED BY <3>4, TypeParts
  <2> QED BY <1>6, <2>1, QuietSteps DEF YieldThread, Receiver!WaitAnyHandlerDone
<1>7. CASE WakeUp
  <2>1. TypeOK'
    BY <1>7 DEF WakeUp, IInv, TypeOK
  <2> QED BY <1>7, <2>1, QuietSteps DEF WakeUp
<1>8. CASE Finalize
  <2>1. TypeOK'
    BY <1>8 DEF Finalize, IInv, TypeOK
  <2> QED BY <1>8, <2>1, QuietSteps DEF Finalize
<1>9. CASE FinalizeReceiver
  <2>1. TypeOK'
    BY <1>9 DEF FinalizeReceiver, Receiver!Stop, IInv, TypeOK
  <2> QED BY <1>9, <2>1, QuietSteps DEF FinalizeReceiver, Receiver!Stop
<1>10. QED
  BY <1>1, <1>2, <1>3, <1>4, <1>5, <1>6, <1>7, <1>8, <1>9

LEMMA InitEstablishesIInv ==
  ASSUME Init
  PROVE  IInv
<1> USE DEF Init, Receiver!Init
<1>1. TypeOK
  <2>1. ASSUME NEW l \in Lists
        PROVE  /\ run[l] <= issued[l] /\ issued[l] <= used[l] /\ used[l] <= MaxRequests[l]
               /\ stopAt[l] \subseteq 1 .. issued[l]
    BY BoundsAreNat
  <2>2. /\ used \in [Lists -> Nat] /\ run \in [Lists -> Nat] /\ issued \in [Lists -> Nat]
        /\ stopAt \in [Lists -> SUBSET Nat]
    OBVIOUS
  <2>3. /\ cmdReqQueue \in Seq([list : Lists, id : Nat, isFlush : BOOLEAN])
        /\ pending \in Seq({"P3D", "PDC"})
    OBVIOUS
  <2> QED BY <2>1, <2>2, <2>3 DEF TypeOK
<1>2. cmdReqQueue = <<>> /\ Len(cmdReqQueue) = 0 /\ NumCommands = 0
  BY DEF NumCommands
<1>3. Occurrences(pending, "P3D") = {} /\ Occurrences(pending, "PDC") = {}
  BY DEF Occurrences
<1>4. /\ Cardinality(Occurrences(pending, "P3D")) = 0
      /\ Cardinality(Occurrences(pending, "PDC")) = 0
  BY <1>3, FS_EmptySet
<1>5. Uncounted = 0 /\ InFlight = 0
  BY <1>4 DEF Uncounted, InFlight
<1>6. QueueShape /\ FlightInv /\ WindowInv /\ StopInv /\ BlanksInv
  BY <1>2, <1>4, <1>5, BoundsAreNat, QueuesSuffice
     DEF QueueShape, FlightInv, WindowInv, StopInv, BlanksInv
<1>7. HandlerInv /\ IssueInv /\ TransferInv /\ StartedInv /\ RunningIsExact
  BY <1>5 DEF HandlerInv, IssueInv, TransferInv, StartedInv, RunningIsExact
<1>8. QED
  BY <1>1, <1>6, <1>7 DEF IInv

LEMMA NextKeepsIInv ==
  ASSUME IInv, [Next]_vars
  PROVE  IInv'
<1>1. CASE CountTransfer \/ \E n \in 1 .. MaxBatch : AddRequests(n)
  BY <1>1, RecordingKeepsIInv
<1>1a. CASE TransferRenderImage
  BY <1>1a, TransferRenderImageKeepsIInv
<1>2. CASE RunCmdlist
  BY <1>2, RunCmdlistKeepsIInv
<1>3. CASE StopCmdlist
  BY <1>3, StopCmdlistKeepsIInv
<1>4. CASE ClearCmdlist
  BY <1>4, ClearCmdlistKeepsIInv
<1>5. ASSUME NEW l \in Lists, DeleteCmdlist(l) PROVE IInv'
  BY <1>5, DeleteCmdlistKeepsIInv
<1>6. CASE RunIssues
  BY <1>6, RunIssuesKeepsIInv
<1>7. CASE EnterHandler
  BY <1>7, EnterHandlerKeepsIInv
<1>8. CASE CountAndIssue
  BY <1>8, CountAndIssueKeepsIInv
<1>9. CASE StopRunning
  BY <1>9, StopRunningKeepsIInv
<1>10. CASE LeaveHandler
  BY <1>10, LeaveHandlerKeepsIInv
<1>11. CASE ExecuteRequest
  BY <1>11, ExecuteRequestKeepsIInv
<1>12. CASE VerticalBlank
  BY <1>12, VerticalBlankKeepsIInv
<1>13. CASE \/ \E l \in Lists \cup {NoList} : BindCmdlist(l)
            \/ WaitCmdlistDone \/ TestRunning \/ WaitVSync \/ TestVSync
            \/ YieldThread \/ WakeUp \/ Finalize \/ FinalizeReceiver
  BY <1>13, QuietCallsKeepIInv
<1>14. CASE UNCHANGED vars
  <2> USE <1>14 DEF vars, engine, counts, runState, local, receiver
  <2>1. TypeOK'
    BY DEF IInv, TypeOK
  <2> QED BY <2>1, QuietSteps
<1>15. QED
  BY <1>1, <1>1a, <1>2, <1>3, <1>4, <1>5, <1>6, <1>7, <1>8, <1>9, <1>10, <1>11, <1>12, <1>13,
     <1>14
     DEF Next, Call, AppStep, Handle

LEMMA InvariantHolds ==
  Spec => []IInv
  BY InitEstablishesIInv, NextKeepsIInv, PTL DEF Spec

-----------------------------------------------------------------------------
(* The commands are every second entry of the queue, from its end.         *)
LEMMA CommandsAreEverySecond ==
  ASSUME IInv
  PROVE  /\ Commands = {k \in 1 .. Len(cmdReqQueue) : (Len(cmdReqQueue) - k) % 2 = 0}
         /\ Cardinality(Commands) = NumCommands
<1> DEFINE n == Len(cmdReqQueue)
<1>1. n \in Nat /\ DOMAIN cmdReqQueue = 1 .. n
  BY CountsAreNumbers DEF IInv, TypeOK
<1>2. ASSUME NEW k \in 1 .. n
      PROVE  ~cmdReqQueue[k].isFlush <=> (n - k) % 2 = 0
  <2> DEFINE odd == (n - k) % 2 = 1
             id  == issued[runList] - ((n - k) \div 2)
  <2>1. cmdReqQueue[k] = [list |-> runList, id |-> id, isFlush |-> odd]
    BY <1>1 DEF IInv, QueueShape
  <2> HIDE DEF id, odd, n
  <2>2. cmdReqQueue[k].isFlush = odd
    BY ONLY <2>1
  <2>3. ~odd <=> (n - k) % 2 = 0
    BY <1>1 DEF odd
  <2> QED BY <2>2, <2>3
<1>3. Commands = {k \in 1 .. n : (n - k) % 2 = 0}
  <2> HIDE DEF n
  <2> QED BY <1>1, <1>2 DEF Commands
<1>4. Cardinality({k \in 1 .. n : (n - k) % 2 = 0}) = (n + 1) \div 2
  <2> HIDE DEF n
  <2> QED BY <1>1, EvenPlaces
<1>5. QED
  BY <1>3, <1>4 DEF NumCommands

LEMMA IInvImpliesInFlightIsExact ==
  ASSUME IInv
  PROVE  InFlightIsExact
<1> DEFINE n == Len(cmdReqQueue)
<1>1. /\ n \in Nat /\ InFlight \in Nat /\ Uncounted \in Nat /\ NumCommands \in Nat
      /\ InFlight = Uncounted + NumCommands
  BY CountsAreNumbers
<1>2. Commands = {k \in 1 .. n : (n - k) % 2 = 0} /\ Cardinality(Commands) = NumCommands
  BY CommandsAreEverySecond
<1>3. ASSUME NEW k \in Commands
      PROVE  /\ cmdReqQueue[k].list = runList
             /\ cmdReqQueue[k].id =
                  run[runList] + Uncounted + Cardinality({j \in Commands : j <= k})
  <2>1. k \in 1 .. n /\ (n - k) % 2 = 0
    BY <1>2
  <2>2. {j \in Commands : j <= k} = {j \in 1 .. k : (k - j) % 2 = 0}
    <3>1. ASSUME NEW j \in 1 .. n, j <= k
          PROVE  (n - j) % 2 = 0 <=> (k - j) % 2 = 0
      <4> HIDE DEF n
      <4> QED BY <1>1, <2>1, <3>1
    <3>2. 1 .. k = {j \in 1 .. n : j <= k}
      <4> HIDE DEF n
      <4> QED BY <1>1, <2>1
    <3> HIDE DEF n
    <3> QED BY <1>2, <3>1, <3>2
  <2>3. k \in Nat
    BY <2>1
  <2>4. Cardinality({j \in Commands : j <= k}) = (k + 1) \div 2
    BY <2>2, <2>3, EvenPlaces
  <2>5. /\ cmdReqQueue[k].list = runList
        /\ cmdReqQueue[k].id = issued[runList] - ((n - k) \div 2)
    <3> DEFINE odd == (n - k) % 2 = 1
               id  == issued[runList] - ((n - k) \div 2)
    <3>1. cmdReqQueue[k] = [list |-> runList, id |-> id, isFlush |-> odd]
      BY <2>1 DEF IInv, QueueShape
    <3> HIDE DEF id, odd
    <3>2. cmdReqQueue[k].list = runList /\ cmdReqQueue[k].id = id
      BY ONLY <3>1
    <3> QED BY <3>2 DEF id
  <2>6. InFlight = issued[runList] - run[runList] /\ issued[runList] \in Nat
        /\ run[runList] \in Nat
    <3>1. NumCommands > 0
      BY <2>1 DEF NumCommands
    <3>2. runList \in Lists
      BY <1>1, <3>1, CountsAreNumbers
    <3> QED BY <3>2, CountsAreNumbers DEF IInv, TypeOK
  <2>7. (n + 1) \div 2 - (n - k) \div 2 = (k + 1) \div 2
    BY <1>1, <2>1, HalfOfSum
  <2>8. NumCommands = (n + 1) \div 2
    BY DEF NumCommands
  <2>9. issued[runList] - ((n - k) \div 2) = run[runList] + Uncounted + ((k + 1) \div 2)
    <3> DEFINE a == (n + 1) \div 2
               b == (n - k) \div 2
               c == (k + 1) \div 2
    <3>1. a \in Int /\ b \in Int /\ c \in Int /\ a - b = c
      BY <1>1, <2>1, <2>7
    <3>2. NumCommands = a
      BY <2>8
    <3> HIDE DEF a, b, c, n
    <3>3. issued[runList] - b = run[runList] + Uncounted + c
      BY <1>1, <2>6, <3>1, <3>2
    <3> QED BY <3>3 DEF a, b, c
  <2> QED BY <2>4, <2>5, <2>9
<1>4. QED
  BY <1>1, <1>2, <1>3 DEF InFlightIsExact, IInv, FlightInv

(* Whatever lists are recorded, run, stopped, cleared and deleted, the     *)
(* state of systemmanager.c keeps its types: no list has run more requests *)
(* than were issued, nor issued more than were recorded, nor recorded more *)
(* than it has room for.                                                   *)
THEOREM TypeCorrect == Spec => []TypeOK
<1>1. IInv => TypeOK
  BY DEF IInv
<1>2. QED
  BY <1>1, InvariantHolds, PTL

(* No request that nngxRunCmdlist or the handler issues is lost in either  *)
(* queue, executed twice or left behind by another list: those not yet     *)
(* counted are, in order, on their way to the handler or with the server.  *)
THEOREM RequestsInFlightAreExact == Spec => []InFlightIsExact
  BY IInvImpliesInFlightIsExact, InvariantHolds, PTL

(* is_running says exactly whether a request is in flight, a stop is       *)
(* marked on a request that will be counted, and a list that was started   *)
(* is not left with requests that nothing will issue, but for the one      *)
(* that nngxTransferRenderImage counts without the lock.                   *)
THEOREM RunningFlagIsExact == Spec => []RunningIsExact
<1>1. IInv => RunningIsExact
  BY DEF IInv
<1>2. QED
  BY <1>1, InvariantHolds, PTL

(* Neither queue is ever filled beyond its size, so that a request that    *)
(* nngxRunCmdlist or the handler issues finds a place with the server, and *)
(* its interrupt one in the relay queue, however the blanks come.          *)
NothingIsDropped ==
  /\ Len(cmdReqQueue) <= 2 * NumSpeculative
  /\ Commands # {} => Len(pending) < QUEUE_LENGTH

(* A window within half of the command request queue, and within what the  *)
(* watermark leaves of the relay queue, is enough for the interrupts of    *)
(* all requests to reach the handler: sys_commonIntrHandler cannot count   *)
(* too few because a queue was full.                                       *)
THEOREM RequestsFindRoom == Spec => []NothingIsDropped
<1>1. ASSUME IInv PROVE NothingIsDropped
  <2>1. ASSUME Commands # {} PROVE NumCommands > 0
    <3>1. Len(cmdReqQueue) \in Nat \ {0}
      BY <1>1, <2>1, CommandsAreEverySecond, CountsAreNumbers
    <3> QED BY <3>1 DEF NumCommands
  <2> QED BY <1>1, <2>1, QueuesHaveRoom DEF NothingIsDropped
<1>2. QED
  BY <1>1, InvariantHolds, PTL

(* After nngxStopCmdlist nothing is issued until nngxRunCmdlist.           *)
THEOREM StopsAreObeyed == Spec => StopIsObeyed
<1>1. ASSUME IInv, [Next]_vars, stopSpeculative \/ ~startRun
      PROVE  Len(cmdReqQueue') <= Len(cmdReqQueue)
  <2>1. Len(cmdReqQueue) \in Nat
    BY CountsAreNumbers
  <2>2. SUFFICES \/ UNCHANGED cmdReqQueue
                 \/ cmdReqQueue # <<>> /\ cmdReqQueue' = Tail(cmdReqQueue)
    BY <2>1 DEF IInv, TypeOK
  <2> USE DEF engine, counts, runState, local, receiver
  <2>3. ASSUME NEW n \in Nat, CountRequests(n) PROVE UNCHANGED cmdReqQueue
    <3>1. CASE boundList = runList /\ startRun /\ ~isRunning
      <4>1. ~stopSpeculative
        BY <1>1, <3>1, IdleWhenNotRunning, NothingRuns
      <4> QED BY <1>1, <3>1, <4>1
    <3>2. CASE ~(boundList = runList /\ startRun /\ ~isRunning)
      BY <2>3, <3>2 DEF CountRequests
    <3> QED BY <3>1, <3>2
  <2>3a. CASE CountTransfer \/ \E n \in 1 .. MaxBatch : AddRequests(n)
    BY <2>3, <2>3a DEF CountTransfer, AddRequests, MaxBatch
  <2>4. CASE RunIssues
    BY <1>1, <2>4 DEF RunIssues, IInv, IssueInv
  <2>5. CASE CountAndIssue
    <3>1. startRun
      BY <1>1, <2>5, CountsAreNumbers DEF CountAndIssue, IInv, StartedInv
    <3>2. stopSpeculative
      BY <1>1, <3>1
    <3> QED BY <2>5, <3>2 DEF CountAndIssue, IssueSpeculative
  <2>6. CASE ExecuteRequest
    BY <2>6 DEF ExecuteRequest
  <2>7. CASE \/ TransferRenderImage \/ RunCmdlist \/ StopCmdlist \/ ClearCmdlist
             \/ \E l \in Lists : DeleteCmdlist(l)
    BY <2>7 DEF TransferRenderImage, RunCmdlist, StopCmdlist, ClearCmdlist, DeleteCmdlist
  <2>8. CASE \/ \E l \in Lists \cup {NoList} : BindCmdlist(l)
             \/ WaitCmdlistDone \/ TestRunning \/ WaitVSync \/ TestVSync
             \/ YieldThread \/ WakeUp \/ Finalize \/ FinalizeReceiver
    BY <2>8 DEF BindCmdlist, WaitCmdlistDone, TestRunning, WaitVSync, TestVSync, YieldThread,
                WakeUp, Finalize, FinalizeReceiver
  <2>9. CASE EnterHandler \/ StopRunning \/ LeaveHandler \/ VerticalBlank \/ UNCHANGED vars
    BY <2>9 DEF EnterHandler, StopRunning, LeaveHandler, VerticalBlank, vars
  <2> QED BY <1>1, <2>3a, <2>4, <2>5, <2>6, <2>7, <2>8, <2>9 DEF Next, Call, AppStep, Handle
<1>2. IInv /\ [Next]_vars =>
        [(stopSpeculative \/ ~startRun) => Len(cmdReqQueue') <= Len(cmdReqQueue)]_vars
  BY <1>1
<1>3. QED
  BY <1>2, InvariantHolds, PTL DEF Spec, StopIsObeyed
=============================================================================
