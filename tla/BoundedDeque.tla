---------------------------- MODULE BoundedDeque ----------------------------
(***************************************************************************)
(* What a blocking queue promises: a sequence of at most Size items, to    *)
(* which every call applies once, in one step, between its call and its    *)
(* return.  Enqueue adds at the back, Jam at the front, Dequeue takes from *)
(* the front; the Try variants may refuse, only when they have to.         *)
(***************************************************************************)
EXTENDS Naturals, Sequences

CONSTANTS Threads, Values, None, Size

PutBack   == {"Enqueue", "TryEnqueue", "ForceEnqueue"}
PutFront  == {"Jam", "TryJam"}
Take      == {"Dequeue", "TryDequeue"}
Front     == {"GetFront", "TryGetFront"}
Puts      == PutBack \cup PutFront
Gets      == Take \cup Front
Blocking  == {"Enqueue", "Jam", "Dequeue", "GetFront"}
MayRefuse == {"TryEnqueue", "TryJam", "TryDequeue", "TryGetFront"}

VARIABLES
  items,        \* the queue, front first
  op,           \* op[t]: the call t is in, or None
  data,         \* data[t]: the item t has yet to put, or None
  out           \* out[t]: the item t's call hands back, or None

vars == <<items, op, data, out>>

Init ==
  /\ items = <<>>
  /\ op = [t \in Threads |-> None]
  /\ data = [t \in Threads |-> None]
  /\ out = [t \in Threads |-> None]

Call(t) ==
  /\ op[t] = None
  /\ \/ \E o \in Puts, v \in Values : op' = [op EXCEPT ![t] = o] /\ data' = [data EXCEPT ![t] = v]
     \/ \E o \in Gets : op' = [op EXCEPT ![t] = o] /\ UNCHANGED data
  /\ UNCHANGED <<items, out>>

Put(t) ==
  /\ op[t] \in Puts /\ data[t] # None
  /\ Len(items) < Size
  /\ items' = IF op[t] \in PutBack THEN Append(items, data[t]) ELSE <<data[t]>> \o items
  /\ data' = [data EXCEPT ![t] = None]
  /\ UNCHANGED <<op, out>>

(* ForceEnqueue on a full queue hands back the front item to make room.    *)
Displace(t) ==
  /\ op[t] = "ForceEnqueue" /\ data[t] # None
  /\ Len(items) = Size
  /\ items' = Append(Tail(items), data[t])
  /\ data' = [data EXCEPT ![t] = None]
  /\ out' = [out EXCEPT ![t] = Head(items)]
  /\ UNCHANGED op

Get(t) ==
  /\ op[t] \in Gets /\ out[t] = None
  /\ items # <<>>
  /\ items' = IF op[t] \in Take THEN Tail(items) ELSE items
  /\ out' = [out EXCEPT ![t] = Head(items)]
  /\ UNCHANGED <<op, data>>

Finish(t) ==
  /\ op' = [op EXCEPT ![t] = None]
  /\ data' = [data EXCEPT ![t] = None]
  /\ out' = [out EXCEPT ![t] = None]
  /\ UNCHANGED items

Refuse(t) ==
  /\ op[t] \in MayRefuse
  /\ \/ op[t] \in Puts /\ data[t] # None /\ Len(items) = Size
     \/ op[t] \in Gets /\ out[t] = None /\ items = <<>>
  /\ Finish(t)

Return(t) ==
  /\ \/ op[t] \in Puts /\ data[t] = None
     \/ op[t] \in Gets /\ out[t] # None
  /\ Finish(t)

Next ==
  \E t \in Threads :
    Call(t) \/ Put(t) \/ Displace(t) \/ Get(t) \/ Refuse(t) \/ Return(t)

Spec == Init /\ [][Next]_vars

=============================================================================
