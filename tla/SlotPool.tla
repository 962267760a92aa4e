----------------------------- MODULE SlotPool -----------------------------
(***************************************************************************)
(* What the dereference table of src/tiny_ptr/deref_table.h promises its   *)
(* clients, without locks, counts or lists: a pool of slots in buckets.    *)
(* A call of allocate() is granted a free slot of one of its two buckets,  *)
(* or refused when one of them has none; a call of free() puts a slot      *)
(* back.  Both take effect at one instant between call and return.         *)
(***************************************************************************)
EXTENDS FiniteSets

CONSTANTS
  Threads,  (* threads that allocate and free        *)
  Buckets,  (* buckets of the pool                   *)
  Slots     (* the slots of a bucket                 *)

VARIABLES
  free,     (* slots that nobody owns                *)
  held,     (* slots that clients own                *)
  call      (* per thread: the call in progress      *)

poolVars == <<free, held, call>>

Places == Buckets \X Slots

Idle == [op |-> "idle"]
Allocating(choice) == [op |-> "allocate", choice |-> choice]
Granted(p) == [op |-> "granted", place |-> p]
Refused == [op |-> "refused"]
Returning(p) == [op |-> "return", place |-> p]
Released == [op |-> "released"]

Init ==
  /\ free = Places
  /\ held = {}
  /\ call = [t \in Threads |-> Idle]

FreeIn(b) == {p \in free : p[1] = b}

Become(t, c) == call' = [call EXCEPT ![t] = c]

---------------------------------------------------------------------------
Request(t) ==
  /\ call[t] = Idle
  /\ \E b, c \in Buckets : Become(t, Allocating({b, c}))
  /\ UNCHANGED <<free, held>>

Grant(t) ==
  /\ call[t].op = "allocate"
  /\ \E b \in call[t].choice : \E p \in FreeIn(b) :
       /\ free' = free \ {p}
       /\ Become(t, Granted(p))
  /\ held' = held

Refuse(t) ==
  /\ call[t].op = "allocate"
  /\ \E b \in call[t].choice : FreeIn(b) = {}
  /\ Become(t, Refused)
  /\ UNCHANGED <<free, held>>

Deliver(t) ==
  /\ call[t].op = "granted"
  /\ held' = held \cup {call[t].place}
  /\ Become(t, Idle)
  /\ free' = free

GiveBack(t) ==
  /\ call[t] = Idle
  /\ \E p \in held :
       /\ held' = held \ {p}
       /\ Become(t, Returning(p))
  /\ free' = free

Release(t) ==
  /\ call[t].op = "return"
  /\ free' = free \cup {call[t].place}
  /\ Become(t, Released)
  /\ held' = held

Finish(t) ==
  /\ call[t] \in {Refused, Released}
  /\ Become(t, Idle)
  /\ UNCHANGED <<free, held>>

Next ==
  \E t \in Threads :
    \/ Request(t) \/ Grant(t) \/ Refuse(t) \/ Deliver(t)
    \/ GiveBack(t) \/ Release(t) \/ Finish(t)

Spec == Init /\ [][Next]_poolVars
===========================================================================
