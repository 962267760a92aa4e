------------------------- MODULE DerefTableRefines -------------------------
(***************************************************************************)
(* The dereference table implements the pool of slots.  A slot leaves the  *)
(* pool when allocate() stores the new head of the free list, and comes    *)
(* back when free() stores it as the head.                                 *)
(***************************************************************************)
EXTENDS DerefTable

FreePlaces == {p \in Buckets \X Slots : ~ Owned(p[1], p[2])}

HeldPlaces == {p \in Buckets \X Slots : held[p[1]][p[2]] > 0}

PlaceOf(t) == <<Target(t), objectIndex[t]>>

\* The call of thread t as its client sees it.
CallOf(t) ==
  IF pc[t] \in Reading(0) \cup {"lockFirst", "take", "store"}
    THEN [op |-> "allocate", choice |-> {bucket[t][k] : k \in Bits}]
  ELSE IF pc[t] = "size" THEN [op |-> "refused"]
  ELSE IF pc[t] \in {"unlock", "increment"}
    THEN [op |-> "granted", place |-> PlaceOf(t)]
  ELSE IF pc[t] \in {"lock", "link", "push"}
    THEN [op |-> "return", place |-> PlaceOf(t)]
  ELSE IF pc[t] \in {"count", "release", "decrement"} THEN [op |-> "released"]
  ELSE [op |-> "idle"]

Pool == INSTANCE SlotPool
          WITH free <- FreePlaces, held <- HeldPlaces,
               call <- [t \in Threads |-> CallOf(t)]

\* allocate() and free() behave as if each took effect at one instant, and
\* allocate() fails only if one of its buckets is full at that instant.
ImplementsPool == Pool!Spec
===========================================================================
