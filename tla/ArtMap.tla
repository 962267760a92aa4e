------------------------------- MODULE ArtMap -------------------------------
(***************************************************************************)
(* What a client of the adaptive radix tree is promised.  An insertion     *)
(* takes effect at one instant between its call and its return, or is      *)
(* refused without effect.  Nothing is ever removed, so a lookup that      *)
(* misses is explained by an instant of its call exactly if its key was    *)
(* absent when the call began, and a lookup that hits if it is present now.*)
(***************************************************************************)
CONSTANTS
    Threads,
    Keys

VARIABLES
    map,        \* the keys stored
    call        \* call[t]: the operation t is executing

vars == <<map, call>>

Idle == [op |-> "idle"]
NoTid == <<>>

Init == map = {} /\ call = [t \in Threads |-> Idle]

Become(t, c) == call' = [call EXCEPT ![t] = c]

\* A call begins; a lookup remembers whether its key is missing.
Invoke(t) ==
    /\ call[t] = Idle
    /\ \E k \in Keys :
          \/ Become(t, [op |-> "lookup", key |-> k, missing |-> k \notin map])
          \/ Become(t, [op |-> "insert", key |-> k])
    /\ UNCHANGED map

TakeEffect(t) ==
    /\ call[t].op = "insert"
    /\ map' = map \cup {call[t].key}
    /\ Become(t, [op |-> "inserted", key |-> call[t].key])

ReturnFromInsert(t) ==
    /\ call[t].op = "inserted"
    /\ Become(t, Idle)
    /\ UNCHANGED map

\* A dereference table had no room: the exception leaves the keys as they are.
Refuse(t) ==
    /\ call[t].op = "insert"
    /\ Become(t, Idle)
    /\ UNCHANGED map

\* The TID of a key stands for the key, as in the tree.
Answer(t, found) ==
    /\ call[t].op = "lookup"
    /\ IF found THEN call[t].key \in map ELSE call[t].missing
    /\ Become(t, [op |-> "answered", tid |-> IF found THEN call[t].key ELSE NoTid])
    /\ UNCHANGED map

ReturnFromLookup(t) ==
    /\ call[t].op = "answered"
    /\ Become(t, Idle)
    /\ UNCHANGED map

Next ==
    \E t \in Threads :
        \/ Invoke(t) \/ TakeEffect(t) \/ ReturnFromInsert(t) \/ Refuse(t)
        \/ \E found \in BOOLEAN : Answer(t, found)
        \/ ReturnFromLookup(t)

Spec == Init /\ [][Next]_vars
=============================================================================
