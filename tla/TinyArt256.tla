----------------------------- MODULE TinyArt256 -----------------------------
(***************************************************************************)
(* The copy of the tree in art/tiny_art_256, whose nodes all are tables of *)
(* 256 children: the steps are those of ArtTree but for the growth of a    *)
(* node, which this copy does not have.                                    *)
(***************************************************************************)
EXTENDS Naturals, Sequences

CONSTANTS Threads, MaxStored, MayOverflow, Scenarios

VARIABLES mem, loc, todo, load, retired

Art == INSTANCE ArtTree WITH Ladder <- <<>>


(* lookup *)

LookupRoot(t) == Art!LookupRoot(t)
Search(t) == Art!Search(t)
LookupMiss(t) == Art!LookupMiss(t)
LookupHit(t) == Art!LookupHit(t)
LookupLeaf(t) == Art!LookupLeaf(t)
LeafReadLock(t) == Art!LeafReadLock(t)
LeafRead(t) == Art!LeafRead(t)
Descend(t) == Art!Descend(t)
Couple(t) == Art!Couple(t)

lookup(t) ==
    \/ LookupRoot(t) \/ Search(t) \/ LookupMiss(t) \/ LookupHit(t) \/ LookupLeaf(t)
    \/ LeafReadLock(t) \/ LeafRead(t) \/ Descend(t) \/ Couple(t)
-----------------------------------------------------------------------------
(* insert, on the way down *)

Visit(t) == Art!Visit(t)
PrefixStep(t) == Art!PrefixStep(t)
AnyLock(t) == Art!AnyLock(t)
AnyChild(t) == Art!AnyChild(t)
AnyCheck(t) == Art!AnyCheck(t)
ReadChild(t) == Art!ReadChild(t)
ChildCheck(t) == Art!ChildCheck(t)
Further(t) == Art!Further(t)

descend(t) ==
    \/ Visit(t) \/ PrefixStep(t) \/ AnyLock(t) \/ AnyChild(t) \/ AnyCheck(t)
    \/ ReadChild(t) \/ ChildCheck(t) \/ Further(t)
-----------------------------------------------------------------------------
(* insert, a new leaf under a node, which is never full *)

Room(t) == Art!Room(t)
PutParent(t) == Art!PutParent(t)
PutLock(t) == Art!PutLock(t)
PutLeaf(t) == Art!PutLeaf(t)
PutInsert(t) == Art!PutInsert(t)
Unlock(t) == Art!Unlock(t)

insertAndUnlock(t) ==
    \/ Room(t) \/ PutParent(t) \/ PutLock(t) \/ PutLeaf(t) \/ PutInsert(t) \/ Unlock(t)
-----------------------------------------------------------------------------
(* insert, a prefix that does not match *)

SplitLockParent(t) == Art!LockParent(t, "splitParent", "splitNode")
SplitLockNode(t) == Art!LockNode(t, "splitNode", "splitBuild")
Undo(t) == Art!Undo(t)
SplitBuild(t) == Art!SplitBuild(t)
SplitLink(t) == Art!SplitLink(t)
SplitUnlock(t) == Art!SplitUnlock(t)
SplitObsolete(t) == Art!SplitObsolete(t)
SplitMark(t) == Art!SplitMark(t)

splitPrefix(t) ==
    \/ SplitLockParent(t) \/ SplitLockNode(t) \/ Undo(t)
    \/ SplitBuild(t) \/ SplitLink(t) \/ SplitUnlock(t) \/ SplitObsolete(t) \/ SplitMark(t)
-----------------------------------------------------------------------------
(* insert, a leaf in the way *)

LeafLockNode(t) == Art!LeafLockNode(t)
LeafWriteLock(t) == Art!LeafWriteLock(t)
LeafBuild(t) == Art!LeafBuild(t)
LeafObsolete(t) == Art!LeafObsolete(t)
LeafMark(t) == Art!LeafMark(t)
LeafLink(t) == Art!LeafLink(t)

splitLeaf(t) ==
    \/ LeafLockNode(t) \/ LeafWriteLock(t) \/ LeafBuild(t) \/ LeafObsolete(t)
    \/ LeafMark(t) \/ LeafLink(t)
-----------------------------------------------------------------------------
insert(t) == descend(t) \/ insertAndUnlock(t) \/ splitPrefix(t) \/ splitLeaf(t)

Tree == Art!Init

Step(t) ==
    \/ Art!MayBegin(t) /\ Art!BeginCall(t)
    \/ (lookup(t) \/ insert(t)) /\ UNCHANGED <<todo, load>>
    \/ Art!EndCall(t)
=============================================================================
