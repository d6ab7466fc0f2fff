------------------------------ MODULE VarQueue ------------------------------
(***************************************************************************)
(* The binary heap of variables of solver/queue.go, the most active one    *)
(* first, and its users in solver/solver.go: New, chooseLit,               *)
(* varBumpActivity, cleanupBindings and rebuildOrderHeap.                  *)
(*                                                                         *)
(* Positions count from 1 instead of 0, and 0 instead of -1 marks absence. *)
(* One action is one turn of a loop.  An item on its way up or down trades *)
(* places with those it passes, where the code carries it along and stores *)
(* it in the end.  Activities only matter by their order: they are small   *)
(* numbers, bumps add 1, and the rescaling, which keeps the order, is left *)
(* out.  Which variables are bound, bumped and unbound is the choice of    *)
(* the search.                                                             *)
(***************************************************************************)
EXTENDS Lits, Sequences, SequencesExt

CONSTANTS
    MaxActivity,    \* bound on activities
    MaxContent      \* bound: no conflict once the heap is this long

ASSUME BoundsAssumption == MaxActivity \in Nat /\ MaxContent \in Nat

VARIABLES
    activity,   \* s.activity
    content,    \* q.content
    indices,    \* q.indices
    up, down,   \* i of percolateUp and of percolateDown, 0 when they do not run
    trail,      \* the bound variables, oldest first
    pc,         \* "search", "choose", "conflict", "sat", or the loop that runs:
                \* "missing" and "insert" of cleanupBindings, "build" of build
    todo,       \* what the loop has left: variables, or positions for "build"
    missed      \* toInsert of cleanupBindings

heapVars == <<content, indices, up, down>>
vars == <<activity, heapVars, trail, pc, todo, missed>>

-----------------------------------------------------------------------------
(* The heap.                                                               *)

Lt(x, y) == activity[x] > activity[y]

\* The items at positions i and j trade places.
Exchange(i, j) ==
    /\ content' = [content EXCEPT ![i] = content[j], ![j] = content[i]]
    /\ indices' = [indices EXCEPT ![content[j]] = i, ![content[i]] = j]

\* The item at position i stays there.
Settle(i) == indices' = [indices EXCEPT ![content[i]] = i] /\ UNCHANGED content

PercolateUp ==
    /\ up # 0
    /\ IF up > 1 /\ Lt(content[up], content[up \div 2])
       THEN Exchange(up, up \div 2) /\ up' = up \div 2
       ELSE Settle(up) /\ up' = 0
    /\ UNCHANGED <<activity, down, trail, pc, todo, missed>>

\* The child of i that should be above the other.
Child(i) ==
    IF 2 * i + 1 <= Len(content) /\ Lt(content[2 * i + 1], content[2 * i])
    THEN 2 * i + 1 ELSE 2 * i

PercolateDown ==
    /\ down # 0
    /\ IF 2 * down <= Len(content) /\ Lt(content[Child(down)], content[down])
       THEN Exchange(down, Child(down)) /\ down' = Child(down)
       ELSE Settle(down) /\ down' = 0
    /\ UNCHANGED <<activity, up, trail, pc, todo, missed>>

\* The heap is free for the next operation.
Still == up = 0 /\ down = 0

InHeap(n) == indices[n] # 0

Insert(n) ==
    /\ content' = Append(content, n)
    /\ up' = Len(content) + 1
    /\ indices' = [indices EXCEPT ![n] = up']
    /\ UNCHANGED down

Decrease(n) == up' = indices[n] /\ UNCHANGED <<content, indices, down>>

\* Without the first item, which the last one replaces.
Rest == [i \in 1 .. Len(content) - 1 |-> content[IF i = 1 THEN Len(content) ELSE i]]

\* Variant for TLC: the item removed is not marked absent.
RemoveMinUnmarked ==
    /\ content' = Rest
    /\ indices' = [indices EXCEPT ![Last(content)] = 1]
    /\ down' = IF Len(Rest) > 1 THEN 1 ELSE 0
    /\ UNCHANGED up

RemoveMin ==
    /\ content' = Rest
    /\ indices' = [indices EXCEPT ![Last(content)] = 1, ![Head(content)] = 0]
    /\ down' = IF Len(Rest) > 1 THEN 1 ELSE 0
    /\ UNCHANGED up

\* The heap of ns, before its loop from the last position with a child.
Build(ns) ==
    /\ content' = ns
    /\ indices' = [n \in Vars |->
                     IF n \in ToSet(ns) THEN Max({i \in DOMAIN ns : ns[i] = n})
                     ELSE IF n \in ToSet(content) THEN 0 ELSE indices[n]]
    /\ todo' = [i \in 1 .. Len(ns) \div 2 |-> Len(ns) \div 2 + 1 - i]
    /\ pc' = "build"
    /\ UNCHANGED <<up, down>>

BuildNext ==
    /\ pc = "build" /\ Still /\ todo # <<>>
    /\ down' = Head(todo) /\ todo' = Tail(todo)
    /\ UNCHANGED <<activity, content, indices, up, trail, pc, missed>>

-----------------------------------------------------------------------------
(* Its users.                                                              *)

Bound == ToSet(trail)

\* The variables in V, in increasing order.
InOrder(V) ==
    CHOOSE s \in [1 .. Cardinality(V) -> V] :
        /\ ToSet(s) = V
        /\ \A i, j \in DOMAIN s : i < j => s[i] < s[j]

\* New: initOptimActivity, then the loop of newQueue.
Init ==
    /\ activity \in [Vars -> 0 .. MaxActivity]
    /\ content = <<>> /\ indices = [v \in Vars |-> 0]
    /\ up = 0 /\ down = 0
    /\ trail = <<>>
    /\ pc = "insert" /\ todo = InOrder(Vars) /\ missed = <<>>

\* Propagation, or the binding of a learned literal.
Bind(v) ==
    /\ pc = "search" /\ Still /\ v \notin Bound
    /\ trail' = Append(trail, v)
    /\ UNCHANGED <<activity, heapVars, pc, todo, missed>>

Decide ==
    /\ pc = "search" /\ Still
    /\ pc' = "choose"
    /\ UNCHANGED <<activity, heapVars, trail, todo, missed>>

\* One turn of the loop of chooseLit: bound variables are skipped.
ChooseLit ==
    /\ pc = "choose" /\ Still /\ content # <<>>
    /\ RemoveMin
    /\ IF Head(content) \in Bound
       THEN UNCHANGED <<trail, pc>>
       ELSE trail' = Append(trail, Head(content)) /\ pc' = "search"
    /\ UNCHANGED <<activity, todo, missed>>

\* The heap is empty: chooseLit finds none, and search answers Sat.
NoneLeft ==
    /\ pc = "choose" /\ Still /\ content = <<>>
    /\ pc' = "sat"
    /\ UNCHANGED <<activity, heapVars, trail, todo, missed>>

Conflict ==
    /\ pc = "search" /\ Still /\ trail # <<>>
    /\ Len(content) <= MaxContent
    /\ pc' = "conflict"
    /\ UNCHANGED <<activity, heapVars, trail, todo, missed>>

\* varBumpActivity, during the analysis of the conflict: learnClause bumps the
\* variables it meets, which are bound, and cuttingPlanes those of the whole
\* constraint.
Bump(v) ==
    /\ pc = "conflict" /\ Still
    /\ activity[v] < MaxActivity
    /\ activity' = [activity EXCEPT ![v] = @ + 1]
    /\ IF InHeap(v) THEN Decrease(v) ELSE UNCHANGED heapVars
    /\ UNCHANGED <<trail, pc, todo, missed>>

\* cleanupBindings after a conflict, on a restart (a conflict without bumps
\* here), or for a call of the client once a model was found.
CleanupBindings(k) ==
    /\ pc \in {"conflict", "sat"} /\ Still
    /\ trail' = SubSeq(trail, 1, k)
    /\ todo' = SubSeq(trail, k + 1, Len(trail)) /\ missed' = <<>>
    /\ pc' = "missing"
    /\ UNCHANGED <<activity, heapVars>>

\* The first loop, over the variables it unbinds: those not in the heap are
\* inserted.
InsertMissing ==
    /\ pc = "missing" /\ Still /\ todo # <<>>
    /\ IF InHeap(Head(todo)) THEN UNCHANGED <<heapVars, missed>>
       ELSE Insert(Head(todo)) /\ missed' = Append(missed, Head(todo))
    /\ todo' = Tail(todo)
    /\ UNCHANGED <<activity, trail, pc>>

\* The second loop is over these, in the opposite order.
MissingInserted ==
    /\ pc = "missing" /\ Still /\ todo = <<>>
    /\ pc' = "insert" /\ todo' = Reverse(missed) /\ missed' = <<>>
    /\ UNCHANGED <<activity, heapVars, trail>>

InsertNext ==
    /\ pc = "insert" /\ Still /\ todo # <<>>
    /\ Insert(Head(todo))
    /\ todo' = Tail(todo)
    /\ UNCHANGED <<activity, trail, pc, missed>>

LoopEnds ==
    /\ pc \in {"insert", "build"} /\ Still /\ todo = <<>>
    /\ pc' = "search"
    /\ UNCHANGED <<activity, heapVars, trail, todo, missed>>

\* rebuildOrderHeap: the slice is made with nbVars zeroes, and the unbound
\* variables are appended to it.
RebuildOrderHeap ==
    /\ pc = "search" /\ Still
    /\ Build([i \in 1 .. NbVars |-> 0] \o InOrder(Vars \ Bound))
    /\ UNCHANGED <<activity, trail, missed>>

Next ==
    \/ PercolateUp \/ PercolateDown
    \/ Decide \/ ChooseLit \/ NoneLeft \/ Conflict
    \/ InsertMissing \/ MissingInserted \/ InsertNext
    \/ RebuildOrderHeap \/ BuildNext \/ LoopEnds
    \/ \E v \in Vars : Bind(v) \/ Bump(v)
    \/ \E k \in 0 .. Len(trail) - 1 : CleanupBindings(k)

Spec == Init /\ [][Next]_vars

-----------------------------------------------------------------------------
(* The inductive invariant.                                                *)

TypeOK ==
    /\ activity \in [Vars -> Nat]
    /\ content \in Seq(Vars) /\ indices \in [Vars -> Nat]
    /\ up \in 0 .. Len(content) /\ down \in 0 .. Len(content)
    /\ trail \in Seq(Vars) /\ missed \in Seq(Vars)
    /\ pc \in {"search", "choose", "conflict", "sat", "missing", "insert", "build"}
    /\ todo \in IF pc = "build" THEN Seq(DOMAIN content)
                ELSE IF pc \in {"missing", "insert"} THEN Seq(Vars) ELSE {<<>>}

\* The reverse index tells the position of one of the copies of a variable, and
\* of none that is not in the heap.
IndicesAgree ==
    \A v \in Vars : InHeap(v) => indices[v] \in DOMAIN content /\ content[indices[v]] = v

\* The variables that the running loop is about to insert.
Coming == IF pc \in {"missing", "insert"} THEN ToSet(todo) ELSE {}

NoneMissing == Vars \subseteq Bound \union ToSet(content) \union Coming

Inv == TypeOK /\ IndicesAgree /\ NoneMissing /\ (pc = "sat" => content = <<>>)

-----------------------------------------------------------------------------
(* What the search relies on.                                              *)

\* Although variables may be in the heap several times and one copy be removed
\* while others stay, no unbound variable is ever missing: chooseLit only gives
\* up when all are bound.
UnboundInHeap ==
    /\ pc \notin {"missing", "insert"} => Vars \subseteq Bound \union ToSet(content)
    /\ pc = "sat" => Vars \subseteq Bound
=============================================================================
