----------------------------- MODULE PBWatcher ------------------------------
(***************************************************************************)
(* Cardinality and pseudo-boolean constraints in solver/watcher.go: how    *)
(* they are watched and propagated.                                        *)
(*                                                                         *)
(* A constraint has its index in `clauses' like a clause, with the set of  *)
(* its literals there, and the rest here.  Unlike those of clauses, its    *)
(* literals keep their order, and so do its lists: propagate ranges over a *)
(* list while it is being changed.  The range of Go keeps the array and    *)
(* the length it had at first, so `visiting' is that array.                *)
(*                                                                         *)
(* wlistCardAMO stays empty: watchClause asks for a cardinality above the  *)
(* number of literals, which NewCardClause refuses.                        *)
(***************************************************************************)
EXTENDS Watcher, SequencesExt

VARIABLES
    pbs,        \* the constraints, by index: see Constraint
    wlistPb,    \* for each literal, the constraints watched at its negation
    visiting,   \* the array propagate ranges over
    pos         \* where it is

pbVars == <<pbs, wlistPb, visiting, pos>>

\* A pseudo-boolean constraint if pb, otherwise a cardinality constraint: its
\* weights are 1 and there are no flags.
Constraint(lits, weights, card, isPB, flags) ==
    [lits |-> lits, weights |-> weights, card |-> card, pb |-> isPB, watched |-> flags]

Constraints ==
    [lits : Seq(Lits), weights : Seq(Nat \ {0}), card : Nat \ {0}, pb : BOOLEAN,
     watched : Seq(BOOLEAN)]

\* The kth smallest of a set of numbers, and all of them in increasing order.
Nth(I, k) == CHOOSE i \in I : Cardinality({j \in I : j <= i}) = k

InOrder(I) == [k \in 1 .. Cardinality(I) |-> Nth(I, k)]

Idx(c) == DOMAIN pbs[c].lits

LitAt(c, i) == pbs[c].lits[i]

LitsAt(c, I) == {LitAt(c, i) : i \in I}

Weight(c, I) == SumOf(pbs[c].weights, I)

TrueIdx(c) == {i \in Idx(c) : LitStatus(LitAt(c, i)) = "Sat"}

UnboundIdx(c) == {i \in Idx(c) : LitStatus(LitAt(c, i)) = "Indet"}

NonFalse(c) == TrueIdx(c) \union UnboundIdx(c)

-----------------------------------------------------------------------------
(* watchPB, and watchClause on a cardinality constraint.                   *)

\* Enough literals to reach the first weight plus the cardinality.
WatchedByPB(weights, card) ==
    {i \in DOMAIN weights : SumOf(weights, 1 .. i - 1) < weights[1] + card}

NewConstraint(lits, weights, card, isPB) ==
    Constraint(lits, weights, card, isPB,
               IF isPB THEN [i \in DOMAIN lits |-> i \in WatchedByPB(weights, card)] ELSE <<>>)

\* The positions a constraint is watched at.
Watched(b) == IF b.pb THEN {i \in DOMAIN b.lits : b.watched[i]} ELSE 1 .. b.card + 1

\* The constraints once b has the index c.
WithConstraint(c, b) == [d \in DOMAIN pbs \union {c} |-> IF d = c THEN b ELSE pbs[d]]

\* The lists once c is watched too.
WatchConstraint(lists, c, b) ==
    [l \in Lits |->
        IF \E i \in Watched(b) : b.lits[i] = Negation(l) THEN Append(lists[l], c) ELSE lists[l]]

-----------------------------------------------------------------------------
(* Changes to the lists.                                                   *)

FirstAt(lst, c) == SelectInSeq(lst, LAMBDA d : d = c)

\* Variant for TLC: what comes after moves down, in the array.
OverwrittenShift(array, lst, c) ==
    [k \in DOMAIN array |-> IF k \in FirstAt(lst, c) .. Len(lst) - 1 THEN array[k + 1] ELSE array[k]]

\* removeFrom puts the last constraint of lst where the first occurrence of c is.
Overwritten(array, lst, c) == [array EXCEPT ![FirstAt(lst, c)] = lst[Len(lst)]]

RemoveFrom(lst, c) == Front(Overwritten(lst, lst, c))

\* c is not watched any more at the literals off, and is at the literals on.
\* The list being visited may be one of those it leaves.
Rewatch(c, off, on) ==
    /\ wlistPb' = [l \in Lits |->
            IF Negation(l) \in off THEN RemoveFrom(wlistPb[l], c)
            ELSE IF Negation(l) \in on THEN Append(wlistPb[l], c)
            ELSE wlistPb[l]]
    /\ visiting' = IF Negation(trail[ptr]) \in off
                   THEN Overwritten(visiting, wlistPb[trail[ptr]], c) ELSE visiting

\* The list lst without the constraints S.
Without(lst, S) ==
    LET left[c \in 0 .. Len(clauses)] ==
            IF c = 0 THEN lst
            ELSE IF c \in S THEN RemoveFrom(left[c - 1], c) ELSE left[c - 1]
    IN left[Len(clauses)]

\* Variant for TLC: the first two literals, like those of clauses.
UnwatchedTwo(S) ==
    [l \in Lits |-> Without(wlistPb[l],
        {c \in S : \E i \in Watched(pbs[c]) \intersect 1 .. 2 : LitAt(c, i) = Negation(l)})]

\* Lists without the constraints S: unwatchPB.
Unwatched(S) ==
    [l \in Lits |-> Without(wlistPb[l],
        {c \in S : \E i \in Watched(pbs[c]) : LitAt(c, i) = Negation(l)})]

-----------------------------------------------------------------------------
(* simplifyPseudoBool.                                                     *)

\* Variant for TLC: the cardinality as a clause stores it, one less.
SlackStored(c) == Weight(c, NonFalse(c)) - (pbs[c].card - 1)

\* slackSum: what is over the cardinality if all that is unbound is true.
Slack(c) == Weight(c, NonFalse(c)) - pbs[c].card

IsSatisfied(c) == Weight(c, TrueIdx(c)) >= pbs[c].card

\* propagateUnit on the literals at I, in order.  It sets the lock bit of c,
\* which counts for learned clauses only: NewPBClause never sets the other bit.
BindAll(c, I) ==
    /\ trail' = trail \o [k \in 1 .. Cardinality(I) |-> LitAt(c, Nth(I, k))]
    /\ reason' = [v \in Vars |-> IF v \in VarsOf(LitsAt(c, I)) THEN c ELSE reason[v]]
    /\ model' = [v \in Vars |->
            IF SignedLit(v, FALSE) \in LitsAt(c, I) THEN lvl
            ELSE IF SignedLit(v, TRUE) \in LitsAt(c, I) THEN -lvl
            ELSE model[v]]
    /\ UNCHANGED <<locked, polarity, queue>>

\* Variant for TLC: equality counts.
TooHeavyToo(c) == {i \in UnboundIdx(c) : pbs[c].weights[i] >= Slack(c)}

\* Without them the others are not enough.
TooHeavy(c) == {i \in UnboundIdx(c) : pbs[c].weights[i] > Slack(c)}

\* The positions updateWatchPB goes through before the literals that are not
\* false weigh more than the cardinality.
NeededUpTo(c) ==
    {i \in Idx(c) : Weight(c, NonFalse(c) \intersect 1 .. i - 1) <= pbs[c].card}

UpdateWatchPB(c) ==
    LET old == Watched(pbs[c])
        new == NeededUpTo(c) \intersect NonFalse(c)
    IN
    /\ pbs' = [pbs EXCEPT ![c].watched = [i \in Idx(c) |-> i \in new]]
    /\ Rewatch(c, LitsAt(c, old \ new), LitsAt(c, new \ old))

Visited == visiting[pos]

Visiting(isPB) == pc = "pb" /\ pos <= Len(visiting) /\ pbs[Visited].pb = isPB

\* What no visit of a constraint changes.
VisitKeeps == UNCHANGED <<dbVars, wlist, wlistBin, ptr, lvl, todoBin, todo>>

NextConstraint == pos' = pos + 1 /\ UNCHANGED <<confl, pc>>

FalsifiedConstraint(c) ==
    /\ confl' = c /\ pc' = "conflict"
    /\ visiting' = <<>> /\ pos' = 1
    /\ UNCHANGED <<bindingVars, pbs, wlistPb>>

\* One turn of the loop of simplifyPseudoBool.
VisitPB(c) ==
    /\ Visiting(TRUE) /\ VisitKeeps
    /\ \/ /\ IsSatisfied(c)
          /\ NextConstraint
          /\ UNCHANGED <<bindingVars, pbs, wlistPb, visiting>>
       \/ /\ ~ IsSatisfied(c) /\ Slack(c) < 0
          /\ FalsifiedConstraint(c)
       \/ /\ ~ IsSatisfied(c) /\ Slack(c) = 0
          /\ BindAll(c, UnboundIdx(c))
          /\ NextConstraint
          /\ UNCHANGED <<pbs, wlistPb, visiting>>
       \/ /\ ~ IsSatisfied(c) /\ Slack(c) > 0 /\ TooHeavy(c) # {}
          /\ BindAll(c, TooHeavy(c))
          /\ UNCHANGED <<pbVars, confl, pc>>
       \/ /\ ~ IsSatisfied(c) /\ Slack(c) > 0 /\ TooHeavy(c) = {}
          /\ UpdateWatchPB(c)
          /\ NextConstraint
          /\ UNCHANGED bindingVars

-----------------------------------------------------------------------------
(* simplifyCardConstr.                                                     *)

\* The loop stops at one free literal more than the cardinality, or at the last
\* true literal it takes.
SatisfiedFirst(c) ==
    Cardinality({i \in TrueIdx(c) :
        Cardinality({j \in NonFalse(c) : j <= i}) <= pbs[c].card + 1}) >= pbs[c].card

\* Where swapFalse finds literals to watch.
Others(c) == {i \in NonFalse(c) : i > pbs[c].card + 1}

\* swapFalse: the kth false literal among the watched ones changes places with
\* the kth of the others that is not false.
SwapFalse(c) ==
    LET false == (1 .. pbs[c].card + 1) \ NonFalse(c)
        free == {Nth(Others(c), k) : k \in 1 .. Cardinality(false)}
        swapped(i) ==
            IF i \in false THEN Nth(Others(c), Cardinality({j \in false : j <= i}))
            ELSE IF i \in free THEN Nth(false, Cardinality({j \in free : j <= i}))
            ELSE i
    IN
    IF Cardinality(Others(c)) < Cardinality(false)
    THEN pc' = "panic" /\ UNCHANGED <<pbVars, confl>>      \* past the end
    ELSE /\ pbs' = [pbs EXCEPT ![c].lits = [i \in Idx(c) |-> LitAt(c, swapped(i))]]
         /\ Rewatch(c, LitsAt(c, false), LitsAt(c, free))
         /\ NextConstraint

VisitCard(c) ==
    LET card == pbs[c].card IN
    /\ Visiting(FALSE) /\ VisitKeeps
    /\ \/ /\ Cardinality(NonFalse(c)) < card
          /\ FalsifiedConstraint(c)
       \/ /\ Cardinality(NonFalse(c)) = card
          /\ BindAll(c, UnboundIdx(c))
          /\ NextConstraint
          /\ UNCHANGED <<pbs, wlistPb, visiting>>
       \/ /\ Cardinality(NonFalse(c)) > card /\ SatisfiedFirst(c)
          /\ NextConstraint
          /\ UNCHANGED <<bindingVars, pbs, wlistPb, visiting>>
       \/ /\ Cardinality(NonFalse(c)) > card /\ ~ SatisfiedFirst(c)
          /\ SwapFalse(c)
          /\ UNCHANGED bindingVars

-----------------------------------------------------------------------------
(* propagate: the clauses of the literal, then its constraints.            *)

StartConstraints ==
    /\ pc = "visit" /\ todoBin = {} /\ todo = {}
    /\ visiting' = wlistPb[trail[ptr]] /\ pos' = 1 /\ pc' = "pb"
    /\ UNCHANGED <<bindingVars, dbVars, wlist, wlistBin, ptr, lvl, todoBin, todo, confl,
                   pbs, wlistPb>>

EndConstraints ==
    /\ pc = "pb" /\ pos > Len(visiting)
    /\ visiting' = <<>> /\ pos' = 1
    /\ ptr' = ptr + 1 /\ pc' = "propagate"
    /\ UNCHANGED <<bindingVars, dbVars, wlist, wlistBin, lvl, todoBin, todo, confl,
                   pbs, wlistPb>>

PBPropagateStep ==
    \/ StartLit /\ UNCHANGED pbVars
    \/ \E w \in todoBin : VisitBinary(w) /\ UNCHANGED pbVars
    \/ \E w \in todo : VisitLong(w) /\ UNCHANGED pbVars
    \/ StartConstraints
    \/ VisitPB(Visited) \/ VisitCard(Visited)
    \/ EndConstraints
=============================================================================
