------------------------------ MODULE Watcher -------------------------------
(***************************************************************************)
(* The clause database, the watch lists and unit propagation of            *)
(* solver/watcher.go, for propositional clauses.                           *)
(*                                                                         *)
(* A clause is known by its index in `clauses', which stands for the       *)
(* pointer *Clause: entries are never reused.  The array of literals of a  *)
(* clause is its set of literals plus the two literals at index 0 and 1,   *)
(* the watched ones; the order of the others only decides which non-false  *)
(* literal is watched next, so that one is a choice.  A watch list is the  *)
(* set of its watchers <<clause, other>>, visited in any order.            *)
(***************************************************************************)
EXTENDS Bindings

CONSTANTS
    InitNbMax,      \* initNbMaxClauses, 2000 in the code
    IncrNbMax,      \* incrNbMaxClauses, 300
    IncrPostpone    \* incrPostponeNbMax, 1000

ASSUME NbMaxAssumption ==
    /\ InitNbMax \in Nat \ {0}
    /\ IncrNbMax \in Nat
    /\ IncrPostpone \in Nat

VARIABLES
    clauses,    \* every clause created so far, as its set of literals
    watched,    \* for each clause, its literals at index 0 and 1
    lbd,        \* for each clause, its LBD (0 for problem clauses)
    learned,    \* wl.learned: the learned clauses that are still alive
    wlistBin,   \* for each literal, the binary clauses with its negation
    wlist,      \* for each literal, the longer clauses watched there
    nbMax,      \* wl.nbMax
    idxReduce,  \* wl.idxReduce
    ptr,        \* propagate: index in the trail of the literal at hand
    todoBin,    \* propagate: watchers of wlistBin[lit] not visited yet
    todo,       \* propagate: watchers of wlist[lit] not visited yet
    confl,      \* the clause propagate returned, or Nil
    lvl,        \* the current decision level
    pc          \* what the solver is doing

dbVars == <<clauses, watched, lbd, learned, nbMax, idxReduce>>

watchVars == <<watched, wlist, wlistBin>>

ClauseIds == 1 .. Len(clauses)

\* Problem clauses are never removed; learned ones are while in wl.learned.
Alive == {c \in ClauseIds : lbd[c] = 0} \union learned

Watchers == ClauseIds \X Lits

-----------------------------------------------------------------------------
(* watchClause and unwatchClause.                                          *)

\* The lists after watching clause c, whose first two literals are f and s.
Watch(lists, c, f, s) ==
    [lists EXCEPT ![Negation(f)] = @ \union {<<c, s>>},
                  ![Negation(s)] = @ \union {<<c, f>>}]

\* Adds a clause to the database and to the lists its length calls for.
AddClause(C, f, s, d) ==
    LET c == Len(clauses) + 1 IN
    /\ clauses' = Append(clauses, C)
    /\ watched' = Append(watched, <<f, s>>)
    /\ lbd' = Append(lbd, d)
    /\ IF Cardinality(C) = 2
       THEN wlistBin' = Watch(wlistBin, c, f, s) /\ wlist' = wlist
       ELSE wlist' = Watch(wlist, c, f, s) /\ wlistBin' = wlistBin

\* unwatchClause looks for c in the lists of its first two literals, and
\* runs off the end of the list if it is not there.
IsWatched(c) ==
    \A i \in {1, 2} : \E w \in wlist[Negation(watched[c][i])] : w[1] = c

\* Variant for TLC: the second list is forgotten.
UnwatchFirst(S) ==
    [l \in Lits |-> {w \in wlist[l] :
        ~ (w[1] \in S /\ Negation(l) = watched[w[1]][1])}]

Unwatch(S) ==
    [l \in Lits |-> {w \in wlist[l] :
        ~ (w[1] \in S /\ Negation(l) \in {watched[w[1]][1], watched[w[1]][2]})}]

-----------------------------------------------------------------------------
(* reduceLearned.  sort.Sort puts the highest LBDs first; the activity     *)
(* that breaks ties is abstracted, so any half of the clauses that no      *)
(* other clause should precede may come first.                             *)

FirstHalves ==
    {H \in kSubset(Cardinality(learned) \div 2, learned) :
        \A c \in H, d \in learned \ H : lbd[c] >= lbd[d]}

\* Variant for TLC: locks are not looked at.
RemovedLocked(H) == {c \in H : lbd[c] > 2}

Removed(H) == {c \in H : lbd[c] > 2 /\ c \notin locked}

\* learned[length].lbd() <= 3: lots of good clauses, postpone reduction.
ManyGood(H) == \A c \in learned \ H : lbd[c] <= 3

\* learned[length] of an empty list, or a clause missing from its lists.
ReducePanics(H) == learned = {} \/ \E c \in Removed(H) : ~ IsWatched(c)

\* wl.idxReduce, reduceLearned and bumpNbMax, given the half H.
ReduceLearned(H, nbConflicts) ==
    /\ idxReduce' = (nbConflicts \div nbMax) + 1
    /\ learned' = learned \ Removed(H)
    /\ wlist' = Unwatch(Removed(H))
    /\ nbMax' = nbMax + IncrNbMax + (IF ManyGood(H) THEN IncrPostpone ELSE 0)

-----------------------------------------------------------------------------
(* propagate: one step per watcher.  lit is the literal trail[ptr].        *)

\* Binds unit because of clause c; c.lock() in propagateUnit only.
Imply(c, unit) ==
    /\ reason' = [reason EXCEPT ![VarOf(unit)] = c]
    /\ model' = [model EXCEPT ![VarOf(unit)] = LvlToSignedLvl(unit, lvl)]
    /\ trail' = Append(trail, unit)

ReturnConflict(c) ==
    /\ confl' = c
    /\ pc' = "conflict"
    /\ todoBin' = {}
    /\ todo' = {}

\* The next literal of the trail, and the lists to go through.
StartLit ==
    /\ pc = "propagate"
    /\ ptr <= Len(trail)
    /\ todoBin' = wlistBin[trail[ptr]]
    /\ todo' = wlist[trail[ptr]]
    /\ pc' = "visit"
    /\ UNCHANGED <<bindingVars, dbVars, wlist, wlistBin, ptr, confl, lvl>>

VisitBinary(w) ==
    /\ pc = "visit"
    /\ IF IsFalse(w[2])
       THEN ReturnConflict(w[1]) /\ UNCHANGED <<model, trail, reason>>
       ELSE /\ IF LitStatus(w[2]) = "Indet"
               THEN Imply(w[1], w[2])
               ELSE UNCHANGED <<model, trail, reason>>
            /\ todoBin' = todoBin \ {w}
            /\ UNCHANGED <<todo, confl, pc>>
    /\ UNCHANGED <<locked, polarity, queue, dbVars, wlist, wlistBin, ptr, lvl>>

\* Variant for TLC: the first two literals are never swapped.
SwappedNever(c, falseLit) == watched[c]

\* simplifyPropClauses: the literals at index 0 and 1 once the code made
\* sure that the false literal is the second one.
Swapped(c, falseLit) ==
    IF watched[c][1] = falseLit THEN <<watched[c][2], falseLit>> ELSE watched[c]

\* Variants for TLC: only true literals; false ones too.
FreeTrue(c) ==
    {l \in clauses[c] \ {watched[c][1], watched[c][2]} : LitStatus(l) = "Sat"}
FreeAll(c) == clauses[c] \ {watched[c][1], watched[c][2]}

\* The literals at index >= 2 that may be watched instead.
Free(c) ==
    {l \in clauses[c] \ {watched[c][1], watched[c][2]} : ~ IsFalse(l)}

\* The watcher stays in the list, with the first literal as blocking literal.
KeepWatcher(w, lit, p) ==
    /\ wlist' = [wlist EXCEPT ![lit] = (@ \ {w}) \union {<<w[1], p[1]>>}]
    /\ watched' = [watched EXCEPT ![w[1]] = p]

\* The clause is now watched at k, and the watcher leaves the list.
MoveWatcher(w, lit, p, k) ==
    /\ wlist' = [wlist EXCEPT ![lit] = @ \ {w},
                              ![Negation(k)] = @ \union {<<w[1], p[1]>>}]
    /\ watched' = [watched EXCEPT ![w[1]] = <<p[1], k>>]

VisitLong(w) ==
    LET c == w[1]
        lit == trail[ptr]
        p == Swapped(c, Negation(lit))
        first == p[1]
    IN
    /\ pc = "visit" /\ todoBin = {}
    /\ \/ /\ LitStatus(w[2]) = "Sat"
          /\ todo' = todo \ {w}
          /\ UNCHANGED <<bindingVars, watchVars, confl, pc, todoBin>>
       \/ /\ LitStatus(w[2]) # "Sat" /\ LitStatus(first) = "Sat"
          /\ KeepWatcher(w, lit, p)
          /\ todo' = todo \ {w}
          /\ UNCHANGED <<bindingVars, wlistBin, confl, pc, todoBin>>
       \/ /\ LitStatus(w[2]) # "Sat" /\ LitStatus(first) # "Sat"
          /\ \E k \in Free(c) : MoveWatcher(w, lit, p, k)
          /\ todo' = todo \ {w}
          /\ UNCHANGED <<bindingVars, wlistBin, confl, pc, todoBin>>
       \/ /\ LitStatus(w[2]) # "Sat" /\ LitStatus(first) # "Sat"
          /\ Free(c) = {}
          /\ KeepWatcher(w, lit, p)
          /\ IF IsFalse(first)
             THEN ReturnConflict(c) /\ UNCHANGED bindingVars
             ELSE /\ Imply(c, first)
                  /\ locked' = locked \union {c}
                  /\ todo' = todo \ {w}
                  /\ UNCHANGED <<polarity, queue, confl, pc, todoBin>>
          /\ UNCHANGED wlistBin
    /\ UNCHANGED <<clauses, lbd, learned, nbMax, idxReduce, ptr, lvl>>

EndLit ==
    /\ pc = "visit" /\ todoBin = {} /\ todo = {}
    /\ ptr' = ptr + 1
    /\ pc' = "propagate"
    /\ UNCHANGED <<bindingVars, dbVars, wlist, wlistBin, todoBin, todo, confl, lvl>>

PropagateStep ==
    \/ StartLit
    \/ \E w \in todoBin : VisitBinary(w)
    \/ \E w \in todo : VisitLong(w)
    \/ EndLit

\* propagate is about to return nil.
Propagated == pc = "propagate" /\ ptr > Len(trail)
=============================================================================
