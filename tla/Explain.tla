------------------------------- MODULE Explain -------------------------------
(***************************************************************************)
(* Unsatisfiable subsets (explain/check.go, explain/mus.go): UnsatSubset,  *)
(* with the goroutine that solves the problem and sends its certificate to *)
(* the checker of module Checker, and the three algorithms that look for a *)
(* minimal one.                                                            *)
(*                                                                         *)
(* The solver is taken for what the other modules show of it: the lines it *)
(* sends are RUP and the empty one is the last (CertificateIsRup), its     *)
(* answers are right whether clauses are appended or literals assumed      *)
(* between them (SatService), and Minimize returns an optimum (Optimum).   *)
(* Subsets are given by the indices of their clauses.                      *)
(***************************************************************************)
EXTENDS Checker, Rup

VARIABLES
    op,         \* what the client called
    stage,      \* where it is: "idle", "check", "subset", "delete", "insert",
                \* "add" or "maxsat"
    sender,     \* the goroutine that solves: "none", "solving", "proved",
                \* "returned" or "closed"
    status,     \* the variable it shares with UnsatSubset
    pool,       \* indices of the clauses of the subset that are looked at
    shared,     \* the subset and the problem have the same slice of clauses
    kept,       \* indices of the clauses in the subset under construction
    idx,        \* index of the last clause looked at
    answer      \* what the last call returned

explainVars == <<op, stage, sender, status, pool, shared, kept, idx, answer>>
vars == <<checkerVars, explainVars>>

NoAnswer == [kind |-> "none", ids |-> {}]

\* Problem and lines the checker has, as sets.
Checked == {Range(clauses[i]) : i \in DOMAIN clauses}

EInit ==
    /\ Init
    /\ op = "none" /\ stage = "idle"
    /\ sender = "none" /\ status = "Unsat"
    /\ pool = {} /\ shared = FALSE /\ kept = {} /\ idx = 0
    /\ answer = NoAnswer

\* The client calls when no call is running; a goroutine left by the last one
\* would not be seen by the next, which makes its own.
Idle == stage = "idle" /\ pc = "idle" /\ clauses = given /\ sender \in {"none", "closed"}

\* The clauses that come after the last one, in the order of the problem.
Ahead == {i \in pool : i > idx}

Returns(kind, ids) == stage' = "idle" /\ answer' = [kind |-> kind, ids |-> ids]

-----------------------------------------------------------------------------
(* The client checks a certificate of its own.                             *)

CallCheck(isChannel) ==
    /\ Idle /\ op' = "check" /\ Start(isChannel)
    /\ answer' = NoAnswer
    /\ UNCHANGED <<stage, sender, status, pool, shared, kept, idx>>

OwnLine ==
    /\ op = "check" /\ (AnyLine \/ EndOfLines \/ ReadError)
    /\ UNCHANGED explainVars

-----------------------------------------------------------------------------
(* UnsatSubset.                                                            *)

\* ParseSlice propagates units: what it finds unsatisfiable is returned whole.
CallSubset(o) ==
    /\ Idle /\ op' = o
    /\ answer' = NoAnswer /\ kept' = {} /\ idx' = 0
    /\ IF Refutes(Checked, {})
       THEN /\ stage' = "subset" /\ pool' = DOMAIN clauses /\ shared' = TRUE
            /\ UNCHANGED <<checkerVars, sender, status>>
       ELSE /\ stage' = "check" /\ sender' = "solving" /\ status' = "Unsat"
            /\ Start(TRUE)
            /\ UNCHANGED <<pool, shared>>

\* The lines that follow by unit propagation and contain no clause that is there,
\* which would have been propagated before there was anything to learn.  (One that
\* reduceLearned removed may be learned again, which tells the checker nothing.)
NewLines ==
    {l \in Lines :
        /\ IsRup(Checked, Range(l))
        /\ \A C \in Checked : ~ (C \subseteq Range(l))}

\* s.CertChan <- line, received by the loop of UnsatChan.
SolverSends ==
    /\ sender = "solving" /\ Len(clauses) < NbClauses + MaxLines
    /\ \E l \in NewLines \ {<<>>} : ReadLine(l)
    /\ UNCHANGED explainVars

\* s.CertChan <- "0"
SolverProves ==
    /\ sender = "solving" /\ <<>> \in NewLines
    /\ ReadLine(<<>>)
    /\ sender' = "proved"
    /\ UNCHANGED <<op, stage, status, pool, shared, kept, idx, answer>>

\* status = s.Solve()
SolverReturns ==
    /\ \/ sender = "proved" /\ status' = "Unsat"
       \/ sender = "solving" /\ Satisfiable(ClausesAt(DOMAIN given)) /\ status' = "Sat"
    /\ sender' = "returned"
    /\ UNCHANGED <<checkerVars, op, stage, pool, shared, kept, idx, answer>>

\* close(s.CertChan)
SolverCloses ==
    /\ sender = "returned" /\ sender' = "closed"
    /\ UNCHANGED <<checkerVars, op, stage, status, pool, shared, kept, idx, answer>>

ChannelClosed ==
    /\ stage = "check" /\ sender = "closed" /\ EndOfLines
    /\ UNCHANGED explainVars

\* !valid || status == solver.Sat, the latter read while the goroutine may run.
NotUnsat(v, st) == v \notin {"refuted", "ended"} \/ st = "Sat"

\* UnsatChan returned: the subset has the tagged clauses.
SubsetReturns ==
    /\ stage = "check" /\ pc = "idle"
    /\ IF NotUnsat(verdict, status)
       THEN Returns("satisfiable", {}) /\ UNCHANGED <<pool, shared>>
       ELSE /\ stage' = "subset" /\ pool' = tagged /\ shared' = FALSE
            /\ UNCHANGED answer
    /\ UNCHANGED <<checkerVars, op, sender, status, kept, idx>>

ReturnSubset ==
    /\ stage = "subset" /\ op = "subset"
    /\ Returns("subset", pool)
    /\ UNCHANGED <<checkerVars, op, sender, status, pool, shared, kept, idx>>

-----------------------------------------------------------------------------
(* MUSDeletion: each clause is relaxed in turn, and stays so if the others *)
(* are unsatisfiable without it.                                           *)

\* The relax literals are above those of the problem.
Relax(i) == 2 * (NbVars + i - 1)

\* pb2.Clauses[i] = newClause
StartDeletion ==
    /\ stage = "subset" /\ op = "deletion"
    /\ stage' = "delete" /\ idx' = 0 /\ kept' = pool
    /\ clauses' = IF shared THEN [i \in DOMAIN clauses |-> Append(clauses[i], Relax(i))]
                  ELSE clauses
    /\ UNCHANGED <<given, units, tagged, scanning, channel, verdict, pc,
                   op, sender, status, pool, shared, answer>>

\* Variant for TLC: the clause is examined against the clauses after it only.
WithoutEarlier(i) == {j \in kept : j > i}

Without(i) == kept \ {i}

\* Assume and Solve.
DeletionTurn ==
    LET i == Min(Ahead) IN
    /\ stage = "delete" /\ Ahead # {}
    /\ \/ Satisfiable(ClausesAt(Without(i))) /\ UNCHANGED kept
       \/ ~ Satisfiable(ClausesAt(Without(i))) /\ kept' = kept \ {i}
    /\ idx' = i
    /\ UNCHANGED <<checkerVars, op, stage, sender, status, pool, shared, answer>>

ReturnDeletion ==
    /\ stage = "delete" /\ Ahead = {}
    /\ Returns("mus", kept)
    /\ UNCHANGED <<checkerVars, op, sender, status, pool, shared, kept, idx>>

-----------------------------------------------------------------------------
(* MUSInsertion: clauses are added until the last one makes the problem    *)
(* unsatisfiable; it is kept, and those after it are dropped.              *)

StartInsertion ==
    /\ stage = "subset" /\ op = "insertion"
    /\ stage' = "insert"
    /\ UNCHANGED <<checkerVars, op, sender, status, pool, shared, kept, idx, answer>>

\* solver.New and Solve, on the clauses kept.
InsertionTurn ==
    /\ stage = "insert"
    /\ \/ /\ Satisfiable(ClausesAt(kept))
          /\ stage' = "add" /\ idx' = 0
          /\ UNCHANGED answer
       \/ /\ ~ Satisfiable(ClausesAt(kept))
          /\ Returns("mus", kept)
          /\ UNCHANGED idx
    /\ UNCHANGED <<checkerVars, op, sender, status, pool, shared, kept>>

\* AppendClause and Solve.
InsertionAdd ==
    LET i == Min(Ahead)
        added == kept \union {j \in pool : j <= i}
    IN
    /\ stage = "add"
    /\ \/ /\ Satisfiable(ClausesAt(added))
          /\ idx' = i
          /\ UNCHANGED <<stage, pool, kept>>
       \/ /\ ~ Satisfiable(ClausesAt(added))
          /\ kept' = kept \union {i} /\ pool' = {j \in pool : j < i}
          /\ stage' = "insert"
          /\ UNCHANGED idx
    /\ UNCHANGED <<checkerVars, op, sender, status, shared, answer>>

-----------------------------------------------------------------------------
(* MUSMaxSat: the clauses that an optimal model falsifies become hard,     *)
(* until the hard ones are unsatisfiable.                                  *)

CallMaxSat ==
    /\ Idle /\ op' = "maxsat" /\ stage' = "maxsat"
    /\ kept' = {} /\ answer' = NoAnswer
    /\ UNCHANGED <<checkerVars, sender, status, pool, shared, idx>>

\* Indices of the clauses that a falsifies, those that are hard left out.
FalsifiedBy(a) == {i \in DOMAIN given \ kept : ~ SatClause(a, Range(given[i]))}

\* The models that Minimize may return.
Optima ==
    LET M == {a \in Assignments : SatAll(a, ClausesAt(kept))} IN
    {a \in M : \A b \in M : Cardinality(FalsifiedBy(a)) <= Cardinality(FalsifiedBy(b))}

MaxSatTurn ==
    /\ stage = "maxsat"
    /\ \/ Optima = {} /\ Returns("mus", kept) /\ UNCHANGED kept
       \/ \E a \in Optima :
            IF FalsifiedBy(a) = {} THEN Returns("satisfiable", {}) /\ UNCHANGED kept
            ELSE kept' = kept \union FalsifiedBy(a) /\ UNCHANGED <<stage, answer>>
    /\ UNCHANGED <<checkerVars, op, sender, status, pool, shared, idx>>

-----------------------------------------------------------------------------
\* Nothing is called any more on a problem that MUSDeletion has overwritten.
Overwritten == stage = "idle" /\ clauses # given /\ pc = "idle" /\ UNCHANGED vars

ScanLine == Scan /\ UNCHANGED explainVars

SolverStep == SolverSends \/ SolverProves \/ SolverReturns \/ SolverCloses

CallStep ==
    \/ ScanLine \/ ChannelClosed
    \/ SubsetReturns \/ ReturnSubset
    \/ StartDeletion \/ DeletionTurn \/ ReturnDeletion
    \/ StartInsertion \/ InsertionTurn \/ InsertionAdd
    \/ MaxSatTurn

Next ==
    \/ \E b \in BOOLEAN : CallCheck(b)
    \/ \E o \in {"subset", "deletion", "insertion"} : CallSubset(o)
    \/ CallMaxSat
    \/ OwnLine
    \/ SolverStep \/ CallStep
    \/ Overwritten

\* The call and the goroutine that solves wait for nothing but each other.
Spec == EInit /\ [][Next]_vars /\ WF_vars(CallStep) /\ WF_vars(SolverStep)

-----------------------------------------------------------------------------
(* The inductive invariant.                                                *)

\* What the theorems rest on: the clauses of the problems and of the solver's
\* certificates have no literal twice, and the latter are no tautologies.
DistinctLiterals ==
    /\ \A p \in Inputs : \A i \in DOMAIN p : IsInjective(p[i])
    /\ \A l \in Lines : IsInjective(l) /\ ~ Tautology(Range(l))

Unsat(I) == ~ Satisfiable(ClausesAt(I))

ExplainTypeOK ==
    /\ op \in {"none", "check", "subset", "deletion", "insertion", "maxsat"}
    /\ stage \in {"idle", "check", "subset", "delete", "insert", "add", "maxsat"}
    /\ sender \in {"none", "solving", "proved", "returned", "closed"}
    /\ status \in {"Sat", "Unsat"}
    /\ pool \subseteq 1 .. NbClauses /\ kept \subseteq 1 .. NbClauses /\ idx \in Nat
    /\ answer \in [kind : {"none", "subset", "mus", "satisfiable"}, ids : SUBSET (1 .. NbClauses)]

\* Where each operation can be, and where the checker works.
StagesAgree ==
    /\ stage \in {"check", "subset"} => op \in {"subset", "deletion", "insertion"} /\ kept = {}
    /\ stage = "delete" => op = "deletion"
    /\ stage \in {"insert", "add"} => op = "insertion"
    /\ stage = "maxsat" => op = "maxsat"
    /\ stage # "idle" => answer = NoAnswer
    /\ stage \notin {"idle", "check"} => pc = "idle"
    /\ sender = "solving" => stage = "check"

\* Only lines that may be in a certificate are checked.
LinesKnown ==
    /\ pc # "idle" => \A k \in NbClauses + 1 .. Len(clauses) : clauses[k] \in Lines
    /\ pc \in {"scan", "judge"} => line \in Lines

\* The empty line was sent, and no other will be.
Proved == sender = "proved" \/ (sender \in {"returned", "closed"} /\ status = "Unsat")

\* The checker and the goroutine that solves, seen from UnsatSubset.
CertificateHolds ==
    stage = "check" =>
        /\ channel /\ sender # "none"
        /\ status = "Sat" => ~Proved /\ sender # "solving" /\ ~Unsat(DOMAIN given)
        /\ pc \in {"scan", "judge"} => IsRup(Checked, Range(line))
        /\ IF Proved THEN \/ pc \in {"scan", "judge"} /\ line = <<>>
                          \/ pc = "idle" /\ verdict = "refuted"
           ELSE \/ pc = "read"
                \/ pc \in {"scan", "judge"} /\ line # <<>>
                \/ pc = "idle" /\ verdict = "ended" /\ status = "Sat"

SubsetHolds == stage = "subset" => Unsat(pool)

DeletionHolds ==
    stage = "delete" =>
        /\ Ahead \subseteq kept /\ Unsat(kept)
        /\ \A i \in kept \ Ahead : ~Unsat(kept \ {i})

InsertionHolds ==
    stage \in {"insert", "add"} =>
        /\ kept \intersect pool = {} /\ Unsat(kept \union pool)
        /\ \A i \in kept : ~Unsat((kept \union pool) \ {i})
        /\ stage = "add" => ~Unsat(kept \union {j \in pool : j <= idx})

AnswerHolds ==
    /\ answer.kind \in {"subset", "mus"} => Unsat(answer.ids)
    /\ answer.kind = "satisfiable" => ~Unsat(DOMAIN given)

CheckerPart == CheckerInv /\ PassesMissNothing /\ LinesKnown

ExplainPart ==
    /\ ExplainTypeOK /\ StagesAgree /\ CertificateHolds
    /\ SubsetHolds /\ DeletionHolds /\ InsertionHolds /\ AnswerHolds

Inv == CheckerPart /\ ExplainPart

-----------------------------------------------------------------------------
(* Properties.                                                             *)

\* unsat misses nothing: a line it does not refute is not RUP, if no clause has
\* the same literal twice and the line does not have a literal and its negation,
\* of which only the last is made false.
RefusedNotRup ==
    (/\ pc = "judge" /\ ~ refuted /\ ~ Tautology(Range(line))
     /\ \A k \in DOMAIN clauses : IsInjective(clauses[k])) =>
        ~ IsRup(Checked, Range(line))

\* UnsatSubset and the MUS algorithms return an unsatisfiable subset, or say
\* that the problem is satisfiable when it is; and MUSInsertion does not run out
\* of clauses to add, which an unsatisfiable subset guarantees.
SubsetsUnsat ==
    /\ stage = "add" => Ahead # {}
    /\ answer.kind \in {"subset", "mus"} => ~ Satisfiable(ClausesAt(answer.ids))
    /\ answer.kind = "satisfiable" => Satisfiable(ClausesAt(DOMAIN given))

\* The refinement: MUSDeletion and MUSInsertion extract a minimal subset.
Minimal == op \in {"deletion", "insertion"}

Candidates ==
    IF ~ Minimal \/ (stage \in {"idle", "check"} /\ answer.kind # "mus") THEN DOMAIN given
    ELSE IF answer.kind = "mus" THEN answer.ids
    ELSE IF stage = "delete" \/ (stage = "insert" /\ ~ Satisfiable(ClausesAt(kept))) THEN kept
    ELSE kept \union pool

Needed ==
    IF ~ Minimal \/ (stage \in {"idle", "check"} /\ answer.kind # "mus") THEN {}
    ELSE IF answer.kind = "mus" THEN answer.ids
    ELSE IF stage = "delete" THEN kept \ Ahead
    ELSE kept

M == INSTANCE Mus WITH
        problem <- given, candidates <- Candidates, needed <- Needed,
        result <- IF Minimal THEN answer ELSE NoAnswer

RefinesMus == M!Spec

\* The calls return, and the goroutine that solves does not stay behind.
AllEnd ==
    /\ stage # "idle" ~> stage = "idle"
    /\ sender = "solving" ~> sender = "closed"

\* The documentation of MUSMaxSat: without any of its clauses, what it returns
\* is satisfiable.
MaxSatMinimal == op = "maxsat" /\ answer.kind = "mus" => M!IsMus(given, answer.ids)

\* The documentation of UnsatChan and Unsat: true iff the certificate makes the
\* problem unsatisfiable.
ValidMeansUnsat ==
    op = "check" /\ verdict \in {"refuted", "ended"} => ~ Satisfiable(ClausesAt(DOMAIN given))

\* UnsatSubset makes a copy so that the problem and the subset are not the same.
ProblemKept == stage = "idle" /\ pc = "idle" => clauses = given
=============================================================================
