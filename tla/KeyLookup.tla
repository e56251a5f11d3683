------------------------------ MODULE KeyLookup ------------------------------
(***************************************************************************)
(* router._keyLookup (src/unnamed/part_000, lines 681-713): the key a      *)
(* destination is replaced by when the router holds no info for it, found  *)
(* by one pass over the Go map r.infos in any iteration order, checked     *)
(* against a direct definition over every small store and destination.     *)
(* MC_Router checks it on the stores the Router model's routers reach.     *)
(***************************************************************************)
EXTENDS Integers, FiniteSets, Sequences, SequencesExt, FiniteSetsExt

CONSTANTS
    Keys,    \* the keys a store may hold
    Dests    \* the destinations asked for

ASSUME Keys \subseteq Nat \ {0} /\ Dests \subseteq Nat \ {0}

None == 0

\* Fault: the loop never records the lowest key, so the fallback to it is lost.
KeyStepNoFallback(acc, key, d) ==
    [lowest |-> acc.lowest,
     best |-> IF key < d /\ (acc.best = None \/ acc.best < key) THEN key ELSE acc.best]

\* One iteration of the loop over r.infos; acc = [lowest, best]
KeyStep(acc, key, d) ==
    [lowest |-> IF acc.lowest = None \/ key < acc.lowest THEN key ELSE acc.lowest,
     best |-> IF key < d /\ (acc.best = None \/ acc.best < key) THEN key ELSE acc.best]

\* _keyLookup's results, one per iteration order of r.infos
KeyLookup(infos, d) ==
    IF d \in infos THEN {d}
    ELSE LET Run(o) == FoldLeft(LAMBDA acc, k : KeyStep(acc, k, d),
                                [lowest |-> None, best |-> None], o)
             Pick(acc) == IF acc.best # None THEN acc.best
                          ELSE IF acc.lowest # None THEN acc.lowest ELSE d
         IN {Pick(Run(o)) : o \in SetToSeqs(infos)}

\* What the comment asks for: the closest known key, taken as the highest
\* known key below the destination, else the lowest known key, else the
\* destination itself.
Closest(infos, d) ==
    LET below == {k \in infos : k < d}
    IN IF d \in infos THEN d
       ELSE IF below # {} THEN Max(below)
       ELSE IF infos # {} THEN Min(infos)
       ELSE d

=============================================================================
