------------------------------ MODULE Scheduler ------------------------------
(***************************************************************************)
(* The scheduling algorithms: what services/scheduler/app/strategies.py    *)
(* computes over HTTP and what dispatch.service.ts computes itself when    *)
(* that service does not answer.  They are the same functions of the same  *)
(* snapshot, so one definition stands for both.                            *)
(*                                                                         *)
(* A candidate is a record [order, amount, number]: the order, the energy  *)
(* it asks for and the number in its queueNo.  A snapshot is the set of    *)
(* piles on offer and the energy already queued on each one.               *)
(***************************************************************************)
EXTENDS Integers, FiniteSets, Sequences, SequencesExt

CONSTANTS Piles,      \* charging piles, numbered in the order of their ids
          PilePower   \* what each pile delivers per hour

ASSUME PilesAssumption == Piles \subseteq Nat /\ IsFiniteSet(Piles)
ASSUME PilePowerAssumption == PilePower \in [Piles -> Nat \ {0}]

(***************************************************************************)
(* Pile p would finish the candidate before pile q: projectedFinish is     *)
(* (queued + own amount) / power, compared here without dividing; equal    *)
(* times fall back on the pile id.                                         *)
(***************************************************************************)
FinishesFirst(load, amount, p, q) ==
    LET timeP == (load[p] + amount) * PilePower[q]
        timeQ == (load[q] + amount) * PilePower[p]
    IN  timeP < timeQ \/ (timeP = timeQ /\ p < q)

ChooseShortestPile(load, amount, offered) ==
    CHOOSE p \in offered : \A q \in offered \ {p} : FinishesFirst(load, amount, p, q)

(***************************************************************************)
(* basic_shortest_dispatch / localBasicDispatch: the candidates in order,  *)
(* each to its shortest pile, every placement counted before the next one. *)
(* The capacity of a pile's queue plays no part here.                      *)
(***************************************************************************)
ShortestDispatch(candidates, load, offered) ==
    LET place(acc, c) ==
            LET p == ChooseShortestPile(acc.load, c.amount, offered)
            IN  [load |-> [acc.load EXCEPT ![p] = @ + c.amount],
                 plan |-> Append(acc.plan, [order |-> c.order, pile |-> p])]
    IN  IF offered = {} THEN <<>>
        ELSE FoldLeft(place, [load |-> load, plan |-> <<>>], candidates).plan

(* Array.prototype.sort and list.sort are stable: equal keys keep their order. *)
SortedBy(seq, Before(_, _)) ==
    LET precedes(i, j) == \/ Before(seq[i], seq[j])
                          \/ ~Before(seq[j], seq[i]) /\ i < j
        rank == SetToSortSeq(DOMAIN seq, precedes)
    IN  [i \in DOMAIN seq |-> seq[rank[i]]]

TimeOrderDispatch(candidates, load, offered) ==
    LET smallerNumber(a, b) == a.number < b.number
    IN  ShortestDispatch(SortedBy(candidates, smallerNumber), load, offered)

BatchDispatch(candidates, load, offered) ==
    LET largerAmount(a, b) == a.amount > b.amount
    IN  ShortestDispatch(SortedBy(candidates, largerAmount), load, offered)
=============================================================================
