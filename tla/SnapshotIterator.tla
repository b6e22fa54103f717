---- MODULE SnapshotIterator ----
(***************************************************************************)
(* Iteration over a stack of snapshot layers (core/state/snapshot,         *)
(* iterator*.go).  A layer is the sorted sequence of its entries <<k, v>>, *)
(* v = 0 for a deletion; an iterator is [rest, prio], positioned at the    *)
(* head of rest.  Stacks run from the top layer (priority 0) down.         *)
(***************************************************************************)
EXTENDS Integers, Sequences, SequencesExt

Key(it) == it.rest[1][1]
Advanced(it) == [it EXCEPT !.rest = Tail(it.rest)]
Before(a, b) == Key(a) < Key(b) \/ (Key(a) = Key(b) /\ a.prio < b.prio)

\* init: every iterator is placed on a key no earlier one stands on; of two that
\* clash the one of the deeper layer goes on.  An exhausted one is replaced by
\* the last.
RECURSIVE Position(_, _)
Position(its, i) ==
    IF i > Len(its) THEN its
    ELSE IF its[i].rest = <<>>
    THEN Position(SubSeq([its EXCEPT ![i] = its[Len(its)]], 1, Len(its) - 1), i)
    ELSE LET clash == {j \in 1..(i - 1) : Key(its[j]) = Key(its[i])}
         IN IF clash = {} THEN Position(its, i + 1)
            ELSE LET j == CHOOSE x \in clash : TRUE
                 IN IF its[j].prio < its[i].prio
                    THEN Position([its EXCEPT ![i] = Advanced(its[i])], i)
                    ELSE Position([its EXCEPT ![j] = its[i], ![i] = Advanced(its[j])], i)

\* move puts the iterator at idx behind those up to newpos.
Move(its, idx, newpos) ==
    [n \in DOMAIN its |-> IF n < idx \/ n > newpos THEN its[n]
                          ELSE IF n = newpos THEN its[idx] ELSE its[n + 1]]

\* next: advance the iterator at idx and restore the order; one that stands on
\* the same key as another of higher priority is advanced in turn.
RECURSIVE Step(_, _)
Step(its, idx) ==
    LET adv == [its EXCEPT ![idx] = Advanced(its[idx])]
        cur == adv[idx]
    IN IF cur.rest = <<>> THEN RemoveAt(adv, idx)
       ELSE IF idx = Len(adv) \/ Key(cur) < Key(adv[idx + 1]) THEN adv
       ELSE IF Key(cur) = Key(adv[idx + 1]) /\ cur.prio < adv[idx + 1].prio
       THEN Step(adv, idx + 1)
       ELSE LET fits == {n \in idx..Len(adv) : n = Len(adv) \/ Before(cur, adv[n + 1])}
                to == CHOOSE n \in fits : \A m \in fits : n <= m
                clash == {n \in (idx + 1)..Len(adv) : Key(adv[n]) = Key(cur)}
                moved == Move(adv, idx, to)
            IN IF clash = {} THEN moved ELSE Step(moved, CHOOSE n \in clash : TRUE)

\* Next leaves out the keys whose topmost entry is a deletion.
RECURSIVE Emitted(_)
Emitted(its) ==
    IF its = <<>> THEN <<>>
    ELSE (IF its[1].rest[1][2] # 0 THEN <<its[1].rest[1]>> ELSE <<>>) \o Emitted(Step(its, 1))

\* newFastIterator
FastIterate(stack) ==
    LET its == [d \in DOMAIN stack |-> [rest |-> stack[d], prio |-> d - 1]]
    IN Emitted(SortSeq(Position(its, 1), Before))

\* binaryIterator.Next: on equal keys the upper iterator is advanced and the key
\* comes from the lower one; values are looked up through the top layer.
RECURSIVE BinaryMerge(_, _)
BinaryMerge(a, b) ==
    IF a = <<>> THEN b
    ELSE IF b = <<>> THEN a
    ELSE IF a[1] < b[1] THEN <<a[1]>> \o BinaryMerge(Tail(a), b)
    ELSE IF a[1] = b[1] THEN BinaryMerge(Tail(a), b)
    ELSE <<b[1]>> \o BinaryMerge(a, Tail(b))

RECURSIVE BinaryKeys(_)
BinaryKeys(stack) ==
    LET top == [n \in DOMAIN stack[1] |-> stack[1][n][1]]
    IN IF Len(stack) = 1 THEN top ELSE BinaryMerge(top, BinaryKeys(Tail(stack)))
====
