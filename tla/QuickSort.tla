------------------------------- MODULE QuickSort -------------------------------
(***************************************************************************)
(* quicksort of libfun/src/sort/qsort.rs, with its calls as a stack of       *)
(* frames.  Indices begin at 0, as in the code.  A slice is not empty:      *)
(* slice.len() - 1 would underflow.                                        *)
(***************************************************************************)
EXTENDS Integers, Sequences, SequencesExt, Functions, FiniteSetsExt

CONSTANTS
    Keys,           \* elements, in the order of the integers
    MaxSlice        \* bound: length of a slice

VARIABLES
    given,          \* the slice that quicksort was called with
    slice,          \* what has become of it
    calls           \* the calls of q_sort that have not returned, the last one on top

sortVars == <<given, slice, calls>>

Last0(s) == Cardinality(DOMAIN s) - 1

\* A call: its arguments, its local variables and the next statement.
Call(left, right) ==
    [left |-> left, right |-> right, l |-> left, r |-> right, pivot |-> left, at |-> "pivot"]

SortInit ==
    /\ \E n \in 1..MaxSlice : given \in [0..(n - 1) -> Keys]
    /\ slice = given
    /\ calls = <<Call(0, Last0(given))>>

-----------------------------------------------------------------------------
Current == calls[Len(calls)]

\* The call on top goes on with other local variables; a call that it makes.
Continue(call) == calls' = Append(Front(calls), call)
Descend(call, callee) == calls' = Append(Append(Front(calls), call), callee)

\* The index of the median of the two ends and the middle.
Median(p1, p2, p3) ==
    IF slice[p1] < slice[p2]
    THEN IF slice[p3] < slice[p2]
         THEN IF slice[p1] < slice[p3] THEN p3 ELSE p1
         ELSE p2
    ELSE IF slice[p3] < slice[p1]
         THEN IF slice[p2] < slice[p3] THEN p3 ELSE p2
         ELSE p1

ChoosePivot ==
    LET c == Current
    IN  /\ c.at = "pivot"
        /\ Continue([c EXCEPT !.pivot = Median(c.left, (c.left + c.right) \div 2, c.right),
                              !.at = "fromRight"])
        /\ UNCHANGED slice

\* slice.swap(i, j)
Swapped(i, j) == [slice EXCEPT ![i] = slice[j], ![j] = slice[i]]

\* The first while of the loop: r comes down to an element that is not above
\* the pivot, and changes places with it.
FromRight ==
    LET c == Current
        r == Max({k \in c.l..c.r : k = c.l \/ slice[k] <= slice[c.pivot]})
    IN  /\ c.at = "fromRight" /\ c.l < c.r
        /\ IF r # c.l
           THEN /\ slice' = Swapped(c.pivot, r)
                /\ Continue([c EXCEPT !.r = r, !.pivot = r, !.at = "fromLeft"])
           ELSE /\ UNCHANGED slice
                /\ Continue([c EXCEPT !.r = r, !.at = "fromLeft"])

\* The second while: l goes up to an element that is not below the pivot.
FromLeft ==
    LET c == Current
        l == Min({k \in c.l..c.r : k = c.r \/ slice[k] >= slice[c.pivot]})
    IN  /\ c.at = "fromLeft"
        /\ IF l # c.r
           THEN /\ slice' = Swapped(c.pivot, l)
                /\ Continue([c EXCEPT !.l = l, !.pivot = l, !.at = "fromRight"])
           ELSE /\ UNCHANGED slice
                /\ Continue([c EXCEPT !.l = l, !.at = "fromRight"])

LeftPart(c) == Call(c.left, c.l - 1)

\* Variant: the end of the part is taken for one past it.
RightPartShort(c) == Call(c.l + 1, c.right - 1)

RightPart(c) == Call(c.l + 1, c.right)

\* The loop has ended: what is left of l is sorted, then what is right of it.
SortLeft ==
    LET c == Current
    IN  /\ c.at = "fromRight" /\ c.l >= c.r
        /\ IF c.left < c.l
           THEN Descend([c EXCEPT !.at = "right"], LeftPart(c))
           ELSE Continue([c EXCEPT !.at = "right"])
        /\ UNCHANGED slice

SortRight ==
    LET c == Current
    IN  /\ c.at = "right"
        /\ IF c.right > c.l
           THEN Descend([c EXCEPT !.at = "return"], RightPart(c))
           ELSE Continue([c EXCEPT !.at = "return"])
        /\ UNCHANGED slice

Return ==
    /\ Current.at = "return"
    /\ calls' = Front(calls)
    /\ UNCHANGED slice

SortNext ==
    /\ calls # <<>>
    /\ ChoosePivot \/ FromRight \/ FromLeft \/ SortLeft \/ SortRight \/ Return
    /\ UNCHANGED given

SortSpec == SortInit /\ [][SortNext]_sortVars /\ WF_sortVars(SortNext)

-----------------------------------------------------------------------------
(* Properties *)

Ordered(s) == \A i, j \in DOMAIN s : i < j => s[i] <= s[j]

Occurrences(s, k) == Cardinality({i \in DOMAIN s : s[i] = k})

\* quicksort, if it returns, returns the elements it was given in order, whatever
\* they are; and it returns when no two are equal.  (With equal elements at both
\* ends of a part the loop may exchange them for ever.)
Sorts ==
    /\ [](calls = <<>> =>
             Ordered(slice) /\ \A k \in Keys : Occurrences(slice, k) = Occurrences(given, k))
    /\ IsInjective(given) ~> calls = <<>>

=============================================================================
