------------------------------- MODULE MinStack -------------------------------
(***************************************************************************)
(* The stack with a minimum of libfun/src/stack (get_min.rs and, with the    *)
(* same steps, lls_get_min.rs and lls_get_min_t.rs): a stack of values and a  *)
(* second one with, for each of them, the least of it and those below.      *)
(***************************************************************************)
EXTENDS Integers, Sequences

CONSTANTS
    Values,         \* values that may be pushed: an i32 each
    MaxDepth,       \* bound: depth of the stack
    None            \* Option: no value

ASSUME StackAssumption == Values \subseteq Int /\ MaxDepth \in Nat

VARIABLES
    top,            \* the values, the top first
    minTop,         \* the minima, the top first
    popped          \* what the last pop returned

stackVars == <<top, minTop, popped>>

StackTypeOK ==
    /\ top \in Seq(Values)
    /\ minTop \in Seq(Values)
    /\ popped \in [val : Values \cup {None}, min : Values \cup {None}]

StackInit ==
    /\ top = <<>>
    /\ minTop = <<>>
    /\ popped = [val |-> None, min |-> None]

-----------------------------------------------------------------------------
\* A new node in front of the others.
Pushed(s, v) == <<v>> \o s

\* take(): the value in front, if there is one; the rest.
First(s) == IF s = <<>> THEN None ELSE Head(s)
Popped(s) == IF s = <<>> THEN s ELSE Tail(s)

\* Variant: a value that is not less gets no node of its own.
NewMinTopShared(v) ==
    IF minTop # <<>> /\ Head(minTop) <= v THEN minTop ELSE Pushed(minTop, v)

\* The value, if it is no more than the minimum so far; else that once more.
NewMinTop(v) ==
    Pushed(minTop, IF minTop = <<>> \/ v <= Head(minTop) THEN v ELSE Head(minTop))

Push(v) ==
    /\ Len(top) < MaxDepth
    /\ top' = Pushed(top, v)
    /\ minTop' = NewMinTop(v)
    /\ UNCHANGED popped

Pop ==
    /\ popped' = [val |-> First(top), min |-> First(minTop)]
    /\ top' = Popped(top)
    /\ minTop' = Popped(minTop)

StackNext == (\E v \in Values : Push(v)) \/ Pop

StackSpec == StackInit /\ [][StackNext]_stackVars

-----------------------------------------------------------------------------
(* Properties *)

\* The two stacks go together, and each minimum is that of its value and those
\* below.
MinimaMatch ==
    /\ Len(minTop) = Len(top)
    /\ \A i \in 1..Len(top) :
          /\ \E j \in i..Len(top) : minTop[i] = top[j]
          /\ \A j \in i..Len(top) : minTop[i] <= top[j]

\* What pop returns as the minimum is the least of all values on the stack (push
\* and pop of Min).
Abstract == INSTANCE StackWithMin WITH stack <- top, result <- popped

ImplementsStackWithMin == Abstract!Spec

=============================================================================
