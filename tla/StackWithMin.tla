----------------------------- MODULE StackWithMin -----------------------------
(***************************************************************************)
(* What the stacks with a minimum of libfun promise: pop gives the value on  *)
(* top and the least of all the values that were on the stack.              *)
(***************************************************************************)
EXTENDS Integers, Sequences

CONSTANTS
    Values,         \* values that may be pushed
    MaxDepth,       \* bound: depth of the stack
    None            \* Option: no value

VARIABLES
    stack,          \* the values, the top first
    result          \* what the last pop returned

vars == <<stack, result>>

Least(s) == CHOOSE m \in s : \A n \in s : m <= n

Elements(s) == {s[i] : i \in DOMAIN s}

Init ==
    /\ stack = <<>>
    /\ result = [val |-> None, min |-> None]

Push(v) ==
    /\ Len(stack) < MaxDepth
    /\ stack' = <<v>> \o stack
    /\ UNCHANGED result

Pop ==
    \/ /\ stack = <<>>
       /\ result' = [val |-> None, min |-> None]
       /\ UNCHANGED stack
    \/ /\ stack # <<>>
       /\ result' = [val |-> Head(stack), min |-> Least(Elements(stack))]
       /\ stack' = Tail(stack)

Next == (\E v \in Values : Push(v)) \/ Pop

Spec == Init /\ [][Next]_vars

=============================================================================
