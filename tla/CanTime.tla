------------------------------- MODULE CanTime -------------------------------
(***************************************************************************)
(* time_subtrack of can_msg.c: the time from x to y, in milliseconds and   *)
(* as a struct timeval.  The waiting for answers it was written for is     *)
(* disabled (#if 0); what a caller could rely on is modelled here, one     *)
(* call per step.                                                          *)
(***************************************************************************)
EXTENDS Integers

CONSTANT Instants    \* what gettimeofday may have returned

ASSUME TimeAssumption == Instants \subseteq [sec : Nat, usec : {u \in Nat : u < 1000000}]

VARIABLES
    from, to,    \* the arguments x and y of the last call
    tim, diff    \* what it returned, and left in diff

timeVars == <<from, to, tim, diff>>

Zero == [sec |-> 0, usec |-> 0]
TimeInit == from = Zero /\ to = Zero /\ tim = 0 /\ diff = Zero

Later(x, y) == x.sec > y.sec \/ (x.sec = y.sec /\ x.usec > y.usec)

\* Slip: the whole second borrowed is not taken from the seconds.
NotBorrowed(x, y) ==
    IF y.usec >= x.usec
    THEN [sec |-> y.sec - x.sec, usec |-> y.usec - x.usec]
    ELSE [sec |-> y.sec - x.sec, usec |-> 1000000 + y.usec - x.usec]

\* In the second case the code adds x and subtracts y.
Rel(x, y) ==
    IF y.usec >= x.usec
    THEN [sec |-> y.sec - x.sec, usec |-> y.usec - x.usec]
    ELSE [sec |-> y.sec - x.sec - 1, usec |-> 1000000 + x.usec - y.usec]

\* Microseconds as milliseconds, to the nearest, a half down.
Millis(usec) == (usec \div 1000) + (IF usec % 1000 > 500 THEN 1 ELSE 0)

Subtrack(x, y) ==
    /\ from' = x
    /\ to' = y
    /\ \/ Later(x, y) /\ tim' = -1 /\ UNCHANGED diff
       \/ /\ ~Later(x, y)
          /\ diff' = Rel(x, y)
          /\ tim' = Millis(diff'.usec) + 1000 * diff'.sec

TimeNext == \E x, y \in Instants : Subtrack(x, y)

TimeSpec == TimeInit /\ [][TimeNext]_timeVars

-----------------------------------------------------------------------------
Micros(t) == 1000000 * t.sec + t.usec

\* What is returned is never less than the time that has passed, rounded, so that
\* nobody who waits by it waits too long: exact as long as the microseconds of y are
\* not below those of x, and otherwise too long by twice what they are below, which
\* may be nearly two seconds.  diff says the same, but then not as a timeval: its
\* microseconds reach a million.  A later x gives -1.
ElapsedNeverShort ==
    IF Later(from, to) THEN tim = -1
    ELSE LET elapsed == Micros(to) - Micros(from)
             below == IF to.usec < from.usec THEN from.usec - to.usec ELSE 0
         IN /\ Micros(diff) = elapsed + 2 * below
            /\ tim = Millis(elapsed + 2 * below)
            /\ tim >= Millis(elapsed)
            /\ diff.usec >= 1000000 <=> below > 0
=============================================================================
