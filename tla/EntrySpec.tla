------------------------------ MODULE EntrySpec ------------------------------
(***************************************************************************)
(* What a name prefix entry promises: a FIB entry or none, a bag of PIT    *)
(* entries, Measurements, and the right answer to every call.  The tables  *)
(* built on it rely on that and on nothing else.  Each step names the call *)
(* that it answers, with its arguments, so that no call can do what only   *)
(* another one may.                                                        *)
(***************************************************************************)
EXTENDS Integers

CONSTANTS
  EntryObj, Fib, Pit, Measurements,  \* the objects
  Null                               \* the null pointer

VARIABLES
  exists, children, fib, pending, measurements,
  call,   \* the last call, with its arguments
  answer, \* what it returned; TRUE if it returns nothing
  turn    \* flips with every call, so that no call passes for a stutter

specVars == <<exists, children, fib, pending, measurements, call, answer, turn>>

\* The call c returns a.
Returns(c, a) == call' = c /\ answer' = a /\ turn' = 1 - turn

NoPending == [p \in Pit |-> 0]

SpecInit ==
  /\ exists = {}
  /\ children = [e \in EntryObj |-> {}]
  /\ fib = [e \in EntryObj |-> Null]
  /\ pending = [e \in EntryObj |-> NoPending]
  /\ measurements = [e \in EntryObj |-> Null]
  /\ call = <<>> /\ answer = TRUE /\ turn = 0

\* What a new entry has for Measurements is left open.
New(e) ==
  /\ e \notin exists
  /\ exists' = exists \cup {e}
  /\ children' = [children EXCEPT ![e] = {}]
  /\ fib' = [fib EXCEPT ![e] = Null]
  /\ pending' = [pending EXCEPT ![e] = NoPending]
  /\ \E g \in Measurements \cup {Null} :
       measurements' = [measurements EXCEPT ![e] = g]
  /\ Returns(<<"Entry", e>>, TRUE)

\* Only an entry that is empty goes.
Remove(e) ==
  /\ e \in exists
  /\ children[e] = {} /\ fib[e] = Null /\ pending[e] = NoPending
  /\ measurements[e] = Null
  /\ exists' = exists \ {e}
  /\ children' = [d \in EntryObj |-> children[d] \ {e}]
  /\ Returns(<<"eraseEntryIfEmpty", e>>, TRUE)
  /\ UNCHANGED <<fib, pending, measurements>>

\* The hash and the node of an entry do not show.
Label(e) ==
  /\ e \in exists
  /\ Returns(<<"setHash", e>>, TRUE) \/ Returns(<<"setNode", e>>, TRUE)
  /\ UNCHANGED <<exists, children, fib, pending, measurements>>

Adopt(e, d) ==
  /\ {e, d} \subseteq exists
  /\ children' = [children EXCEPT ![e] = @ \cup {d}]
  /\ Returns(<<"setParent", d, e>>, TRUE)
  /\ UNCHANGED <<exists, fib, pending, measurements>>

SetFib(e, f) ==
  /\ e \in exists
  /\ fib' = [fib EXCEPT ![e] = f]
  /\ Returns(<<"setFibEntry", e, f>>, TRUE)
  /\ UNCHANGED <<exists, children, pending, measurements>>

DeleteFib(e, f) ==
  /\ e \in exists
  /\ fib' = [fib EXCEPT ![e] = IF @ = f THEN Null ELSE @]
  /\ Returns(<<"deleteFibEntry", e, f>>, fib[e] = f)
  /\ UNCHANGED <<exists, children, pending, measurements>>

Put(e, p) ==
  /\ e \in exists
  /\ pending' = [pending EXCEPT ![e][p] = @ + 1]
  /\ Returns(<<"insertPitEntry", e, p>>, TRUE)
  /\ UNCHANGED <<exists, children, fib, measurements>>

\* One occurrence of p is taken out, or the call fails.
Take(e, p) ==
  /\ e \in exists
  /\ pending' = [pending EXCEPT ![e][p] = IF @ > 0 THEN @ - 1 ELSE 0]
  /\ Returns(<<"deletePitEntry", e, p>>, pending[e][p] > 0)
  /\ UNCHANGED <<exists, children, fib, measurements>>

Measure(e, g) ==
  /\ e \in exists
  /\ measurements' = [measurements EXCEPT ![e] = g]
  /\ Returns(<<"setMeasurementsEntry", e, g>>, TRUE)
  /\ UNCHANGED <<exists, children, fib, pending>>

SpecNext ==
  \E e \in EntryObj :
    \/ New(e) \/ Remove(e) \/ Label(e)
    \/ \E d \in EntryObj : Adopt(e, d)
    \/ \E f \in Fib : SetFib(e, f) \/ DeleteFib(e, f)
    \/ \E p \in Pit : Put(e, p) \/ Take(e, p)
    \/ \E g \in Measurements \cup {Null} : Measure(e, g)

Spec == SpecInit /\ [][SpecNext]_specVars

=============================================================================
