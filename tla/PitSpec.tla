------------------------------ MODULE PitSpec ------------------------------
(***************************************************************************)
(* What the Pending Interest Table promises, without names that are        *)
(* stored, lists and erasures: a set of PIT entries, one of those whose    *)
(* Interests are similar, which only those who refer to them can remove.   *)
(***************************************************************************)
CONSTANTS
  Interest,    \* records with the fields name, selectors and guiders
  NoInterest,  \* of a PIT entry that does not exist
  PitEntry     \* pit::Entry objects

VARIABLES
  pending,   \* the PIT entries of the table
  interest,  \* Interest of each pit::Entry
  held       \* the PIT entries that clients refer to

specVars == <<pending, interest, held>>

Similar(x, y) == x.name = y.name /\ x.selectors = y.selectors

SpecInit ==
  /\ pending = {}
  /\ interest = [e \in PitEntry |-> NoInterest]
  /\ held = {}

\* A similar Interest that is pending stands for the new one.
SpecInsertExisting(x) ==
  /\ \E e \in pending : /\ Similar(interest[e], x)
                        /\ held' = held \cup {e}
  /\ UNCHANGED <<pending, interest>>

SpecInsertNew(x, e) ==
  /\ \A f \in pending : ~Similar(interest[f], x)
  /\ pending' = pending \cup {e}
  /\ interest' = [interest EXCEPT ![e] = x]
  /\ held' = held \cup {e}

\* Removing a PIT entry that has been removed before has no effect.
SpecRemove(e) ==
  /\ pending' = pending \ {e}
  /\ UNCHANGED <<interest, held>>

SpecDrop(e) ==
  /\ held' = held \ {e}
  /\ interest' = IF e \in pending THEN interest
                 ELSE [interest EXCEPT ![e] = NoInterest]
  /\ UNCHANGED pending

SpecNext ==
  \/ \E x \in Interest :
       \/ SpecInsertExisting(x)
       \/ \E e \in PitEntry \ (pending \cup held) : SpecInsertNew(x, e)
  \/ \E e \in held : SpecRemove(e) \/ SpecDrop(e)

PitSpec == SpecInit /\ [][SpecNext]_specVars

=============================================================================
