----------------------------- MODULE DurableIndex -----------------------------
(***************************************************************************)
(* What a search index with an in-memory write buffer promises about its   *)
(* documents: readers see the newest version added, a save makes what they *)
(* see durable, a crash or a reload takes them to what is durable, and a   *)
(* save that fails takes them back to what they had before it.             *)
(***************************************************************************)
EXTENDS Naturals

CONSTANTS Doc, MaxVer

VARIABLES visible,  \* the version of each document readers see (0: none)
          loaded,   \* the version of each document readers have of what was saved
          durable,  \* the version of each document a restart brings back
          failures  \* operations that failed

vars == <<visible, loaded, durable, failures>>

Contents == [Doc -> 0..MaxVer]

TypeOK ==
  /\ visible \in Contents /\ loaded \in Contents /\ durable \in Contents
  /\ failures \in Nat

Init ==
  /\ visible = [d \in Doc |-> 0] /\ loaded = visible /\ durable = visible
  /\ failures = 0

\* a newer version of a document replaces the one readers see
Add == \E d \in Doc, v \in 1..MaxVer :
  /\ v > visible[d]
  /\ visible' = [visible EXCEPT ![d] = v]
  /\ UNCHANGED <<loaded, durable, failures>>

\* a removal takes back what has not been saved
Remove == \E d \in Doc :
  /\ visible' = [visible EXCEPT ![d] = loaded[d]]
  /\ UNCHANGED <<loaded, durable, failures>>

\* the versions in c, and for the documents that are new what readers see
With(c, new) == [d \in Doc |-> IF d \in new THEN visible[d] ELSE c[d]]

\* a save has everything that readers see and had not loaded, at least
Saves == {new \in SUBSET Doc : \A d \in Doc \ new : visible[d] = loaded[d]}

Save == \E new \in Saves :
  /\ durable' = With(durable, new) /\ loaded' = With(loaded, new)
  /\ UNCHANGED <<visible, failures>>

\* a save that fails may be durable all the same
FailedSave == \E new \in Saves \cup {{}} :
  /\ failures' = failures + 1
  /\ durable' = With(durable, new)
  /\ visible' = loaded
  /\ UNCHANGED loaded

\* another operation fails
Failure == failures' = failures + 1 /\ UNCHANGED <<visible, loaded, durable>>

\* a crash or a reload
Revert ==
  /\ visible' = durable /\ loaded' = durable
  /\ UNCHANGED <<durable, failures>>

Next == Add \/ Remove \/ Save \/ FailedSave \/ Failure \/ Revert

Spec == Init /\ [][Next]_vars
===============================================================================
