---------------------------- MODULE AtomicIndex ----------------------------
(***************************************************************************)
(* What an index promises, with no log, no lock and no segments: one       *)
(* working set on which every operation takes effect at once, the growing  *)
(* sequence of versions published from it, and the version that searches   *)
(* see.  Publishing takes the whole working set; searches move to the      *)
(* newest version at once, or to one fetched earlier that arrives late; a  *)
(* crash goes back to the last version.  TantivyIndex implements this.     *)
(***************************************************************************)
EXTENDS Naturals, Sequences

CONSTANTS Doc,   \* documents: records with a field "key"
          Keys   \* what a delete may name

VARIABLES working,   \* the set a publication would make durable now
          versions,  \* every set published so far; the last one is durable
          shown,     \* index in versions of the one searches see
  coming     \* index of one on its way to the searches, or 0

vars == <<working, versions, shown, coming>>

Init == /\ working = {}
        /\ versions = << {} >>
        /\ shown = 1
        /\ coming = 0

Add(d) == /\ working' = working \cup {d}
          /\ UNCHANGED <<versions, shown, coming>>

\* A delete removes what is there now and says nothing of later additions.
Delete(k) == /\ working' = {d \in working : d.key # k}
             /\ UNCHANGED <<versions, shown, coming>>

Clear == /\ working' = {}
         /\ UNCHANGED <<versions, shown, coming>>

Publish == /\ versions' = Append(versions, working)
           /\ UNCHANGED <<working, shown, coming>>

Refresh == /\ shown' = Len(versions)
           /\ UNCHANGED <<working, versions, coming>>

\* The newest version sets out, and arrives whatever was published since.
Fetch == /\ coming = 0
         /\ coming' = Len(versions)
         /\ UNCHANGED <<working, versions, shown>>

Arrive == /\ coming # 0
          /\ shown' = coming /\ coming' = 0
          /\ UNCHANGED <<working, versions>>

Crash == /\ working' = versions[Len(versions)]
         /\ shown' = Len(versions) /\ coming' = 0
         /\ UNCHANGED versions

Next == \/ \E d \in Doc : Add(d)
        \/ \E k \in Keys : Delete(k)
        \/ Clear
        \/ Publish
        \/ Refresh
        \/ Fetch
        \/ Arrive
        \/ Crash

Spec == Init /\ [][Next]_vars
=============================================================================
