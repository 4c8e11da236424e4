------------------------- MODULE SelectorPromotion -------------------------
(***************************************************************************)
(* Versions of one selector key (gst/selector_promotion.py): operators     *)
(* promote observed selectors, each as a new version.  A download run      *)
(* loads the active versions once and clicks by the newest                 *)
(* (portal/selectors/registry.py).  Nothing deactivates a version.         *)
(***************************************************************************)
EXTENDS Integers

CONSTANTS
  Promotions   \* POST /gst/selectors/promote, each once

VARIABLES
  rows,     \* committed versions: {[version, by, active]}
  new,      \* a promotion's flushed row; its key and version are taken until it ends
  pc,
  found     \* the versions a promotion read

vars == <<rows, new, pc, found>>

None == [version |-> 0]

Rows == [version : Nat \ {0}, by : Promotions, active : BOOLEAN]

TypeOK ==
  /\ rows \subseteq Rows /\ new \in [Promotions -> Rows \cup {None}]
  /\ pc \in [Promotions -> {"idle", "read", "flushed", "over"}]
  /\ found \in [Promotions -> SUBSET Nat]

Init ==
  /\ rows = {} /\ new = [p \in Promotions |-> None]
  /\ pc = [p \in Promotions |-> "idle"] /\ found = [p \in Promotions |-> {}]

Goto(p, label) == pc' = [pc EXCEPT ![p] = label]

Newest(versions) == CHOOSE v \in versions : \A w \in versions : w <= v

\* The versions of the key, the inactive ones included.
ReadVersions(p) ==
  /\ pc[p] = "idle" /\ Goto(p, "read")
  /\ found' = [found EXCEPT ![p] = {r.version : r \in rows}]
  /\ UNCHANGED <<rows, new>>

NextVersion(p) == Newest(found[p] \cup {0}) + 1

\* Mutant of Taken: (key, version) is not unique.
NeverTaken(p) == FALSE
Taken(p) == NextVersion(p) \in {r.version : r \in rows}

\* The insert waits for another of the same version to end.
Insert(p, active) ==
  /\ pc[p] = "read"
  /\ \A q \in Promotions : new[q] = None \/ new[q].version # NextVersion(p)
  /\ IF Taken(p)
     THEN Goto(p, "over") /\ UNCHANGED new
     ELSE /\ new' = [new EXCEPT ![p] = [version |-> NextVersion(p), by |-> p, active |-> active]]
          /\ Goto(p, "flushed")
  /\ UNCHANGED <<rows, found>>

CommitRow(p) ==
  /\ pc[p] = "flushed" /\ Goto(p, "over")
  /\ rows' = rows \cup {new[p]} /\ new' = [new EXCEPT ![p] = None]
  /\ UNCHANGED found

\* The request fails, or the process ends.
RollBackRow(p) ==
  /\ pc[p] \in {"read", "flushed"} /\ Goto(p, "over")
  /\ new' = [new EXCEPT ![p] = None]
  /\ UNCHANGED <<rows, found>>

Next ==
  \E p \in Promotions :
    ReadVersions(p) \/ (\E active \in BOOLEAN : Insert(p, active)) \/ CommitRow(p) \/ RollBackRow(p)

Spec == Init /\ [][Next]_vars

-----------------------------------------------------------------------------
\* Properties.

\* A promotion that is acknowledged is the newest version, however promotions overlap: of two
\* that read the same versions, one fails.  Runs load it if it was promoted as active.
AcknowledgedIsNewest ==
  [][\A p \in Promotions : CommitRow(p) => \A r \in rows : r.version < new[p].version]_vars
=============================================================================
