--------------------------- MODULE MCProcurement ---------------------------
(***************************************************************************)
(* Instances of Procurement for TLC: the employees of one building.        *)
(***************************************************************************)
EXTENDS Procurement, TLC

CONSTANTS ann, max, mia, pat, adm, tower

Person(roles, buildings) == [active |-> TRUE, roles |-> roles, buildings |-> buildings]

\* ann applies, max manages the building, pat buys and keeps the store.
MCStaff ==
    ann :> Person({"APPLICANT"}, {tower}) @@
    max :> Person({"BUILDING_MANAGER"}, {tower}) @@
    pat :> Person({"PURCHASER", "WAREHOUSE_MANAGER"}, {})

\* Two people: ann has every role but the manager's.
MCTwoPeople ==
    ann :> Person({"APPLICANT", "PURCHASER", "WAREHOUSE_MANAGER", "ADMIN"}, {tower}) @@
    max :> Person({"BUILDING_MANAGER"}, {tower})

\* mia manages the building as well: a resubmission may change the reviewer.
MCTwoManagers == mia :> Person({"BUILDING_MANAGER"}, {tower}) @@ MCStaff

\* adm administers the employee tables.
MCStaffWithAdmin == adm :> Person({"ADMIN"}, {}) @@ MCStaff

\* pat administers the employee tables too.
MCTwoManagersAndAdmin ==
    pat :> Person({"PURCHASER", "WAREHOUSE_MANAGER", "ADMIN"}, {}) @@ MCTwoManagers

\* An administrator may take an account's roles away or disable it.
MCStaffChanges == {Person({}, {}), [active |-> FALSE, roles |-> {"ADMIN"}, buildings |-> {}]}

MCRolesLost == {Person({}, {})}

Symmetry == Permutations(Sessions)
=============================================================================
