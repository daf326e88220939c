--------------------------- MODULE PartnerStructure ---------------------------
(***************************************************************************)
(* The academic structure of the partners: the hierarchy of their units,   *)
(* the groups of students and the academic periods                         *)
(* (handlers/partner_structure.go, handlers/academic_periods.go and the    *)
(* triggers of migrations/0201_partner_academic_structure.sql).            *)
(*                                                                         *)
(* The hierarchy is guarded by a trigger that walks up from the new        *)
(* parent.  It sees what is committed and locks nothing, so the creation   *)
(* or the move of a unit is two steps here: the statement with its         *)
(* trigger, and the commit.                                                *)
(***************************************************************************)
EXTENDS EducationDirectory

CONSTANTS
    Units,          \* the rows of org_units
    Movers,         \* the people who write units at the same time
    Groups,         \* the rows of academic_groups
    Titles,         \* the titles of academic periods
    MaxLevels       \* the levels of the hierarchy: 10 in the code

ASSUME StructureAssumption ==
    /\ MaxLevels \in Nat \ {0}
    /\ "root" \notin Units /\ "none" \notin Partners

VARIABLES
    units,          \* org_units: the partner and the parent
    moves,          \* the open transactions that create or move a unit
    groups,         \* academic_groups
    periods,        \* partner_academic_periods: a partner and a title
    suspects        \* observer: units moved with a subtree or at the same time

structureVars == <<units, moves, groups, periods, suspects>>

UnitRow == [partner: Partners, parent: Units \cup {"root"}]

(* The rows of academic_groups, as normalizeAcademicGroup lets them pass:    *)
(* the level of the programme and whether the list of the partner has it.   *)
GroupRow == [partner: Partners, unit: Units, level: {"vo", "spo"}, code: {"match", "other"}]

NoUnit == [partner |-> "none", parent |-> "root"]
NoMove == [unit |-> "none", partner |-> "none", parent |-> "root"]
NoGroup == [partner |-> "none", unit |-> "none", level |-> "none", code |-> "none"]

Present == {u \in Units : units[u] # NoUnit}
Moving == {m \in Movers : moves[m] # NoMove}

StructureTypeOK ==
    /\ units \in [Units -> UnitRow \cup {NoUnit}]
    /\ moves \in [Movers -> [unit: Units, partner: Partners, parent: Units \cup {"root"}] \cup {NoMove}]
    /\ groups \in [Groups -> GroupRow \cup {NoGroup}]
    /\ periods \subseteq Partners \X Titles
    /\ suspects \subseteq Units

------------------------------------------------------------------------------
(* A unit of a tree and the units above it; the walk stops after MaxLevels *)
(* + 1 rows.                                                               *)
LineIn(tree, u) ==
    LET up[n \in 0 .. MaxLevels] ==
          IF n = 0 THEN u
          ELSE IF up[n - 1] \in Units THEN tree[up[n - 1]].parent ELSE "root"
    IN  up

Line(u) == LineIn(units, u)

Above(u) == {n \in 0 .. MaxLevels : Line(u)[n] \in Units}

(* Mutant: the limit counts the rows above the parent only. *)
HierarchyAllowsOneMore(u, p, parent) ==
    \/ parent = "root"
    \/ /\ parent \in Present
       /\ \A n \in Above(parent) : /\ units[Line(parent)[n]].partner = p
                                   /\ Line(parent)[n] # u
       /\ Cardinality(Above(parent)) <= MaxLevels

(* validate_org_unit_hierarchy: the parent exists, belongs to the partner,  *)
(* is not below the unit, and has fewer than MaxLevels rows of its own.     *)
HierarchyAllows(u, p, parent) ==
    \/ parent = "root"
    \/ /\ parent \in Present
       /\ \A n \in Above(parent) : /\ units[Line(parent)[n]].partner = p
                                   /\ Line(parent)[n] # u
       /\ Cardinality(Above(parent)) < MaxLevels

(* ListOrgUnits: the tree from its roots down to MaxLevels. *)
Shown(u) == \E n \in Above(u) : n < MaxLevels /\ units[Line(u)[n]].parent = "root"

Children(u) == {v \in Present : units[v].parent = u}

(* The statement of CreateOrgUnit: a new row, seen by nobody else yet. *)
OpenUnit(m, u, p, parent) ==
    /\ Counted("mover")
    /\ moves[m] = NoMove
    /\ u \notin Present /\ \A k \in Moving : moves[k].unit # u
    /\ p \in Joined
    /\ HierarchyAllows(u, p, parent)
    /\ moves' = [moves EXCEPT ![m] = [unit |-> u, partner |-> p, parent |-> parent]]
    /\ suspects' = IF Moving = {} THEN suspects
                   ELSE suspects \cup {u} \cup {moves[k].unit : k \in Moving}
    /\ UNCHANGED <<units, groups, periods>>

(* The statement of UpdateOrgUnit: it locks its row and walks the parents. *)
OpenMove(m, u, parent) ==
    /\ Counted("mover")
    /\ moves[m] = NoMove
    /\ u \in Present /\ \A k \in Moving : moves[k].unit # u
    /\ HierarchyAllows(u, units[u].partner, parent)
    /\ moves' = [moves EXCEPT ![m] = [unit |-> u, partner |-> units[u].partner, parent |-> parent]]
    /\ suspects' = (IF Moving = {} THEN suspects
                    ELSE suspects \cup {u} \cup {moves[k].unit : k \in Moving})
                   \cup (IF Children(u) = {} THEN {} ELSE {u})
    /\ UNCHANGED <<units, groups, periods>>

CloseUnit(m, committed) ==
    /\ moves[m] # NoMove
    /\ units' = IF committed
                THEN [units EXCEPT ![moves[m].unit] = [partner |-> moves[m].partner,
                                                       parent |-> moves[m].parent]]
                ELSE units
    /\ moves' = [moves EXCEPT ![m] = NoMove]
    /\ UNCHANGED <<groups, periods, suspects>>

(* DeleteOrgUnit: the keys of the child units and the groups restrict it,   *)
(* and it waits for the transactions that hold the row or its key.          *)
DeleteUnit(u) ==
    /\ Counted("mover")
    /\ u \in Present
    /\ \A m \in Moving : moves[m].unit # u /\ moves[m].parent # u
    /\ Children(u) = {}
    /\ \A g \in Groups : groups[g].unit # u
    /\ units' = [units EXCEPT ![u] = NoUnit]
    /\ suspects' = suspects \ {u}
    /\ UNCHANGED <<moves, groups, periods>>

------------------------------------------------------------------------------
(* validateGroupPartner and the trigger of the same rule: the level fits    *)
(* the kind, and a known list of programmes has the code.                   *)
GroupFits(p, level, code) ==
    LET known == directory[partners[p].org].codes
    IN  /\ partners[p].kind # "school"
        /\ level = "spo" <=> partners[p].kind = "kolledj"
        /\ known # "none" => code = known

CreateAcademicGroup(g, p, u, level, code) ==
    /\ Counted("dean")
    /\ groups[g] = NoGroup
    /\ p \in Joined
    /\ u \in Present /\ units[u].partner = p
    /\ GroupFits(p, level, code)
    /\ groups' = [groups EXCEPT ![g] = [partner |-> p, unit |-> u, level |-> level, code |-> code]]
    /\ UNCHANGED <<units, moves, periods, suspects>>

UpdateAcademicGroup(g, u, level, code) ==
    /\ Counted("dean")
    /\ groups[g] # NoGroup
    /\ u \in Present /\ units[u].partner = groups[g].partner
    /\ GroupFits(groups[g].partner, level, code)
    /\ groups' = [groups EXCEPT ![g].unit = u, ![g].level = level, ![g].code = code]
    /\ UNCHANGED <<units, moves, periods, suspects>>

DeleteAcademicGroup(g) ==
    /\ Counted("dean")
    /\ groups[g] # NoGroup
    /\ groups' = [groups EXCEPT ![g] = NoGroup]
    /\ UNCHANGED <<units, moves, periods, suspects>>

(* The academic periods: of a university or a college, one of a title. *)
CreateAcademicPeriod(p, t) ==
    /\ Counted("dean")
    /\ p \in Joined /\ partners[p].kind \in {"vuz", "kolledj"}
    /\ <<p, t>> \notin periods
    /\ periods' = periods \cup {<<p, t>>}
    /\ UNCHANGED <<units, moves, groups, suspects>>

UpdateAcademicPeriod(p, t, title) ==
    /\ Counted("dean")
    /\ <<p, t>> \in periods /\ <<p, title>> \notin periods
    /\ periods' = (periods \ {<<p, t>>}) \cup {<<p, title>>}
    /\ UNCHANGED <<units, moves, groups, suspects>>

DeleteAcademicPeriod(p, t) ==
    /\ Counted("dean")
    /\ <<p, t>> \in periods
    /\ periods' = periods \ {<<p, t>>}
    /\ UNCHANGED <<units, moves, groups, suspects>>

StructureNext ==
    \/ \E m \in Movers, u \in Units, parent \in Units \cup {"root"} :
          OpenMove(m, u, parent) \/ \E p \in Partners : OpenUnit(m, u, p, parent)
    \/ \E m \in Movers, c \in BOOLEAN : CloseUnit(m, c) /\ UNCHANGED <<busy, writes>>
    \/ \E u \in Units : DeleteUnit(u)
    \/ \E g \in Groups, u \in Units, l \in {"vo", "spo"}, c \in {"match", "other"} :
          \/ UpdateAcademicGroup(g, u, l, c)
          \/ \E p \in Partners : CreateAcademicGroup(g, p, u, l, c)
    \/ \E g \in Groups : DeleteAcademicGroup(g)
    \/ \E p \in Partners, t \in Titles :
          \/ CreateAcademicPeriod(p, t) \/ DeleteAcademicPeriod(p, t)
          \/ \E title \in Titles : UpdateAcademicPeriod(p, t, title)

------------------------------------------------------------------------------
(* A behaviour starts in one of the given situations, with the people and   *)
(* the automata it names; the others stay away, which bounds the model.     *)
CONSTANT Starts

\* A tree as nobody writing at the same time leaves it: a unit is one level below its
\* parent, which has the same partner, and no level is too deep.
IsTree(tree) ==
    \E level \in [Units -> 1 .. MaxLevels] :
       \A u \in Units : tree[u].parent # "root" =>
          LET above == tree[u].parent
          IN  /\ tree[above] # NoUnit /\ tree[above].partner = tree[u].partner
              /\ level[u] = level[above] + 1

\* What the earlier life of the data has left behind: partners of known organisations.
ASSUME StartsAssumption ==
    \A s \in Starts :
       /\ s.directory \in [Orgs -> OrgRecord]
       /\ s.partners \in [Partners -> [org: Orgs, kind: Kinds] \cup {NoPartner}]
       /\ \A p \in Partners : s.partners[p] # NoPartner
             => s.partners[p].kind = s.directory[s.partners[p].org].kind
       /\ s.companies \in [Inns -> CompanyRow \cup {NoCompany}]
       /\ s.units \in [Units -> UnitRow \cup {NoUnit}] /\ IsTree(s.units)
       /\ s.writes \in 0 .. MaxWrites

vars == <<allCompanyVars, directoryVars, structureVars, busy, writes>>

Init ==
    \E s \in Starts :
       /\ companies = s.companies
       /\ directory = s.directory
       /\ partners = s.partners
       /\ units = s.units
       /\ busy = s.busy
       /\ writes = s.writes
       /\ deals = [d \in Deals |-> NoDeal]
       /\ writing = [w \in Writers |-> NoWrite]
       /\ edit = NoEdit /\ joining = NoJoin
       /\ syncing = FALSE /\ syncRun = "none"
       /\ search = Idle /\ collector = Idle
       /\ confirmed = [o \in Orgs |-> Identity(s.directory[o])]
       /\ author = [o \in Orgs |-> "earlier"]
       /\ retyped = {}
       /\ moves = [m \in Movers |-> NoMove]
       /\ groups = [g \in Groups |-> NoGroup]
       /\ periods = {} /\ suspects = {}

Next ==
    \/ CompaniesNext /\ UNCHANGED <<directoryVars, structureVars>>
    \/ DirectoryNext /\ UNCHANGED <<allCompanyVars, structureVars>>
    \/ StructureNext /\ UNCHANGED <<allCompanyVars, directoryVars>>

Spec == Init /\ [][Next]_vars

TypeOK == CompaniesTypeOK /\ DirectoryTypeOK /\ StructureTypeOK

------------------------------------------------------------------------------
(* A unit that the list does not show, being deeper than the limit or on a  *)
(* cycle, is there for one of two causes that the trigger does not see: a   *)
(* unit of its line was moved with its subtree, or was written while        *)
(* another unit was (validate_org_unit_hierarchy, ListOrgUnits).            *)
HiddenUnitsHaveACause ==
    \A u \in Present : Shown(u) \/ \E n \in Above(u) : Line(u)[n] \in suspects

(* Every child unit and every group has its unit, of the same partner, also *)
(* when one unit is deleted while another is being put under it             *)
(* (DeleteOrgUnit, CreateOrgUnit, CreateAcademicGroup).                     *)
NothingDangles ==
    /\ \A u \in Present : units[u].parent # "root" =>
          units[u].parent \in Present /\ units[units[u].parent].partner = units[u].partner
    /\ \A g \in Groups : groups[g] # NoGroup =>
          groups[g].unit \in Present /\ units[groups[g].unit].partner = groups[g].partner

\* The tree is as its triggers and keys promise, but for the two named causes.
HierarchyIsExplained == HiddenUnitsHaveACause /\ NothingDangles

(* The plan of the package says of the hierarchy of units that it is        *)
(* limited to 10 levels and protected from cycles                           *)
(* (docs/TZ_4_4_PARALLEL_PLAN.md).                                          *)
HierarchyIsSound == \A u \in Present : Shown(u)
==============================================================================
