------------------------------- MODULE People -------------------------------
(***************************************************************************)
(* The people entries cite: employees who teach (handlers/                 *)
(* teaching_directory.go, migrations/0300, 0303) and mentors of partners   *)
(* (handlers/directories.go, migrations/0004, 0403).  Every operation is   *)
(* one transaction that ends with one statement on one row.  A name stands *)
(* for the whole card of a mentor, a profile for that of an employee.      *)
(***************************************************************************)
EXTENDS Agreements

CONSTANTS Members,        \* employees
          Mentors, Names, \* mentors and the names they may have
          Profiles, Qualified,   \* profiles; those with a year of experience and a paper
          MaxWrites       \* bound on the writes to the two directories

ASSUME PeopleAssumption ==
  /\ Members \cap Mentors = {}
  /\ Qualified \subseteq Profiles
  /\ MaxWrites \in Nat

VARIABLES staff,          \* the employees on file: member -> profile
          mentors,        \* the mentors on file: mentor -> card
          writes          \* writes so far, bounded by MaxWrites

peopleVars == <<staff, mentors, writes>>

Status == {"confirmed", "unconfirmed_by_admin"}

Employee ==
  [profile : Profiles, status : Status, archived : BOOLEAN,
   partners : SUBSET Partners, by : {"admin", "hr"}]

MentorCard == [partner : Partners, name : Names, archived : BOOLEAN]

With(f, x, v) == [y \in DOMAIN f \cup {x} |-> IF y = x THEN v ELSE f[y]]
Without(f, x) == [y \in DOMAIN f \ {x} |-> f[y]]

Counted == writes < MaxWrites /\ writes' = writes + 1

(* Only an administrator confirms, and only a qualified profile; employees *)
(* are linked to universities and colleges.                                *)
MaySaveStaff(by, profile, status, ps) ==
  /\ status = "confirmed" => by = "admin" /\ profile \in Qualified
  /\ Schools(ps) = {}

CreateStaffMember(m, by, profile, status, ps) ==
  /\ Counted
  /\ m \notin DOMAIN staff
  /\ MaySaveStaff(by, profile, status, ps)
  /\ staff' = With(staff, m, [profile |-> profile, status |-> status,
                              archived |-> FALSE, partners |-> ps, by |-> by])
  /\ UNCHANGED mentors

(* The request replaces the status with the rest; links it does not name   *)
(* stay.                                                                   *)
UpdateStaffMember(m, by, profile, status, ps) ==
  /\ Counted
  /\ m \in DOMAIN staff /\ ~staff[m].archived
  /\ MaySaveStaff(by, profile, status, ps)
  /\ staff' = With(staff, m, [profile |-> profile, status |-> status,
                              archived |-> FALSE, partners |-> ps, by |-> by])
  /\ UNCHANGED mentors

(* used: an entry is linked to the employee.                               *)
DeleteStaffMember(m, used) ==
  /\ Counted
  /\ m \in DOMAIN staff /\ ~staff[m].archived
  /\ staff' = IF used THEN [staff EXCEPT ![m].archived = TRUE] ELSE Without(staff, m)
  /\ UNCHANGED mentors

(* Names are unique among the mentors of a partner that are not archived.  *)
NameIsFree(m, p, name) ==
  \A n \in DOMAIN mentors \ {m} :
    ~mentors[n].archived /\ mentors[n].partner = p => mentors[n].name # name

CreateMentor(m, p, name) ==
  /\ Counted
  /\ m \notin DOMAIN mentors
  /\ NameIsFree(m, p, name)
  /\ mentors' = With(mentors, m, [partner |-> p, name |-> name, archived |-> FALSE])
  /\ UNCHANGED staff

UpdateMentor(m, name) ==
  /\ Counted
  /\ m \in DOMAIN mentors /\ ~mentors[m].archived
  /\ NameIsFree(m, mentors[m].partner, name)
  /\ mentors' = [mentors EXCEPT ![m].name = name]
  /\ UNCHANGED staff

DeleteMentor(m, used) ==
  /\ Counted
  /\ m \in DOMAIN mentors /\ ~mentors[m].archived
  /\ mentors' = IF used THEN [mentors EXCEPT ![m].archived = TRUE] ELSE Without(mentors, m)
  /\ UNCHANGED staff
=============================================================================
