---------------------------- MODULE ImportResolve ----------------------------
(***************************************************************************)
(* What one import file asks for, given what the database held when it was *)
(* read: the plans for universities, managers and instructors that the     *)
(* preview counts and the run writes.                                      *)
(*                                                                         *)
(* A file is a sequence of canonical rows.  Codes and addresses are the    *)
(* keys the code compares (upper- and lower-cased); an employee is named   *)
(* by the address of their account, which is unique and never changes.     *)
(* A cell that was left blank is None.                                     *)
(***************************************************************************)
EXTENDS Naturals, FiniteSets, Sequences, SequencesExt

CONSTANTS
  None,
  ValidEmails,    \* the addresses isValidEmail accepts
  HasDefaultZone  \* whether the import states a default timezone

ASSUME ResolveAssumption ==
  /\ None \notin ValidEmails
  /\ HasDefaultZone \in BOOLEAN

\* x ??= y
Or(x, y) == IF x # None THEN x ELSE y

\* filter: the members of s that are in A, in order.
Among(s, A) ==
  LET upTo[n \in 0..Len(s)] ==
        IF n = 0 THEN <<>>
        ELSE IF s[n] \in A THEN Append(upTo[n - 1], s[n]) ELSE upTo[n - 1]
  IN upTo[Len(s)]

-----------------------------------------------------------------------------
(* What a row says of a person.  The status cell is the instructor's.      *)

(* A slip: the row's one status cell is fed to the manager as well. *)
ManagerOfWithStatus(row) ==
  [kind |-> "MANAGER", uni |-> row.uni, code |-> row.mcode,
   email |-> row.memail, name |-> row.mname, status |-> row.status]

ManagerOf(row) ==
  [kind |-> "MANAGER", uni |-> row.uni, code |-> row.mcode,
   email |-> row.memail, name |-> row.mname, status |-> None]

InstructorOf(row) ==
  [kind |-> "INSTRUCTOR", uni |-> row.uni, code |-> row.icode,
   email |-> row.iemail, name |-> row.iname, status |-> row.status]

Names(c) == c.code # None \/ c.email # None \/ c.name # None

-----------------------------------------------------------------------------
(* One person.  snap.profiles holds the universities of the file only.     *)

ByCode(c, snap) ==
  {x \in DOMAIN snap.profiles :
     /\ c.code # None
     /\ snap.profiles[x].kind = c.kind
     /\ snap.profiles[x].uni = c.uni
     /\ snap.profiles[x].code = c.code}

ByUser(c, snap) ==
  {x \in {c.email} \cap DOMAIN snap.users \cap DOMAIN snap.profiles :
     snap.profiles[x].kind = c.kind}

Existing(c, snap) ==
  IF ByCode(c, snap) # {} THEN ByCode(c, snap) ELSE ByUser(c, snap)

\* CROSS_TENANT_MAPPING_ERROR and ROLE_CONFLICT.
AccountRefused(c, snap) ==
  /\ c.email \in DOMAIN snap.users
  /\ \/ c.uni \in DOMAIN snap.universities /\ snap.users[c.email].uni # c.uni
     \/ snap.users[c.email].kind # c.kind

Refused(c, snap) ==
  \/ c.status = "unreadable"
  \/ c.email # None /\ c.email \notin ValidEmails
  \/ AccountRefused(c, snap)
  \/ \E x \in ByCode(c, snap), y \in ByUser(c, snap) : x # y
  \/ Existing(c, snap) = {} /\ (c.email = None \/ c.name = None)

\* Name and status are compared with the account of the row's address only.
WouldChange(c, snap) ==
  LET account == {snap.users[x] : x \in {c.email} \cap DOMAIN snap.users}
  IN \/ c.name # None /\ \A u \in account : u.name # c.name
     \/ c.code # None /\ \A x \in Existing(c, snap) : snap.profiles[x].code # c.code
     \/ c.status # None /\ \E u \in account : u.status # c.status

PersonPlan(c, lead, snap) ==
  LET known == Existing(c, snap)
  IN [kind |-> c.kind, uni |-> c.uni, code |-> c.code, email |-> c.email,
      name |-> c.name, status |-> c.status, lead |-> lead,
      id |-> IF known = {} THEN None ELSE CHOOSE x \in known : TRUE,
      action |-> IF known = {} THEN "create"
                 ELSE IF WouldChange(c, snap) THEN "update" ELSE "unchanged",
      keys |-> {}]

-----------------------------------------------------------------------------
(* Rows about one person become one plan, found by identity, then address, *)
(* then code.  What an earlier row stated stands.                          *)

KeysOf(p) ==
  << <<p.uni, "ID", p.id>>, <<p.uni, "EMAIL", p.email>>, <<p.uni, "CODE", p.code>> >>

NamesOf(p) == {k \in ToSet(KeysOf(p)) : k[3] # None}

Holding(plans, k) == {i \in DOMAIN plans : k \in plans[i].keys}

Absorb(plans, i, p) ==
  LET q == plans[i]
      codeIsFree == Holding(plans, <<p.uni, "CODE", p.code>>) \subseteq {i}
      unheld == {k \in NamesOf(p) : Holding(plans, k) = {}}
  IN [q EXCEPT !.name = Or(q.name, p.name),
               !.email = Or(q.email, p.email),
               !.code = IF codeIsFree THEN Or(q.code, p.code) ELSE q.code,
               !.lead = Or(q.lead, p.lead),
               !.status = Or(q.status, p.status),
               !.action = IF q.action = "unchanged" /\ p.action = "update"
                          THEN "update" ELSE q.action,
               !.keys = q.keys \cup unheld]

Merge(plans, p) ==
  LET first == SelectInSeq(KeysOf(p), LAMBDA k : Holding(plans, k) # {})
      i == CHOOSE i \in Holding(plans, KeysOf(p)[first]) : TRUE
  IN IF first = 0
     THEN Append(plans, [p EXCEPT !.keys = NamesOf(p)])
     ELSE [plans EXCEPT ![i] = Absorb(plans, i, p)]

-----------------------------------------------------------------------------
(* One row, and the whole file.                                            *)

UniversityRefused(plans, row, snap) ==
  LET zone == Or(row.zone, IF HasDefaultZone THEN "known" ELSE None)
  IN /\ \A i \in DOMAIN plans : plans[i].uni # row.uni
     /\ \/ zone = "unreadable"
        \/ /\ row.uni \notin DOMAIN snap.universities
           /\ row.uname = None \/ zone = None

AddUniversity(plans, row, snap) ==
  LET i == SelectInSeq(plans, LAMBDA u : u.uni = row.uni)
      known == row.uni \in DOMAIN snap.universities
      renamed == row.uname # None /\ known /\ snap.universities[row.uni] # row.uname
  IN IF i = 0
     THEN Append(plans,
            [uni |-> row.uni, name |-> row.uname, known |-> known,
             action |-> IF ~known THEN "create"
                        ELSE IF renamed THEN "update" ELSE "unchanged"])
     ELSE IF row.uname # None /\ plans[i].name = None
     THEN [plans EXCEPT ![i].name = row.uname,
                        ![i].action = IF renamed THEN "update" ELSE @]
     ELSE plans

\* The manager an instructor's row names is nowhere to be found here.
LeadRefused(managers, row, snap) ==
  /\ row.mcode # None
  /\ Holding(managers, <<row.uni, "CODE", row.mcode>>) = {}
  /\ ByCode(ManagerOf(row), snap) = {}
  /\ row.mcode \in snap.holders \/ (row.mname = None /\ row.memail = None)

AddManager(acc, row, snap) ==
  LET c == ManagerOf(row)
  IN IF ~Names(c) THEN acc
     ELSE IF Refused(c, snap) THEN [acc EXCEPT !.errors = @ + 1]
     ELSE [acc EXCEPT !.managers = Merge(@, PersonPlan(c, None, snap))]

AddInstructor(acc, row, snap) ==
  LET c == InstructorOf(row)
  IN IF ~Names(c) THEN acc
     ELSE IF Refused(c, snap) \/ LeadRefused(acc.managers, row, snap)
     THEN [acc EXCEPT !.errors = @ + 1]
     ELSE [acc EXCEPT !.instructors = Merge(@, PersonPlan(c, row.mcode, snap))]

AddRow(acc, row, snap) ==
  IF row.uni = None \/ UniversityRefused(acc.universities, row, snap)
  THEN [acc EXCEPT !.errors = @ + 1]
  ELSE AddInstructor(
         AddManager([acc EXCEPT !.universities = AddUniversity(@, row, snap)],
                    row, snap),
         row, snap)

NothingPlanned ==
  [universities |-> <<>>, managers |-> <<>>, instructors |-> <<>>, errors |-> 0]

Resolve(rows, snap) ==
  LET upTo[n \in 0..Len(rows)] ==
        IF n = 0 THEN NothingPlanned ELSE AddRow(upTo[n - 1], rows[n], snap)
  IN upTo[Len(rows)]

(***************************************************************************)
(* The three reads of loadSnapshot.                                        *)
(***************************************************************************)
UniversitiesRead(rows, universities) ==
  [u \in {row.uni : row \in ToSet(rows)} \cap DOMAIN universities |->
     universities[u].name]

UsersRead(rows, people) ==
  [x \in (UNION {{row.memail, row.iemail} : row \in ToSet(rows)}) \cap DOMAIN people |->
     people[x]]

ProfilesRead(universities, people) ==
  [x \in {y \in DOMAIN people : people[y].uni \in DOMAIN universities} |-> people[x]]

CodesHeld(people) ==
  {people[x].code : x \in {y \in DOMAIN people : people[y].kind = "MANAGER"}} \ {None}

=============================================================================
