---------------------------- MODULE ImportExecute ----------------------------
(***************************************************************************)
(* Writing a resolved import: universities, then managers, then            *)
(* instructors, then the primary managers.  People are created a chunk at  *)
(* a time, users and profiles in one transaction; a chunk that fails is    *)
(* retried person by person.                                               *)
(*                                                                         *)
(* A run may die anywhere and be started again from the file, any write    *)
(* may be lost to the database, and meanwhile administrators open          *)
(* universities and accounts of their own.  The unique and foreign keys    *)
(* of the schema are the conditions CanCreate and CanUpdate.               *)
(***************************************************************************)
EXTENDS ImportResolve

CONSTANTS
  Files,         \* the files that may be imported
  Databases,     \* what may be there before: [universities, people]
  Runs,          \* executions of executeImport that may overlap
  Chunk,         \* CHUNK
  Elsewhere,     \* accounts an administrator may open meanwhile: [at, person]
  MaxAttempts,   \* bound: executions in all
  MaxFaults,     \* bound: lost writes and dead processes
  MaxElsewhere   \* bound: accounts opened meanwhile

ASSUME ExecuteAssumption ==
  /\ Chunk \in Nat \ {0}
  /\ {MaxAttempts, MaxFaults, MaxElsewhere} \subseteq Nat

\* A file is a sequence of rows.
ASSUME FilesAssumption == \A f \in Files : f \in Seq(ToSet(f))

ManagerAt(x, u, ps) == x \in DOMAIN ps /\ ps[x].kind = "MANAGER" /\ ps[x].uni = u

\* Every column is there; (managerId, universityId) is a foreign key into the
\* managers, and so far whoever owns a university is one of its managers; the
\* address is never null, and a code is unique within its university.
ASSUME DatabasesAssumption ==
  \A db \in Databases :
    /\ \A u \in DOMAIN db.universities :
         LET o == db.universities[u]
         IN /\ {"name", "primary"} \subseteq DOMAIN o
            /\ o.primary # None => ManagerAt(o.primary, u, db.people)
    /\ \A x \in DOMAIN db.people :
         LET p == db.people[x]
         IN /\ {"kind", "uni", "name", "code", "status", "lead"} \subseteq DOMAIN p
            /\ p.lead # None => ManagerAt(p.lead, p.uni, db.people)
            /\ x # None
            /\ \A y \in DOMAIN db.people :
                 /\ p.code # None
                 /\ <<p.kind, p.uni, p.code>>
                      = <<db.people[y].kind, db.people[y].uni, db.people[y].code>>
                 => x = y

\* A row of the table is a record: its columns' values and nothing more.
ASSUME RecordsAssumption ==
  \A db \in Databases : \A x \in DOMAIN db.people :
    db.people[x] = [column \in DOMAIN db.people[x] |-> db.people[x][column]]

\* Whoever gets an account has an address.
ASSUME ElsewhereAssumption == \A a \in Elsewhere : a.email # None

VARIABLES
  file,
  universities,  \* code -> [name, primary]
  people,        \* address -> the user and the profile written with it
  run,           \* each execution: its place and its locals
  attempts, faults, elsewhere

vars == <<file, universities, people, run, attempts, faults, elsewhere>>

NoTally == [created |-> 0, updated |-> 0, skipped |-> 0, failed |-> 0]

\* loadSnapshot: the universities of the file, the users its rows name and the
\* profiles of those universities.
NothingRead == [universities |-> <<>>, users |-> <<>>, profiles |-> <<>>, holders |-> {}]

Idle ==
  [pc |-> "idle", snap |-> NothingRead, plan |-> NothingPlanned,
   todo |-> <<>>, creates |-> <<>>, retry |-> <<>>, updates |-> <<>>,
   linked |-> {}, leads |-> <<>>, heir |-> None, tally |-> NoTally]

\* f, and g where f has nothing.
With(f, g) ==
  [x \in DOMAIN f \cup DOMAIN g |-> IF x \in DOMAIN f THEN f[x] ELSE g[x]]

Init ==
  /\ file \in Files
  /\ \E db \in Databases : universities = db.universities /\ people = db.people
  /\ run = [r \in Runs |-> Idle]
  /\ attempts = 0 /\ faults = 0 /\ elsewhere = 0

(***************************************************************************)
(* A write either goes through or is lost to the database; Counted keeps   *)
(* what the outcome reports of it.                                         *)
(***************************************************************************)
Fault(lost) ==
  /\ lost => faults < MaxFaults
  /\ faults' = IF lost THEN faults + 1 ELSE faults

(* A slip: a chunk of people counts as one. *)
CountedOnce(tally, field, n) ==
  IF n = 0 THEN tally ELSE [tally EXCEPT ![field] = @ + 1]

Counted(tally, field, n) == [tally EXCEPT ![field] = @ + n]

\* prisma's createdAt, as the order of arrival: nobody is ever removed.
Arrival == Cardinality(DOMAIN people)

-----------------------------------------------------------------------------
(* executeImport: the reads of loadSnapshot, one await each, then Resolve. *)

Starts(r) ==
  /\ run[r].pc \in {"idle", "ended", "dead"}
  /\ attempts < MaxAttempts
  /\ attempts' = attempts + 1
  /\ run' = [run EXCEPT ![r] =
       [Idle EXCEPT !.pc = "users",
                    !.snap.universities = UniversitiesRead(file, universities)]]
  /\ UNCHANGED <<file, universities, people, faults, elsewhere>>

ReadsUsers(r) ==
  /\ run[r].pc = "users"
  /\ run' = [run EXCEPT ![r].pc = "profiles",
                           ![r].snap.users = UsersRead(file, people)]
  /\ UNCHANGED <<file, universities, people, attempts, faults, elsewhere>>

ReadsProfiles(r) ==
  /\ run[r].pc = "profiles"
  /\ LET snap == [run[r].snap EXCEPT
                    !.profiles = ProfilesRead(run[r].snap.universities, people),
                    !.holders = CodesHeld(people)]
         plan == Resolve(file, snap)
     IN run' = [run EXCEPT ![r] =
          [Idle EXCEPT !.pc = "universities", !.snap = snap, !.plan = plan,
                       !.todo = plan.universities]]
  /\ UNCHANGED <<file, universities, people, attempts, faults, elsewhere>>

-----------------------------------------------------------------------------
(* writeUniversities, one plan at a time.                                  *)

Opened(u, name) ==
  With(universities, [v \in {u} |-> [name |-> name, primary |-> None]])

WritesUniversity(r) ==
  /\ run[r].pc = "universities"
  /\ run[r].todo # <<>>
  /\ LET s == run[r]
         u == Head(s.todo)
         renames == u.known /\ u.action = "update" /\ u.name # None
         Outcome(written, linked, field) ==
           /\ universities' = written
           /\ run' = [run EXCEPT ![r] =
                [s EXCEPT !.todo = Tail(s.todo),
                          !.linked = IF linked THEN @ \cup {u.uni} ELSE @,
                          !.tally = Counted(s.tally, field, 1)]]
     IN \/ /\ u.known /\ ~renames /\ Fault(FALSE)
           /\ Outcome(universities, TRUE, "skipped")
        \/ /\ renames /\ Fault(FALSE)
           /\ Outcome([universities EXCEPT ![u.uni].name = u.name], TRUE, "updated")
        \/ /\ ~u.known /\ u.uni \notin DOMAIN universities /\ Fault(FALSE)
           /\ Outcome(Opened(u.uni, u.name), TRUE, "created")
        \/ /\ ~u.known /\ u.uni \in DOMAIN universities /\ Fault(FALSE)
           /\ Outcome(universities, FALSE, "failed")
        \/ /\ renames \/ ~u.known
           /\ Fault(TRUE)
           /\ Outcome(universities, u.known, "failed")
  /\ UNCHANGED <<file, people, attempts, elsewhere>>

-----------------------------------------------------------------------------
(* The manager map: code -> id for every university written or found.     *)
(* It is read before the managers and again before the instructors.        *)

(* A slip: the map is keyed without regard to the university. *)
LeadsReadAnywhere(linked) ==
  LET coded == {x \in DOMAIN people : /\ people[x].kind = "MANAGER"
                                      /\ people[x].code # None}
  IN [k \in linked \X {people[x].code : x \in coded} |->
        CHOOSE x \in coded : people[x].code = k[2]]

LeadsRead(linked) ==
  LET coded == {x \in DOMAIN people : /\ people[x].kind = "MANAGER"
                                      /\ people[x].uni \in linked
                                      /\ people[x].code # None}
      Key(x) == <<people[x].uni, people[x].code>>
  IN [k \in {Key(x) : x \in coded} |-> CHOOSE x \in coded : Key(x) = k]

Planned(plans, action) == Among(plans, {p \in ToSet(plans) : p.action = action})

StartsPeople(s, kind, plans) ==
  [s EXCEPT !.pc = kind,
            !.leads = With(LeadsRead(s.linked), @),
            !.creates = Planned(plans, "create"),
            !.updates = Planned(plans, "update"),
            !.tally = Counted(@, "skipped", Len(Planned(plans, "unchanged")))]

ReadsManagers(r) ==
  /\ run[r].pc = "universities" /\ run[r].todo = <<>>
  /\ run' = [run EXCEPT ![r] = StartsPeople(@, "MANAGER", @.plan.managers)]
  /\ UNCHANGED <<file, universities, people, attempts, faults, elsewhere>>

Written(s) == s.creates = <<>> /\ s.retry = <<>> /\ s.updates = <<>>

(* A slip: the ids of the managers just created are not read. *)
RereadsNothing(r) ==
  /\ run[r].pc = "MANAGER" /\ Written(run[r])
  /\ run' = [run EXCEPT ![r] = [StartsPeople(@, "INSTRUCTOR", @.plan.instructors)
                                  EXCEPT !.leads = run[r].leads]]
  /\ UNCHANGED <<file, universities, people, attempts, faults, elsewhere>>

RereadsManagers(r) ==
  /\ run[r].pc = "MANAGER" /\ Written(run[r])
  /\ run' = [run EXCEPT ![r] = StartsPeople(@, "INSTRUCTOR", @.plan.instructors)]
  /\ UNCHANGED <<file, universities, people, attempts, faults, elsewhere>>

-----------------------------------------------------------------------------
(* createChunk and updatePerson: one transaction each.                     *)

LeadOf(p, leads) ==
  IF <<p.uni, p.lead>> \in DOMAIN leads THEN leads[<<p.uni, p.lead>>] ELSE None

(* A slip: the profile is inserted without its employee code. *)
CreatedWithoutCode(p, leads) ==
  [kind |-> p.kind, uni |-> p.uni, name |-> p.name, code |-> None,
   status |-> Or(p.status, "active"), lead |-> LeadOf(p, leads),
   since |-> Arrival]

Created(p, leads) ==
  [kind |-> p.kind, uni |-> p.uni, name |-> p.name, code |-> p.code,
   status |-> Or(p.status, "active"), lead |-> LeadOf(p, leads),
   since |-> Arrival]

(* A slip: a manager left blank is a manager taken away. *)
UpdatedBlanking(p, leads) ==
  [people[p.id] EXCEPT !.name = Or(p.name, @),
                       !.status = Or(p.status, @),
                       !.code = Or(p.code, @),
                       !.lead = LeadOf(p, leads)]

Updated(p, leads) ==
  [people[p.id] EXCEPT !.name = Or(p.name, @),
                       !.status = Or(p.status, @),
                       !.code = Or(p.code, @),
                       !.lead = Or(LeadOf(p, leads), @)]

\* @@unique([universityId, employeeCode]), for each kind of profile.
CodeIsFree(p, others) ==
  p.code = None \/ \A x \in others : \/ people[x].kind # p.kind
                                     \/ people[x].uni # p.uni
                                     \/ people[x].code # p.code

CanCreate(chunk) ==
  /\ \A i \in DOMAIN chunk : /\ chunk[i].email \notin DOMAIN people
                             /\ CodeIsFree(chunk[i], DOMAIN people)
  /\ \A i, j \in DOMAIN chunk : i # j =>
       /\ chunk[i].email # chunk[j].email
       /\ chunk[i].code # chunk[j].code \/ chunk[i].code = None
          \/ chunk[i].uni # chunk[j].uni

\* ... and the composite key (managerId, universityId).
CanUpdate(p, leads) ==
  /\ CodeIsFree([p EXCEPT !.uni = people[p.id].uni], DOMAIN people \ {p.id})
  /\ LeadOf(p, leads) # None => p.uni = people[p.id].uni

PlanFor(chunk, x) == CHOOSE p \in ToSet(chunk) : p.email = x

Rows(chunk, leads) ==
  [x \in {chunk[i].email : i \in DOMAIN chunk} |-> Created(PlanFor(chunk, x), leads)]

Creates(chunk, leads) == people' = With(people, Rows(chunk, leads))

\* The university of the others failed.
Usable(chunk, linked) == Among(chunk, {p \in ToSet(chunk) : p.uni \in linked})

WritesChunk(r) ==
  /\ run[r].pc \in {"MANAGER", "INSTRUCTOR"}
  /\ run[r].retry = <<>> /\ run[r].creates # <<>>
  /\ LET s == run[r]
         size == IF Len(s.creates) < Chunk THEN Len(s.creates) ELSE Chunk
         chunk == SubSeq(s.creates, 1, size)
         usable == Usable(chunk, s.linked)
         rest == [s EXCEPT !.creates = SubSeq(@, size + 1, Len(@)),
                           !.tally = Counted(@, "failed", size - Len(usable))]
     IN \/ /\ CanCreate(usable) /\ Fault(FALSE)
           /\ Creates(usable, s.leads)
           /\ run' = [run EXCEPT ![r] =
                [rest EXCEPT !.tally = Counted(@, "created", Len(usable))]]
        \/ /\ usable # <<>>
           /\ Fault(CanCreate(usable))
           /\ run' = [run EXCEPT ![r] = [rest EXCEPT !.retry = usable]]
           /\ UNCHANGED people
  /\ UNCHANGED <<file, universities, attempts, elsewhere>>

RetriesOne(r) ==
  /\ run[r].retry # <<>>
  /\ LET s == run[r]
         one == <<Head(s.retry)>>
         Outcome(field) ==
           run' = [run EXCEPT ![r].retry = Tail(@),
                              ![r].tally = Counted(@, field, 1)]
     IN \/ /\ CanCreate(one) /\ Fault(FALSE)
           /\ Creates(one, s.leads)
           /\ Outcome("created")
        \/ /\ Fault(CanCreate(one))
           /\ Outcome("failed")
           /\ UNCHANGED people
  /\ UNCHANGED <<file, universities, attempts, elsewhere>>

UpdatesOne(r) ==
  /\ run[r].creates = <<>> /\ run[r].retry = <<>> /\ run[r].updates # <<>>
  /\ LET s == run[r]
         p == Head(s.updates)
         may == p.uni \in s.linked /\ CanUpdate(p, s.leads)
         Outcome(field) ==
           run' = [run EXCEPT ![r].updates = Tail(@),
                              ![r].tally = Counted(@, field, 1)]
     IN \/ /\ may /\ Fault(FALSE)
           /\ people' = [people EXCEPT ![p.id] = Updated(p, s.leads)]
           /\ Outcome("updated")
        \/ /\ Fault(may)
           /\ Outcome("failed")
           /\ UNCHANGED people
  /\ UNCHANGED <<file, universities, attempts, elsewhere>>

-----------------------------------------------------------------------------
(* promotePrimaryManagers: what it reads of one university after another,  *)
(* linked being those that are left, and what it writes.                   *)

FirstManagers(u) ==
  LET here == {x \in DOMAIN people : people[x].kind = "MANAGER" /\ people[x].uni = u}
  IN {x \in here : \A y \in here : people[x].since <= people[y].since}

FindsHeir(r) ==
  /\ run[r].pc = "INSTRUCTOR" /\ Written(run[r]) /\ run[r].heir = None
  /\ \E u \in run[r].linked :
       \/ /\ universities[u].primary # None \/ FirstManagers(u) = {}
          /\ run' = [run EXCEPT ![r].linked = @ \ {u}]
       \/ /\ universities[u].primary = None
          /\ \E x \in FirstManagers(u) :
               run' = [run EXCEPT ![r].linked = @ \ {u},
                                  ![r].heir = [uni |-> u, id |-> x]]
  /\ UNCHANGED <<file, universities, people, attempts, faults, elsewhere>>

Promotes(r) ==
  /\ run[r].heir # None
  /\ universities' = [universities EXCEPT ![run[r].heir.uni].primary = run[r].heir.id]
  /\ run' = [run EXCEPT ![r].heir = None]
  /\ UNCHANGED <<file, people, attempts, faults, elsewhere>>

Ends(r) ==
  /\ run[r].pc = "INSTRUCTOR" /\ Written(run[r])
  /\ run[r].linked = {} /\ run[r].heir = None
  /\ run' = [run EXCEPT ![r].pc = "ended"]
  /\ UNCHANGED <<file, universities, people, attempts, faults, elsewhere>>

-----------------------------------------------------------------------------
\* The process dies, or a read throws.
Dies(r) ==
  /\ run[r].pc \notin {"idle", "ended", "dead"}
  /\ faults < MaxFaults
  /\ faults' = faults + 1
  /\ run' = [run EXCEPT ![r] = [Idle EXCEPT !.pc = "dead"]]
  /\ UNCHANGED <<file, universities, people, attempts, elsewhere>>

\* POST of a university, and provisionInstructor or provisionManager.
OpensAccount ==
  /\ elsewhere < MaxElsewhere
  /\ \E a \in Elsewhere :
       /\ a.email \notin DOMAIN people
       /\ a.uni \in DOMAIN universities
       /\ CodeIsFree(a, DOMAIN people)
       /\ Creates(<<a>>, <<>>)
       /\ universities' = IF a.kind = "MANAGER" /\ universities[a.uni].primary = None
                          THEN [universities EXCEPT ![a.uni].primary = a.email]
                          ELSE universities
  /\ elsewhere' = elsewhere + 1
  /\ UNCHANGED <<file, run, attempts, faults>>

OpensUniversity ==
  /\ elsewhere < MaxElsewhere
  /\ \E u \in {a.uni : a \in Elsewhere} \ DOMAIN universities :
       universities' = Opened(u, "elsewhere")
  /\ elsewhere' = elsewhere + 1
  /\ UNCHANGED <<file, people, run, attempts, faults>>

Step(r) ==
  \/ Starts(r) \/ ReadsUsers(r) \/ ReadsProfiles(r)
  \/ WritesUniversity(r) \/ ReadsManagers(r) \/ RereadsManagers(r)
  \/ WritesChunk(r) \/ RetriesOne(r) \/ UpdatesOne(r)
  \/ FindsHeir(r) \/ Promotes(r) \/ Ends(r) \/ Dies(r)

Next == OpensAccount \/ OpensUniversity \/ \E r \in Runs : Step(r)

Spec == Init /\ [][Next]_vars

-----------------------------------------------------------------------------
(* Properties.                                                             *)

\* A run that reports nothing wrong.
Clean(r) ==
  run[r].pc = "ended" /\ run[r].tally.failed = 0 /\ run[r].plan.errors = 0

People(plan) == ToSet(plan.managers) \cup ToSet(plan.instructors)

AccountOf(p) == IF p.id # None THEN p.id ELSE p.email

\* Every address the file gives somebody it found is the one they are read by:
\* resolve.ts lets a code stand beside any other address.
OneAddress(p, snap) ==
  \A k \in p.keys : k[2] = "EMAIL" => k[3] = p.id /\ p.id \in DOMAIN snap.users

\* What a plan to skip says of somebody is then what was found.
Settled(p, snap) == p.action = "unchanged" => OneAddress(p, snap)

\* Whoever the file found is of the university of the row: resolve.ts does not
\* ask that of a row whose university is new.
InPlace(plan, snap) ==
  \A p \in People(plan) : p.id # None => snap.profiles[p.id].uni = p.uni

\* The manager a plan asks for, when the same file (or run) settles who that is.
LeadAskedFor(plan, p) ==
  {m \in ToSet(plan.managers) : m.uni = p.uni /\ m.code = p.lead /\ p.lead # None}

Imported(s, p) ==
  LET x == AccountOf(p)
  IN /\ x \in DOMAIN people /\ people[x].kind = p.kind
     /\ p.name # None => people[x].name = p.name
     /\ p.code # None => people[x].code = p.code
     /\ p.action # "unchanged" => people[x].status = Or(p.status, people[x].status)
     /\ p.action = "create" => people[x].uni = p.uni
     /\ p.action # "unchanged" =>
          \A m \in LeadAskedFor(s.plan, p) :
            Settled(m, s.snap) => people[x].lead = AccountOf(m)

(* A run that reports no failure has imported its file: every university   *)
(* is there under the name first stated, every person is one account with  *)
(* the stated name and code, whoever the run created is in their           *)
(* university, and whoever it wrote is under the manager the file gives    *)
(* them - whatever ran before it, and whatever administrators did          *)
(* meanwhile.                                                              *)
CleanRunImports ==
  \A r \in Runs : Clean(r) =>
    /\ \A u \in ToSet(run[r].plan.universities) :
         /\ u.uni \in DOMAIN universities
         /\ u.name # None => universities[u.uni].name = u.name
    /\ InPlace(run[r].plan, run[r].snap) =>
         \A p \in People(run[r].plan) :
           Settled(p, run[r].snap) => Imported(run[r], p)

\* Whatever a row names a person by is a name of one plan: the file gives nobody's
\* code or address to somebody else.
InOnePlan(c, s) ==
  Names(c) => \E p \in People(s.plan) :
                p.kind = c.kind /\ NamesOf(PersonPlan(c, None, s.snap)) \subseteq p.keys

\* The file gives nobody two codes or two addresses and no code or address to two,
\* speaks of everybody it found by their own, and finds everybody where its rows
\* say.
Straight(s) ==
  /\ InPlace(s.plan, s.snap)
  /\ \A row \in ToSet(file) : InOnePlan(ManagerOf(row), s) /\ InOnePlan(InstructorOf(row), s)
  /\ \A p \in People(s.plan) :
       /\ p.id # None => OneAddress(p, s.snap)
       /\ \A j, k \in p.keys : j[2] = k[2] => j = k

(* Importing a file that a run has imported creates nobody and changes     *)
(* nothing: the plan of the next run is a plan of what is already there.   *)
SecondImportChangesNothing ==
  \A r \in Runs : Clean(r) /\ Straight(run[r]) =>
    LET named == UniversitiesRead(file, universities)
        again == Resolve(file, [universities |-> named,
                                users |-> UsersRead(file, people),
                                profiles |-> ProfilesRead(named, people),
                                holders |-> CodesHeld(people)])
    IN /\ \A u \in ToSet(again.universities) :
            u.known /\ (u.action = "update" => universities[u.uni].name = u.name)
       /\ \A p \in People(again) :
            /\ p.action # "create"
            /\ p.action = "update" =>
                 Updated(p, LeadsRead(DOMAIN named)) = people[p.id]

(* When a run ends, every university, manager and instructor of its plan   *)
(* has been counted once: created, updated, skipped or failed.             *)
EveryPlanIsCounted ==
  \A r \in Runs : run[r].pc = "ended" =>
    LET t == run[r].tally
    IN t.created + t.updated + t.skipped + t.failed
         = Len(run[r].plan.universities) + Len(run[r].plan.managers)
             + Len(run[r].plan.instructors)

(* Whoever answers for people is a manager of their university, the one an *)
(* instructor is assigned to and the one who owns the university: though   *)
(* the manager map is keyed by codes that universities share, and nothing  *)
(* in the schema holds an owner to their university.                       *)
LeadsAreManagersHere ==
  /\ \A x \in DOMAIN people :
       people[x].lead # None => ManagerAt(people[x].lead, people[x].uni, people)
  /\ \A u \in DOMAIN universities :
       universities[u].primary # None => ManagerAt(universities[u].primary, u, people)

(* No step removes a person or moves them to another university or role,   *)
(* takes away a code or a manager, or leaves a university without the      *)
(* owner it had: a file that leaves somebody or something out has not      *)
(* asked for anything.                                                     *)
NobodyLeaves ==
  [][/\ \A u \in DOMAIN universities :
          /\ u \in DOMAIN universities'
          /\ universities[u].primary # None => universities'[u].primary \in DOMAIN people'
     /\ \A x \in DOMAIN people :
          /\ x \in DOMAIN people'
          /\ people'[x].kind = people[x].kind /\ people'[x].uni = people[x].uni
          /\ people[x].code # None => people'[x].code # None
          /\ people[x].lead # None => people'[x].lead # None]_vars

\* The rows that were read as being of instructors, and what each names one by.
Spoken(snap) ==
  {row \in ToSet(file) : Names(InstructorOf(row)) /\ ~Refused(InstructorOf(row), snap)}

NamesBy(row, snap) == NamesOf(PersonPlan(InstructorOf(row), None, snap))

\* Some row finds this very person, and of the rows it is tied to, by an address,
\* a code or a person that two of them share, one says inactive.
SaidInactive(x, snap) ==
  \E found \in Spoken(snap) :
    /\ <<found.uni, "ID", x>> \in NamesBy(found, snap)
    /\ \A tied \in SUBSET Spoken(snap) :
         /\ found \in tied
         /\ \A a \in tied, b \in Spoken(snap) :
              NamesBy(a, snap) \cap NamesBy(b, snap) # {} => b \in tied
         => \E row \in tied : row.status = "inactive"

(* An import deactivates nobody but an instructor its file found and calls *)
(* inactive: not the manager named on that instructor's row, and nobody    *)
(* for whom no status was stated.                                          *)
OnlyTheNamedAreRetired ==
  [][\A x \in DOMAIN people \cap DOMAIN people' :
       people[x].status = "active" /\ people'[x].status = "inactive"
         => \E r \in Runs : SaidInactive(x, run[r].snap)]_vars

(* An import that was interrupted can simply be run again: when a run      *)
(* reports nothing wrong, the instructors of the file are under the        *)
(* managers the file names, in whichever run they were written.            *)
RerunFinishes ==
  \A r \in Runs : Clean(r) =>
    \A p \in ToSet(run[r].plan.instructors) :
      \A m \in LeadAskedFor(run[r].plan, p) :
        people[AccountOf(p)].lead = AccountOf(m)

=============================================================================
