------------------------------- MODULE Staff -------------------------------
(***************************************************************************)
(* Who works where, who leads whom, and who stands in: hiring, assigning,  *)
(* leaving and returning, as the staff, instructors and managers routes    *)
(* write them, and who may see and do what (auth/scope.ts) over the        *)
(* resulting rosters.                                                      *)
(*                                                                         *)
(* A handler reads, decides and writes in separate queries; each is a step *)
(* of its own and other requests run in between, the two writing           *)
(* statements of a departure's READ COMMITTED transaction among them: what *)
(* it has written shows when it commits, and the rows it has written are   *)
(* locked until then.  A refused request ends without a trace.             *)
(*                                                                         *)
(* Names, codes, passwords and the audit log are left out; so are          *)
(* sessions, which nothing here reads back: every request is checked       *)
(* against isActive when it starts.  What an import does to the same       *)
(* tables is in ImportExecute.                                             *)
(***************************************************************************)
CONSTANTS
  Managers,      \* managers, hired yet or not
  Instructors,   \* instructors, hired yet or not
  Universities,
  Home,          \* the university of each of them, which never changes
  None,          \* no manager; an admin, where a request says who asks
  Calls          \* requests, each made once (the bound on their number)

Staff == Managers \cup Instructors

ASSUME StaffAssumption ==
  /\ Home \in [Staff -> Universities]
  /\ Managers \cap Instructors = {}
  /\ None \notin Staff

VARIABLES
  exists,    \* who has an account and a profile
  active,    \* User.isActive
  roster,    \* Instructor.managerId
  primary,   \* University.primaryManagerId
  call,      \* each request: what it asks and what it has read
  astray     \* history: managers given people beside or after their departure

tables == <<exists, active, roster, primary>>
vars == <<tables, call, astray>>

\* What a request carries from one query to the next.  found is the answer of
\* its first: the leaver leads somebody, or the university has no primary.
\* rows are the instructors its open transaction has moved to the successor.
Request == [op : {"none", "leave", "return", "assign", "hire", "hireManager"},
            at : {"todo", "check", "write", "commit", "done"},
            who : Staff \cup {None}, to : Managers \cup {None},
            found : BOOLEAN, rows : SUBSET Instructors]

Asks(op, at, who, to, found) ==
  [op |-> op, at |-> at, who |-> who, to |-> to, found |-> found, rows |-> {}]

TypeOK ==
  /\ exists \subseteq Staff
  /\ active \subseteq exists
  /\ roster \in [Instructors -> Managers \cup {None}]
  /\ primary \in [Universities -> Managers \cup {None}]
  /\ call \in [Calls -> Request]
  /\ astray \subseteq Managers

\* Any staff in good order: led by people who are here, and a university with
\* managers has a primary.
Init ==
  /\ exists \in SUBSET Staff
  /\ active \in SUBSET exists
  /\ roster \in [Instructors -> Managers \cup {None}]
  /\ primary \in [Universities -> Managers \cup {None}]
  /\ \A i \in Instructors : roster[i] # None =>
       i \in exists /\ roster[i] \in active /\ Home[roster[i]] = Home[i]
  /\ \A u \in Universities :
       IF primary[u] = None
       THEN \A m \in Managers \cap exists : Home[m] # u
       ELSE primary[u] \in active /\ Home[primary[u]] = u
  /\ call = [c \in Calls |-> Asks("none", "todo", None, None, FALSE)]
  /\ astray = {}

MayStart(c) == call[c].at = "todo"
Is(c, op, at) == call[c].op = op /\ call[c].at = at
Becomes(c, request) == call' = [call EXCEPT ![c] = request]
Proceeds(c, to) == Becomes(c, Asks(call[c].op, "write", call[c].who, to, FALSE))
Ends(c) == Becomes(c, Asks("none", "done", None, None, FALSE))

\* The rows an open departure has written: its user, and the instructors moved.
UserLocked(p) == \E d \in Calls : Is(d, "leave", "commit") /\ call[d].who = p
RowLocked(i) == \E d \in Calls : i \in call[d].rows

\* History.  m is leaving, and nobody put under m from now on is moved: the
\* departure counted none, or has moved its roster.
PastCounting(m) ==
  \E d \in Calls :
    /\ call[d].op = "leave" /\ call[d].who = m
    /\ \/ call[d].at = "check" /\ ~call[d].found
       \/ call[d].at = "write" /\ call[d].to = None
       \/ call[d].at = "commit"

\* History.  A request that has found m active has yet to write.
Chosen(m) ==
  \E d \in Calls :
    call[d].op \in {"leave", "assign"} /\ call[d].at \in {"write", "commit"} /\ call[d].to = m

\* What putting somebody under m, and m's leaving, note in the history.
Strays(m) == {n \in Managers : n = m /\ PastCounting(m)}
LeavesChosen(p) == {n \in Managers : n = p /\ Chosen(p)}

-----------------------------------------------------------------------------
(***************************************************************************)
(* PATCH staff/[id]: leaving and returning.                                *)
(***************************************************************************)
\* The person is read with how many they lead; asking for what already is is
\* answered at once.
AsksToLeave(c, p, successor) ==
  /\ MayStart(c)
  /\ p \in active
  /\ Becomes(c, Asks("leave", "check", p, successor, \E i \in Instructors : roster[i] = p))
  /\ UNCHANGED <<tables, astray>>

\* Slip: the successor may lead anywhere.
SuccessorFitsAnywhere(p, m) == m \in active /\ m # p

\* Slip: the successor may have left.
SuccessorFitsGone(p, m) == m \in exists /\ m # p /\ Home[m] = Home[p]

SuccessorFits(p, m) == m \in active /\ m # p /\ Home[m] = Home[p]

\* A manager who leads somebody, or is the primary, must name who takes over;
\* from anybody else a successor is not taken.
ChecksSuccessor(c) ==
  LET p == call[c].who
      m == call[c].to
      needsOne == p \in Managers /\ (call[c].found \/ primary[Home[p]] = p)
  IN  /\ Is(c, "leave", "check")
      /\ \/ ~needsOne /\ Proceeds(c, None)
         \/ needsOne /\ SuccessorFits(p, m) /\ Proceeds(c, m)
         \/ needsOne /\ ~SuccessorFits(p, m) /\ Ends(c)
      /\ UNCHANGED <<tables, astray>>

\* Slip: the handover moves the people and forgets the university.
PrimaryStays(p, m) == primary

PrimaryAfter(p, m) ==
  [u \in Universities |-> IF m # None /\ primary[u] = p /\ u = Home[p] THEN m ELSE primary[u]]

\* The transaction writes the account and whoever points at the leaver by now ...
MovesRoster(c) ==
  LET p == call[c].who
  IN  /\ Is(c, "leave", "write")
      /\ call[c].to # None
      /\ ~UserLocked(p)
      /\ Becomes(c, [call[c] EXCEPT !.at = "commit",
                                   !.rows = {i \in Instructors : roster[i] = p}])
      /\ UNCHANGED <<tables, astray>>

\* ... then the university, and commits.  Without a successor the account is all
\* there is to write.
Leaves(c) ==
  LET p == call[c].who
      m == call[c].to
  IN  /\ \/ Is(c, "leave", "write") /\ m = None /\ ~UserLocked(p)
         \/ Is(c, "leave", "commit")
      /\ active' = active \ {p}
      /\ roster' = [i \in Instructors |-> IF i \in call[c].rows THEN m ELSE roster[i]]
      /\ primary' = PrimaryAfter(p, m)
      /\ astray' = astray \cup Strays(m) \cup LeavesChosen(p)
      /\ Ends(c)
      /\ UNCHANGED exists

AsksToReturn(c, p) ==
  /\ MayStart(c)
  /\ p \in exists \ active
  /\ Becomes(c, Asks("return", "write", p, None, FALSE))
  /\ UNCHANGED <<tables, astray>>

Returns(c) ==
  /\ Is(c, "return", "write")
  /\ ~UserLocked(call[c].who)
  /\ active' = active \cup {call[c].who}
  /\ Ends(c)
  /\ UNCHANGED <<exists, roster, primary, astray>>

-----------------------------------------------------------------------------
(***************************************************************************)
(* PATCH instructors/[id]/manager: an admin assigns and unassigns, a       *)
(* manager lets go of their own.  Sending the current value writes         *)
(* nothing.                                                                *)
(***************************************************************************)
AsksToAssign(c, i, m, by) ==
  /\ MayStart(c)
  /\ i \in exists
  /\ by # None => by \in active /\ m = None /\ roster[i] = by
  /\ roster[i] # m
  /\ Becomes(c, Asks("assign", IF m = None THEN "write" ELSE "check", i, m, FALSE))
  /\ UNCHANGED <<tables, astray>>

MayLead(m, i) == m \in active /\ Home[m] = Home[i]

ChecksManager(c) ==
  LET i == call[c].who
      m == call[c].to
  IN  /\ Is(c, "assign", "check")
      /\ IF MayLead(m, i) THEN Proceeds(c, m) ELSE Ends(c)
      /\ UNCHANGED <<tables, astray>>

Assigns(c) ==
  /\ Is(c, "assign", "write")
  /\ ~RowLocked(call[c].who)
  /\ roster' = [roster EXCEPT ![call[c].who] = call[c].to]
  /\ astray' = astray \cup Strays(call[c].to)
  /\ Ends(c)
  /\ UNCHANGED <<exists, active, primary>>

-----------------------------------------------------------------------------
(***************************************************************************)
(* POST instructors and POST universities/[id]/managers.                   *)
(***************************************************************************)
\* A manager hires onto their own roster; an admin names any manager of the
\* university, whether or not they have left, or nobody.
AsksToHire(c, i, m, by) ==
  /\ MayStart(c)
  /\ i \notin exists
  /\ IF by = None
     THEN m # None => m \in exists /\ Home[m] = Home[i]
     ELSE by \in active /\ m = by /\ Home[by] = Home[i]
  /\ Becomes(c, Asks("hire", "write", i, m, FALSE))
  /\ UNCHANGED <<tables, astray>>

\* The user and the profile, or neither when the address was taken meanwhile.
Hires(c) ==
  LET i == call[c].who
      m == call[c].to
  IN  /\ Is(c, "hire", "write")
      /\ Ends(c)
      /\ IF i \in exists
         THEN UNCHANGED <<tables, astray>>
         ELSE /\ exists' = exists \cup {i}
              /\ active' = active \cup {i}
              /\ roster' = [roster EXCEPT ![i] = m]
              /\ astray' = astray \cup Strays(m) \cup ({m} \ (active \cup {None}))
              /\ UNCHANGED primary

\* Inside its transaction the university is read ...
AsksToHireManager(c, m) ==
  /\ MayStart(c)
  /\ m \notin exists
  /\ Becomes(c, Asks("hireManager", "write", m, None, primary[Home[m]] = None))
  /\ UNCHANGED <<tables, astray>>

\* ... and a manager of a university that had no primary becomes it.
HiresManager(c) ==
  LET m == call[c].who
  IN  /\ Is(c, "hireManager", "write")
      /\ Ends(c)
      /\ IF m \in exists
         THEN UNCHANGED <<tables, astray>>
         ELSE /\ exists' = exists \cup {m}
              /\ active' = active \cup {m}
              /\ primary' = IF call[c].found
                            THEN [primary EXCEPT ![Home[m]] = m]
                            ELSE primary
              /\ UNCHANGED <<roster, astray>>

\* A request's queries after its first.
Continues(c) ==
  \/ ChecksSuccessor(c) \/ MovesRoster(c) \/ Leaves(c) \/ Returns(c)
  \/ ChecksManager(c) \/ Assigns(c)
  \/ Hires(c) \/ HiresManager(c)

Next ==
  \/ \E c \in Calls, p \in Staff, m \in Managers \cup {None} : AsksToLeave(c, p, m)
  \/ \E c \in Calls, p \in Staff : AsksToReturn(c, p)
  \/ \E c \in Calls, i \in Instructors, m, by \in Managers \cup {None} :
       AsksToAssign(c, i, m, by) \/ AsksToHire(c, i, m, by)
  \/ \E c \in Calls, m \in Managers : AsksToHireManager(c, m)
  \/ \E c \in Calls : Continues(c)

Spec == Init /\ [][Next]_vars

-----------------------------------------------------------------------------
(***************************************************************************)
(* auth/scope.ts.  A refusal is the empty set.                             *)
(***************************************************************************)
Global == [kind |-> "global"]
University(m) == [kind |-> "university", universityId |-> Home[m], managerId |-> m]
Self(i) == [kind |-> "self", universityId |-> Home[i], instructorId |-> i]

\* scopeFor, over everybody whose session is honoured.
Scopes == {Global} \cup {University(m) : m \in Managers \cap active}
                   \cup {Self(i) : i \in Instructors \cap active}

CanReadInstructor(scope, i) ==
  CASE scope.kind = "global" -> TRUE
    [] scope.kind = "university" -> Home[i] = scope.universityId
    [] scope.kind = "self" -> i = scope.instructorId

\* assertCanReadInstructorWork and assertCanManageInstructor differ in the
\* refusal alone.
CanReadInstructorWork(scope, i) ==
  /\ CanReadInstructor(scope, i)
  /\ scope.kind = "university" =>
       \/ roster[i] = scope.managerId
       \/ roster[i] = None /\ primary[Home[i]] = scope.managerId

\* instructorWhere: the university asked for, or all that the caller may see.
InUniversity(scope, requested) ==
  {i \in exists \cap Instructors :
     /\ scope.kind = "self" => i = scope.instructorId
     /\ scope.kind # "global" => Home[i] = scope.universityId
     /\ requested # None => Home[i] = requested /\ (scope.kind # "global" => requested = scope.universityId)}

\* Slip: a manager may ask for a colleague's roster.
OnRosterAsked(scope, requested) ==
  {i \in exists \cap Instructors : requested # None => roster[i] = requested}

\* narrowManager: the roster asked for; a manager's own whether they ask or not.
OnRoster(scope, requested) ==
  {i \in exists \cap Instructors :
     CASE scope.kind = "global" -> requested # None => roster[i] = requested
       [] scope.kind = "university" ->
            requested \in {None, scope.managerId} /\ roster[i] = scope.managerId
       [] scope.kind = "self" -> requested = None}

\* GET instructors: both filters together.
Listed(scope, university, manager) ==
  InUniversity(scope, university) \cap OnRoster(scope, manager)

-----------------------------------------------------------------------------
(***************************************************************************)
(* Properties.                                                             *)
(***************************************************************************)
\* Whatever requests interleave, whoever leads an instructor or a university
\* belongs to that university (the checks of the three routes that write
\* managerId and primaryManagerId; the database holds no key for the second).
LeadersAreFromHere ==
  /\ \A i \in Instructors : roster[i] # None => Home[roster[i]] = Home[i]
  /\ \A u \in Universities : primary[u] # None => Home[primary[u]] = u

\* Somebody who is still here answers for everybody, and nobody twice: an
\* instructor of a university that has managers is led by one manager or,
\* unassigned, by the one primary of that university, no other manager may read
\* or change their work (assertCanReadInstructorWork), and that manager can sign
\* in.  Staff/[id] calls the opposite "the worst kind of gap: silent".  The code
\* leaves it open in the cases astray names: a write beside a departure that has
\* counted or moved its roster already, a successor or assigned manager who left
\* after being checked, and a hire under a manager who has left, which POST
\* instructors does not refuse.
OneManagerAnswers ==
  \A i \in Instructors \cap exists :
    (\E m \in Managers \cap exists : Home[m] = Home[i]) =>
      \E m \in active \cup astray : \A n \in Managers :
        CanReadInstructorWork(University(n), i) <=> n = m

\* GET instructors never lists whom the record would refuse: whatever university
\* and roster a caller asks it for, each one listed is somebody whose work the
\* caller may read one by one (scope.ts: "the boundary held on the list and fell
\* away the moment a caller knew an id").  GET staff is another list: it shows a
\* manager everybody of the university.
ListsAgreeWithRecords ==
  \A scope \in Scopes, u \in Universities \cup {None}, m \in Managers \cup {None} :
    \A i \in Listed(scope, u, m) : CanReadInstructorWork(scope, i)

\* A departure with a successor leaves nobody behind: once it is committed no
\* instructor and no university points at the leaver, whoever was put under them
\* since the roster was counted, unless a write the transaction could not see
\* put them there (astray).
HandoverIsComplete ==
  [][\A c \in Calls :
       Leaves(c) /\ call[c].to # None /\ call[c].who \notin astray' =>
         /\ \A i \in Instructors : roster'[i] # call[c].who
         /\ \A u \in Universities : primary'[u] # call[c].who]_vars
=============================================================================
