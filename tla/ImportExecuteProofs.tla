------------------------- MODULE ImportExecuteProofs -------------------------
(***************************************************************************)
(* Proofs about the import, for any files, databases and chunk size.       *)
(*                                                                         *)
(* 1. Whoever answers for people is a manager of their university, and     *)
(*    nobody leaves, however many executions overlap.  Neither follows     *)
(*    from the tables alone: a manager is written from a map read some     *)
(*    writes ago, an owner from a query already past.  The invariant says  *)
(*    of every such local that it still leads to a manager of the          *)
(*    university it is held for; it stays true because nobody leaves.      *)
(* 2. Every plan is counted once.  This is the first part that needs what  *)
(*    Resolve makes of a file, so it begins with induction on its rows.    *)
(* 3. Nobody is retired but those the file names, however many executions  *)
(*    overlap: what Resolve writes into a plan comes from rows that are    *)
(*    tied to each other, and an execution holds nothing but its plans.    *)
(* 4. A run that reports no failure has imported its file, when executions *)
(*    take turns: each plan is in hand, or the tables say what it says.    *)
(* 5. Importing the file again changes nothing.  Both readings of the file *)
(*    fold the same rows into the plan of each account, so the second plan *)
(*    says what the first said, and the tables already say that.           *)
(***************************************************************************)
EXTENDS ImportExecute, SequenceTheorems, WellFoundedInduction, TLAPS

Columns == {"kind", "uni", "name", "code", "status", "lead"}

\* Every row of both tables has its columns.
Stored(us, ps) ==
  /\ \A u \in DOMAIN us : {"name", "primary"} \subseteq DOMAIN us[u]
  /\ \A x \in DOMAIN ps : Columns \subseteq DOMAIN ps[x]

\* The two halves of LeadsAreManagersHere.
Assigned(ps) ==
  \A x \in DOMAIN ps : ps[x].lead # None => ManagerAt(ps[x].lead, ps[x].uni, ps)

Owned(us, ps) ==
  \A u \in DOMAIN us : us[u].primary # None => ManagerAt(us[u].primary, u, ps)

\* A manager map leads to managers of the universities it is keyed by.
Found(leads, ps) == \A k \in DOMAIN leads : ManagerAt(leads[k], k[1], ps)

\* What an execution holds of the tables.
Holds(s, ps) ==
  /\ {"leads", "heir"} \subseteq DOMAIN s
  /\ Found(s.leads, ps)
  /\ s.heir # None => ManagerAt(s.heir.id, s.heir.uni, ps)

Locals == DOMAIN run = Runs /\ \A r \in Runs : Holds(run[r], people)

IInv == Stored(universities, people) /\ LeadsAreManagersHere /\ Locals

\* Nobody leaves, from one state of the tables to another.
PeopleStay(ps, qs) ==
  \A x \in DOMAIN ps :
    /\ x \in DOMAIN qs
    /\ qs[x].kind = ps[x].kind /\ qs[x].uni = ps[x].uni
    /\ ps[x].code # None => qs[x].code # None
    /\ ps[x].lead # None => qs[x].lead # None

UniversitiesStay(us, vs, qs) ==
  \A u \in DOMAIN us :
    /\ u \in DOMAIN vs
    /\ us[u].primary # None => vs[u].primary \in DOMAIN qs

-----------------------------------------------------------------------------
(* The two ways a person is written.                                       *)

LEMMA ManagerStays ==
  ASSUME NEW x, NEW u, NEW ps, NEW qs, ManagerAt(x, u, ps), PeopleStay(ps, qs)
  PROVE  ManagerAt(x, u, qs)
  BY DEF ManagerAt, PeopleStay

LEMMA FoundStays ==
  ASSUME NEW leads, NEW ps, NEW qs, Found(leads, ps), PeopleStay(ps, qs)
  PROVE  Found(leads, qs)
  BY ManagerStays DEF Found

\* What the map gives a plan is a manager of the plan's university.
LEMMA LeadIsFound ==
  ASSUME NEW p, NEW leads, NEW ps, Found(leads, ps), LeadOf(p, leads) # None
  PROVE  ManagerAt(LeadOf(p, leads), p.uni, ps)
<1>1. /\ <<p.uni, p.lead>> \in DOMAIN leads
      /\ LeadOf(p, leads) = leads[<<p.uni, p.lead>>]
  BY DEF LeadOf
<1> QED
  BY <1>1 DEF Found

\* With is both functions, the first where they meet.
LEMMA WithIsBoth ==
  ASSUME NEW f, NEW g
  PROVE  /\ DOMAIN With(f, g) = DOMAIN f \cup DOMAIN g
         /\ \A x \in DOMAIN f : With(f, g)[x] = f[x]
         /\ \A x \in DOMAIN g \ DOMAIN f : With(f, g)[x] = g[x]
  BY DEF With

\* A manager map extended by another.
LEMMA BothFound ==
  ASSUME NEW f, NEW g, NEW ps, Found(f, ps), Found(g, ps)
  PROVE  Found(With(f, g), ps)
<1>1. /\ DOMAIN With(f, g) = DOMAIN f \cup DOMAIN g
      /\ \A k \in DOMAIN f : With(f, g)[k] = f[k]
      /\ \A k \in DOMAIN g \ DOMAIN f : With(f, g)[k] = g[k]
  BY WithIsBoth
<1> SUFFICES ASSUME NEW k \in DOMAIN With(f, g)
             PROVE  ManagerAt(With(f, g)[k], k[1], ps)
  BY DEF Found
<1>2. CASE k \in DOMAIN f
  BY <1>1, <1>2 DEF Found
<1>3. CASE k \notin DOMAIN f
  BY <1>1, <1>3 DEF Found
<1> QED
  BY <1>2, <1>3

LEMMA CreatesKeeps ==
  ASSUME NEW chunk, NEW leads, Stored(universities, people), Found(leads, people),
         Assigned(people), Creates(chunk, leads)
  PROVE  /\ PeopleStay(people, people')
         /\ \A x \in DOMAIN people' : Columns \subseteq DOMAIN people'[x]
         /\ Assigned(people')
<1> DEFINE rows == Rows(chunk, leads)
<1>1. /\ DOMAIN people' = DOMAIN people \cup DOMAIN rows
      /\ \A x \in DOMAIN people : people'[x] = people[x]
      /\ \A x \in DOMAIN rows \ DOMAIN people :
           people'[x] = Created(PlanFor(chunk, x), leads)
  <2>1. \A x \in DOMAIN rows : rows[x] = Created(PlanFor(chunk, x), leads)
    BY DEF Rows
  <2>2. people' = With(people, rows)
    BY DEF Creates
  <2> HIDE DEF rows
  <2>3. /\ DOMAIN With(people, rows) = DOMAIN people \cup DOMAIN rows
        /\ \A x \in DOMAIN people : With(people, rows)[x] = people[x]
        /\ \A x \in DOMAIN rows \ DOMAIN people : With(people, rows)[x] = rows[x]
    BY WithIsBoth
  <2> QED
    BY <2>1, <2>2, <2>3
<1>2. PeopleStay(people, people')
  BY <1>1 DEF PeopleStay
<1>3. \A p : /\ Columns \subseteq DOMAIN Created(p, leads)
             /\ Created(p, leads).uni = p.uni
             /\ Created(p, leads).lead = LeadOf(p, leads)
  BY DEF Created, Columns
<1> HIDE DEF rows
<1>4. \A x \in DOMAIN people' : Columns \subseteq DOMAIN people'[x]
  BY <1>1, <1>3 DEF Stored
<1>5. ASSUME NEW x \in DOMAIN people', people'[x].lead # None
      PROVE  ManagerAt(people'[x].lead, people'[x].uni, people')
  <2>1. CASE x \in DOMAIN people
    <3>1. ManagerAt(people'[x].lead, people'[x].uni, people)
      BY <1>1, <1>5, <2>1 DEF Assigned
    <3> QED
      BY <1>2, <3>1, ManagerStays
  <2>2. CASE x \notin DOMAIN people
    <3>1. /\ people'[x].lead = LeadOf(PlanFor(chunk, x), leads)
          /\ people'[x].uni = PlanFor(chunk, x).uni
      BY <1>1, <1>3, <2>2
    <3>2. ManagerAt(people'[x].lead, people'[x].uni, people)
      BY <1>5, <3>1, LeadIsFound
    <3> QED
      BY <1>2, <3>2, ManagerStays
  <2> QED
    BY <2>1, <2>2
<1> QED
  BY <1>2, <1>4, <1>5 DEF Assigned

LEMMA UpdatedKeeps ==
  ASSUME NEW p, NEW leads, Stored(universities, people), Found(leads, people),
         Assigned(people), CanUpdate(p, leads),
         people' = [people EXCEPT ![p.id] = Updated(p, leads)]
  PROVE  /\ PeopleStay(people, people')
         /\ \A x \in DOMAIN people' : Columns \subseteq DOMAIN people'[x]
         /\ Assigned(people')
<1>1. CASE p.id \notin DOMAIN people
  <2>1. DOMAIN people' = DOMAIN people /\ \A x \in DOMAIN people : people'[x] = people[x]
    BY <1>1
  <2> QED
    BY <2>1 DEF PeopleStay, Stored, Assigned, ManagerAt
<1>2. CASE p.id \in DOMAIN people
  <2> DEFINE old == people[p.id]
             new == Updated(p, leads)
  <2>1. /\ DOMAIN people' = DOMAIN people
        /\ people'[p.id] = new
        /\ \A x \in DOMAIN people \ {p.id} : people'[x] = people[x]
    BY <1>2
  <2>2. Columns \subseteq DOMAIN old
    BY <1>2 DEF Stored
  <2>3. /\ DOMAIN new = DOMAIN old
        /\ new.kind = old.kind /\ new.uni = old.uni
        /\ new.code = Or(p.code, old.code)
        /\ new.lead = Or(LeadOf(p, leads), old.lead)
    BY <2>2 DEF Updated, Columns
  <2> HIDE DEF new
  <2>4. PeopleStay(people, people')
    BY <2>1, <2>3 DEF PeopleStay, Or
  <2>5. \A x \in DOMAIN people' : Columns \subseteq DOMAIN people'[x]
    BY <2>1, <2>3 DEF Stored
  <2>6. ASSUME NEW x \in DOMAIN people', people'[x].lead # None
        PROVE  ManagerAt(people'[x].lead, people'[x].uni, people')
    <3>1. ManagerAt(people'[x].lead, people'[x].uni, people)
      <4>1. CASE x = p.id /\ LeadOf(p, leads) # None
        BY <1>2, <2>1, <2>3, <4>1, LeadIsFound DEF CanUpdate, Or
      <4>2. CASE ~(x = p.id /\ LeadOf(p, leads) # None)
        <5>1. /\ x \in DOMAIN people
             /\ people'[x].lead = people[x].lead
             /\ people'[x].uni = people[x].uni
          BY <2>1, <2>3, <4>2 DEF Or
        <5> QED
          BY <2>6, <5>1 DEF Assigned
      <4> QED
        BY <4>1, <4>2
    <3> QED
      BY <2>4, <3>1, ManagerStays
  <2> QED
    BY <2>4, <2>5, <2>6 DEF Assigned
<1> QED
  BY <1>1, <1>2

\* A manager map that was just read holds what it says.
LEMMA LeadsReadFound ==
  ASSUME NEW linked PROVE Found(LeadsRead(linked), people)
<1> DEFINE coded == {x \in DOMAIN people : /\ people[x].kind = "MANAGER"
                                          /\ people[x].uni \in linked
                                          /\ people[x].code # None}
           Key(x) == <<people[x].uni, people[x].code>>
           keys == {Key(x) : x \in coded}
<1>1. LeadsRead(linked) = [k \in keys |-> CHOOSE x \in coded : Key(x) = k]
  BY DEF LeadsRead
<1>2. ASSUME NEW k \in keys
      PROVE  LET x == CHOOSE x \in coded : Key(x) = k IN x \in coded /\ Key(x) = k
  OBVIOUS
<1>3. \A x \in coded : /\ x \in DOMAIN people
                       /\ people[x].kind = "MANAGER" /\ people[x].uni = Key(x)[1]
  OBVIOUS
<1> HIDE DEF coded, Key
<1> QED
  BY <1>1, <1>2, <1>3 DEF Found, ManagerAt

-----------------------------------------------------------------------------
(* Each step, by what it does to people, universities and manager maps.    *)

LEMMA InitIInv == Init => IInv
<1> SUFFICES ASSUME Init PROVE IInv
  OBVIOUS
<1>1. PICK db \in Databases : universities = db.universities /\ people = db.people
  BY DEF Init
<1>2. Stored(universities, people)
  BY <1>1, DatabasesAssumption DEF Stored, Columns
<1>3. LeadsAreManagersHere
  BY <1>1, DatabasesAssumption DEF LeadsAreManagersHere
<1>4. Locals
  BY DEF Init, Locals, Holds, Idle, Found
<1> QED
  BY <1>2, <1>3, <1>4 DEF IInv

\* What a step may make of an execution's own manager map and heir.
MovesOn(r) ==
  /\ DOMAIN run' = DOMAIN run
  /\ \A t \in DOMAIN run \ {r} : run'[t] = run[t]
  /\ {"leads", "heir"} \subseteq DOMAIN run'[r]
  /\ \/ run'[r].leads \in {run[r].leads, <<>>}
     \/ run'[r].leads = With(LeadsRead(run[r].linked), run[r].leads)
  /\ \/ run'[r].heir \in {run[r].heir, None}
     \/ ManagerAt(run'[r].heir.id, run'[r].heir.uni, people)

LEMMA MovingOnKeepsLocals ==
  ASSUME NEW r \in Runs, Locals, MovesOn(r), PeopleStay(people, people')
  PROVE  Locals'
<1>1. Holds(run[r], people)
  BY DEF Locals
<1>2. Found(<<>>, people)
  BY DEF Found
<1>3. Found(With(LeadsRead(run[r].linked), run[r].leads), people)
  BY <1>1, LeadsReadFound, BothFound DEF Holds
<1>4. Found(run'[r].leads, people')
  <2>1. Found(run'[r].leads, people)
    BY <1>1, <1>2, <1>3 DEF MovesOn, Holds
  <2> QED
    BY <2>1, FoundStays
<1>5. ASSUME run'[r].heir # None
      PROVE  ManagerAt(run'[r].heir.id, run'[r].heir.uni, people')
  <2>1. ManagerAt(run'[r].heir.id, run'[r].heir.uni, people)
    BY <1>1, <1>5 DEF MovesOn, Holds
  <2> QED
    BY <2>1, ManagerStays
<1>6. \A t \in Runs \ {r} : Holds(run[t], people')
  BY FoundStays, ManagerStays DEF Locals, Holds
<1> QED
  BY <1>4, <1>5, <1>6 DEF Locals, Holds, MovesOn

\* Universities after a step: the columns are there, and an owner is the one
\* there was or a manager of the university.
Kept(us, vs, qs) ==
  /\ DOMAIN us \subseteq DOMAIN vs
  /\ \A u \in DOMAIN vs :
       /\ {"name", "primary"} \subseteq DOMAIN vs[u]
       /\ \/ u \in DOMAIN us /\ vs[u].primary = us[u].primary
          \/ u \notin DOMAIN us /\ vs[u].primary = None
          \/ ManagerAt(vs[u].primary, u, qs)

\* People after a step.
Served(ps, qs) ==
  /\ PeopleStay(ps, qs)
  /\ \A x \in DOMAIN qs : Columns \subseteq DOMAIN qs[x]
  /\ Assigned(qs)

\* The tables a step leaves to the next.
Keeps ==
  /\ PeopleStay(people, people')
  /\ UniversitiesStay(universities, universities', people')
  /\ Stored(universities, people)'
  /\ LeadsAreManagersHere'

LEMMA KeptAndServed ==
  ASSUME IInv, Kept(universities, universities', people'), Served(people, people')
  PROVE  Keeps
<1>1. Owned(universities, people) /\ PeopleStay(people, people')
  BY DEF IInv, LeadsAreManagersHere, Owned, Served
<1>2. Owned(universities', people')
  <2> SUFFICES ASSUME NEW u \in DOMAIN universities', universities'[u].primary # None
               PROVE  ManagerAt(universities'[u].primary, u, people')
    BY DEF Owned
  <2>1. CASE u \in DOMAIN universities /\ universities'[u].primary = universities[u].primary
    BY <1>1, <2>1, ManagerStays DEF Owned
  <2> QED
    BY <2>1 DEF Kept
<1>3. UniversitiesStay(universities, universities', people')
  BY <1>2 DEF UniversitiesStay, Kept, Owned, ManagerAt
<1>4. LeadsAreManagersHere'
  BY <1>2 DEF Served, Owned, Assigned, LeadsAreManagersHere
<1> QED
  BY <1>3, <1>4 DEF Keeps, Kept, Served, Stored

LEMMA SamePeopleServed ==
  ASSUME IInv, UNCHANGED people PROVE Served(people, people')
BY DEF IInv, Served, PeopleStay, Stored, Assigned, LeadsAreManagersHere

LEMMA SameUniversitiesKept ==
  ASSUME IInv, UNCHANGED universities PROVE Kept(universities, universities', people')
BY DEF IInv, Kept, Stored

LEMMA OpenedKept ==
  ASSUME IInv, NEW u, NEW name, universities' = Opened(u, name)
  PROVE  Kept(universities, universities', people')
BY DEF IInv, Stored, Opened, With, Kept

LEMMA RenamedKept ==
  ASSUME IInv, NEW u, NEW name, universities' = [universities EXCEPT ![u].name = name]
  PROVE  Kept(universities, universities', people')
BY DEF IInv, Stored, Kept

LEMMA OwnerKept ==
  ASSUME IInv, NEW u, NEW x, universities' = [universities EXCEPT ![u].primary = x],
         ManagerAt(x, u, people')
  PROVE  Kept(universities, universities', people')
BY DEF IInv, Stored, Kept

LEMMA UnchangedKeeps ==
  ASSUME IInv, UNCHANGED <<universities, people>> PROVE Keeps
BY SamePeopleServed, SameUniversitiesKept, KeptAndServed

\* Every step of every execution keeps the tables, and its own manager map.
LEMMA StepKeeps ==
  ASSUME IInv, NEW r \in Runs, Step(r) PROVE Keeps /\ Locals'
<1>0. /\ Locals /\ Assigned(people)
      /\ {"leads", "heir"} \subseteq DOMAIN run[r]
      /\ Found(run[r].leads, people)
      /\ run[r].heir # None => ManagerAt(run[r].heir.id, run[r].heir.uni, people)
  BY DEF IInv, Locals, Holds, Assigned, LeadsAreManagersHere
<1> SUFFICES Keeps /\ MovesOn(r)
  BY <1>0, MovingOnKeepsLocals DEF Keeps
<1>1. CASE Starts(r)
  <2>1. MovesOn(r)
    BY <1>0, <1>1 DEF Starts, MovesOn, Idle, Locals
  <2> QED
    BY <1>1, <2>1, UnchangedKeeps DEF Starts
<1>2. CASE ReadsUsers(r)
  <2>1. MovesOn(r)
    BY <1>0, <1>2 DEF ReadsUsers, MovesOn, Locals
  <2> QED
    BY <1>2, <2>1, UnchangedKeeps DEF ReadsUsers
<1>3. CASE ReadsProfiles(r)
  <2>1. MovesOn(r)
    BY <1>0, <1>3 DEF ReadsProfiles, MovesOn, Idle, Locals
  <2> QED
    BY <1>3, <2>1, UnchangedKeeps DEF ReadsProfiles
<1>4. CASE WritesUniversity(r)
  <2>1. MovesOn(r)
    BY <1>0, <1>4 DEF WritesUniversity, MovesOn, Locals
  <2>2. /\ UNCHANGED people
        /\ \/ UNCHANGED universities
           \/ \E u, name : universities' = [universities EXCEPT ![u].name = name]
           \/ \E u, name : universities' = Opened(u, name)
    BY <1>4 DEF WritesUniversity
  <2> QED
    BY <2>1, <2>2, SamePeopleServed, SameUniversitiesKept, RenamedKept, OpenedKept,
       KeptAndServed
<1>5. CASE ReadsManagers(r)
  <2>1. MovesOn(r)
    BY <1>0, <1>5 DEF ReadsManagers, StartsPeople, MovesOn, Locals
  <2> QED
    BY <1>5, <2>1, UnchangedKeeps DEF ReadsManagers
<1>6. CASE RereadsManagers(r)
  <2>1. MovesOn(r)
    BY <1>0, <1>6 DEF RereadsManagers, StartsPeople, MovesOn, Locals
  <2> QED
    BY <1>6, <2>1, UnchangedKeeps DEF RereadsManagers
<1>7. CASE WritesChunk(r)
  <2>1. MovesOn(r)
    <3> DEFINE size == IF Len(run[r].creates) < Chunk THEN Len(run[r].creates) ELSE Chunk
               usable == Usable(SubSeq(run[r].creates, 1, size), run[r].linked)
               creates == SubSeq(run[r].creates, size + 1, Len(run[r].creates))
               tally == Counted(run[r].tally, "failed", size - Len(usable))
               rest == [run[r] EXCEPT !.creates = creates, !.tally = tally]
    <3>1. \/ run' = [run EXCEPT ![r] =
                       [rest EXCEPT !.tally = Counted(@, "created", Len(usable))]]
          \/ run' = [run EXCEPT ![r] = [rest EXCEPT !.retry = usable]]
      BY <1>7, Zenon DEF WritesChunk
    <3>2. /\ DOMAIN rest = DOMAIN run[r]
          /\ rest.leads = run[r].leads /\ rest.heir = run[r].heir
      BY <1>0
    <3> HIDE DEF rest, usable
    <3> QED
      BY <1>0, <3>1, <3>2 DEF MovesOn, Locals
  <2>2. UNCHANGED universities
    BY <1>7 DEF WritesChunk
  <2>3. UNCHANGED people \/ \E chunk : Creates(chunk, run[r].leads)
    BY <1>7 DEF WritesChunk
  <2> QED
    BY <1>0, <2>1, <2>2, <2>3, SamePeopleServed, CreatesKeeps,
       SameUniversitiesKept, KeptAndServed DEF IInv, Served
<1>8. CASE RetriesOne(r)
  <2>1. MovesOn(r)
    BY <1>0, <1>8 DEF RetriesOne, MovesOn, Locals
  <2>2. UNCHANGED universities
    BY <1>8 DEF RetriesOne
  <2>3. UNCHANGED people \/ \E chunk : Creates(chunk, run[r].leads)
    BY <1>8 DEF RetriesOne
  <2> QED
    BY <1>0, <2>1, <2>2, <2>3, SamePeopleServed, CreatesKeeps,
       SameUniversitiesKept, KeptAndServed DEF IInv, Served
<1>9. CASE UpdatesOne(r)
  <2>1. MovesOn(r)
    BY <1>0, <1>9 DEF UpdatesOne, MovesOn, Locals
  <2>2. UNCHANGED universities
    BY <1>9 DEF UpdatesOne
  <2>3. \/ UNCHANGED people
        \/ \E p : /\ CanUpdate(p, run[r].leads)
                  /\ people' = [people EXCEPT ![p.id] = Updated(p, run[r].leads)]
    BY <1>9 DEF UpdatesOne
  <2> QED
    BY <1>0, <2>1, <2>2, <2>3, SamePeopleServed, UpdatedKeeps,
       SameUniversitiesKept, KeptAndServed DEF IInv, Served
<1>10. CASE FindsHeir(r)
  <2>1. \A u : \A x \in FirstManagers(u) : ManagerAt(x, u, people)
    BY DEF FirstManagers, ManagerAt
  <2>2. MovesOn(r)
    BY <1>0, <1>10, <2>1 DEF FindsHeir, MovesOn, Locals
  <2> QED
    BY <1>10, <2>2, UnchangedKeeps DEF FindsHeir
<1>11. CASE Promotes(r)
  <2>1. MovesOn(r)
    BY <1>0, <1>11 DEF Promotes, MovesOn, Locals
  <2>2. /\ UNCHANGED people
        /\ ManagerAt(run[r].heir.id, run[r].heir.uni, people')
        /\ universities' = [universities EXCEPT ![run[r].heir.uni].primary = run[r].heir.id]
    BY <1>0, <1>11 DEF Promotes
  <2> QED
    BY <2>1, <2>2, OwnerKept, SamePeopleServed, KeptAndServed
<1>12. CASE Ends(r)
  <2>1. MovesOn(r)
    BY <1>0, <1>12 DEF Ends, MovesOn, Locals
  <2> QED
    BY <1>12, <2>1, UnchangedKeeps DEF Ends
<1>13. CASE Dies(r)
  <2>1. MovesOn(r)
    BY <1>0, <1>13 DEF Dies, MovesOn, Idle, Locals
  <2> QED
    BY <1>13, <2>1, UnchangedKeeps DEF Dies
<1> QED
  BY <1>1, <1>2, <1>3, <1>4, <1>5, <1>6, <1>7, <1>8, <1>9, <1>10, <1>11, <1>12, <1>13 DEF Step

\* An account opened as a manager is one of its university.
LEMMA OneIsCreated ==
  ASSUME NEW a, a.email \notin DOMAIN people, Creates(<<a>>, <<>>), a.kind = "MANAGER"
  PROVE  ManagerAt(a.email, a.uni, people')
<1>1. ToSet(<<a>>) = {a}
  BY DEF ToSet
<1>2. PlanFor(<<a>>, a.email) = a
  BY <1>1 DEF PlanFor
<1>3. /\ a.email \in DOMAIN Rows(<<a>>, <<>>)
      /\ Rows(<<a>>, <<>>)[a.email] = Created(a, <<>>)
  BY <1>2 DEF Rows
<1>4. a.email \in DOMAIN people' /\ people'[a.email] = Created(a, <<>>)
  BY <1>3 DEF Creates, With
<1> QED
  BY <1>4 DEF ManagerAt, Created

\* ... and so does what administrators do meanwhile.
LEMMA ElsewhereKeeps ==
  ASSUME IInv, OpensAccount \/ OpensUniversity PROVE Keeps /\ Locals'
<1>1. UNCHANGED run
  BY DEF OpensAccount, OpensUniversity
<1>2. Keeps
  <2>1. CASE OpensAccount
    <3>1. PICK a \in Elsewhere :
            /\ a.email \notin DOMAIN people
            /\ Creates(<<a>>, <<>>)
            /\ \/ UNCHANGED universities
               \/ /\ a.kind = "MANAGER"
                  /\ universities' = [universities EXCEPT ![a.uni].primary = a.email]
      BY <2>1 DEF OpensAccount
    <3>2. Found(<<>>, people)
      BY DEF Found
    <3>3. Served(people, people')
      BY <3>1, <3>2, CreatesKeeps DEF IInv, Served, Assigned, LeadsAreManagersHere
    <3>4. CASE UNCHANGED universities
      BY <3>3, <3>4, SameUniversitiesKept, KeptAndServed
    <3>5. CASE /\ a.kind = "MANAGER"
               /\ universities' = [universities EXCEPT ![a.uni].primary = a.email]
      <4>1. ManagerAt(a.email, a.uni, people')
        BY <3>1, <3>5, OneIsCreated
      <4> QED
        BY <3>3, <3>5, <4>1, OwnerKept, KeptAndServed
    <3> QED
      BY <3>1, <3>4, <3>5
  <2>2. CASE OpensUniversity
    <3>1. UNCHANGED people /\ \E u : universities' = Opened(u, "elsewhere")
      BY <2>2 DEF OpensUniversity
    <3> QED
      BY <3>1, OpenedKept, SamePeopleServed, KeptAndServed
  <2> QED
    BY <2>1, <2>2
<1>3. Locals'
  BY <1>1, <1>2, FoundStays, ManagerStays DEF IInv, Locals, Holds, Keeps
<1> QED
  BY <1>2, <1>3

LEMMA NextKeeps == IInv /\ [Next]_vars => Keeps /\ IInv'
<1> SUFFICES ASSUME IInv, [Next]_vars PROVE Keeps /\ IInv'
  OBVIOUS
<1>1. Keeps /\ Locals'
  <2>1. CASE OpensAccount \/ OpensUniversity
    BY <2>1, ElsewhereKeeps
  <2>2. ASSUME NEW r \in Runs, Step(r) PROVE Keeps /\ Locals'
    BY <2>2, StepKeeps
  <2>3. CASE UNCHANGED vars
    <3>1. UNCHANGED <<universities, people, run>>
      BY <2>3 DEF vars
    <3> QED
      BY <3>1, UnchangedKeeps DEF IInv, Locals
  <2> QED
    BY <2>1, <2>2, <2>3 DEF Next
<1> QED
  BY <1>1 DEF Keeps, IInv

(* An instructor's manager, and a university's owner, is always a manager  *)
(* of that university, whichever executions and administrators wrote them. *)
THEOREM ImportLeadsAreManagersHere == Spec => []LeadsAreManagersHere
<1>1. Init => IInv
  BY InitIInv
<1>2. IInv /\ [Next]_vars => IInv'
  BY NextKeeps
<1>3. IInv => LeadsAreManagersHere
  BY DEF IInv
<1> QED
  BY <1>1, <1>2, <1>3, PTL DEF Spec

(* No step removes anybody, moves them, takes away their code or manager,  *)
(* or leaves a university without the owner it had.                        *)
THEOREM ImportNobodyLeaves == Spec => NobodyLeaves
<1>1. Init => IInv
  BY InitIInv
<1>2. IInv /\ [Next]_vars => IInv'
  BY NextKeeps
<1>3. IInv /\ [Next]_vars =>
        [/\ \A u \in DOMAIN universities :
              /\ u \in DOMAIN universities'
              /\ universities[u].primary # None =>
                   universities'[u].primary \in DOMAIN people'
         /\ \A x \in DOMAIN people :
              /\ x \in DOMAIN people'
              /\ people'[x].kind = people[x].kind /\ people'[x].uni = people[x].uni
              /\ people[x].code # None => people'[x].code # None
              /\ people[x].lead # None => people'[x].lead # None]_vars
  BY NextKeeps DEF Keeps, PeopleStay, UniversitiesStay
<1> QED
  BY <1>1, <1>2, <1>3, PTL DEF Spec, NobodyLeaves

-----------------------------------------------------------------------------
(* Every plan is counted.  A file becomes plans one row at a time, and     *)
(* plans are told apart by their action: both by recursion on a prefix,    *)
(* which is unfolded here once and for all.                                *)

\* The least member of a set of natural numbers.
LEMMA LeastNumber ==
  ASSUME NEW T, T \subseteq Nat, T # {} PROVE \E m \in T : \A n \in T : m <= n
<1> DEFINE Less == {ss \in Nat \X Nat : ss[1] < ss[2]}
<1>1. IsWellFoundedOn(Less, Nat)
  BY NatLessThanWellFounded DEF OpToRel
<1>2. Less = {ss \in Nat \X Nat : ss[1] < ss[2]}
  OBVIOUS
<1> HIDE DEF Less
<1>3. PICK x \in T : \A y \in T : <<y, x>> \notin Less
  BY <1>1, WFMin
<1>4. \A y \in T : ~(y < x)
  BY <1>2, <1>3
<1> QED
  BY <1>4

\* Induction, for a set of numbers instead of a predicate on them.
LEMMA InductionOnSets ==
  ASSUME NEW S, S \subseteq Nat, 0 \in S, \A n \in S : n + 1 \in S
  PROVE  S = Nat
<1> SUFFICES ASSUME Nat \ S # {} PROVE FALSE
  OBVIOUS
<1>1. PICK m \in Nat \ S : \A n \in Nat \ S : m <= n
  BY LeastNumber
<1>2. m # 0 /\ m - 1 \in Nat
  OBVIOUS
<1>3. m - 1 \in S
  BY <1>1, <1>2
<1> QED
  BY <1>3

\* f holds what Among makes of the first members of s, up to the n-th.
Filters(f, s, A, n) ==
  f = [i \in 0..n |-> IF i = 0 THEN <<>>
                      ELSE IF s[i] \in A THEN Append(f[i - 1], s[i]) ELSE f[i - 1]]

LEMMA FilterExists ==
  ASSUME NEW s, NEW A, NEW n \in Nat PROVE \E f : Filters(f, s, A, n)
<1> DEFINE S == {i \in Nat : \E f : Filters(f, s, A, i)}
<1>1. 0 \in S
  <2> DEFINE f == [i \in 0..0 |-> <<>>]
  <2>1. Filters(f, s, A, 0)
    BY DEF Filters
  <2> QED
    BY <2>1
<1>2. ASSUME NEW i \in S PROVE i + 1 \in S
  <2>1. PICK f : Filters(f, s, A, i)
    OBVIOUS
  <2> DEFINE e == IF s[i + 1] \in A THEN Append(f[i], s[i + 1]) ELSE f[i]
             g == [j \in 0..(i + 1) |-> IF j = i + 1 THEN e ELSE f[j]]
             Next1(h, j) == IF j = 0 THEN <<>>
                            ELSE IF s[j] \in A THEN Append(h[j - 1], s[j]) ELSE h[j - 1]
  <2> HIDE DEF e
  <2>2. \A j \in 0..i : f[j] = Next1(f, j)
    BY <2>1 DEF Filters
  <2>3. ASSUME NEW j \in 0..(i + 1) PROVE g[j] = Next1(g, j)
    <3>1. CASE j = i + 1
      <4>1. j # 0 /\ j - 1 = i /\ i \in 0..(i + 1) /\ i # i + 1
        BY <3>1
      <4> QED
        BY <3>1, <4>1 DEF e
    <3>2. CASE j # i + 1
      <4>1. j \in 0..i /\ (j # 0 => j - 1 \in 0..(i + 1) /\ j - 1 # i + 1)
        BY <3>2
      <4>2. g[j] = f[j] /\ (j # 0 => g[j - 1] = f[j - 1])
        BY <3>2, <4>1
      <4> HIDE DEF g
      <4> QED
        BY <2>2, <4>1, <4>2
    <3> QED
      BY <3>1, <3>2
  <2>4. g = [j \in 0..(i + 1) |-> g[j]]
    OBVIOUS
  <2> HIDE DEF g
  <2>5. Filters(g, s, A, i + 1)
    BY <2>3, <2>4 DEF Filters
  <2> QED
    BY <2>5
<1> QED
  BY <1>1, <1>2, InductionOnSets

LEMMA AmongFilters ==
  ASSUME NEW s, NEW A, Len(s) \in Nat
  PROVE  \E f : Filters(f, s, A, Len(s)) /\ Among(s, A) = f[Len(s)]
<1> DEFINE F == CHOOSE f : Filters(f, s, A, Len(s))
<1>1. Filters(F, s, A, Len(s))
  BY FilterExists
<1>2. Among(s, A) = F[Len(s)]
  BY DEF Among, Filters
<1> QED
  BY <1>1, <1>2

\* Three sequences of n members in all.
MakeUp(n, S, p, q, t) ==
  /\ p \in Seq(S) /\ q \in Seq(S) /\ t \in Seq(S)
  /\ Len(p) + Len(q) + Len(t) = n

LEMMA OneMoreMakesUp ==
  ASSUME NEW S, NEW x \in S, NEW n \in Nat, NEW p, NEW q, NEW t, MakeUp(n, S, p, q, t)
  PROVE  /\ MakeUp(n + 1, S, Append(p, x), q, t)
         /\ MakeUp(n + 1, S, p, Append(q, x), t)
         /\ MakeUp(n + 1, S, p, q, Append(t, x))
  BY DEF MakeUp

\* What is in A, in B and in C makes up what is in one of them.
LEMMA AmongParts ==
  ASSUME NEW S, NEW s \in Seq(S), NEW A, NEW B, NEW C,
         A \cap B = {}, A \cap C = {}, B \cap C = {},
         \A i \in 1..Len(s) : s[i] \in A \cup B \cup C
  PROVE  /\ Among(s, A) \in Seq(S) /\ Among(s, B) \in Seq(S) /\ Among(s, C) \in Seq(S)
         /\ Len(Among(s, A)) + Len(Among(s, B)) + Len(Among(s, C)) = Len(s)
<1>0. Len(s) \in Nat /\ \A i \in 1..Len(s) : s[i] \in S
  OBVIOUS
<1>1. PICK f : Filters(f, s, A, Len(s)) /\ Among(s, A) = f[Len(s)]
  BY <1>0, AmongFilters
<1>2. PICK g : Filters(g, s, B, Len(s)) /\ Among(s, B) = g[Len(s)]
  BY <1>0, AmongFilters
<1>3. PICK h : Filters(h, s, C, Len(s)) /\ Among(s, C) = h[Len(s)]
  BY <1>0, AmongFilters
<1>4. \A i \in 1..Len(s) :
        /\ f[i] = IF s[i] \in A THEN Append(f[i - 1], s[i]) ELSE f[i - 1]
        /\ g[i] = IF s[i] \in B THEN Append(g[i - 1], s[i]) ELSE g[i - 1]
        /\ h[i] = IF s[i] \in C THEN Append(h[i - 1], s[i]) ELSE h[i - 1]
  <2>1. ASSUME NEW i \in 1..Len(s) PROVE i \in 0..Len(s) /\ i # 0
    OBVIOUS
  <2> QED
    BY <1>1, <1>2, <1>3, <2>1 DEF Filters
<1>5. f[0] = <<>> /\ g[0] = <<>> /\ h[0] = <<>>
  <2>1. 0 \in 0..Len(s)
    BY <1>0
  <2> QED
    BY <1>1, <1>2, <1>3, <2>1 DEF Filters
<1> DEFINE Parts(n) == MakeUp(n, S, f[n], g[n], h[n])
           T == {n \in Nat : n <= Len(s) => Parts(n)}
<1>6. Parts(0)
  <2>1. <<>> \in Seq(S) /\ Len(<<>>) = 0
    OBVIOUS
  <2> QED
    BY <1>5, <2>1 DEF MakeUp
<1>7. ASSUME NEW n \in Nat, Parts(n), n + 1 <= Len(s) PROVE Parts(n + 1)
  <2>1. n + 1 \in 1..Len(s) /\ (n + 1) - 1 = n
    BY <1>0, <1>7
  <2>2. /\ f[n + 1] = IF s[n + 1] \in A THEN Append(f[n], s[n + 1]) ELSE f[n]
        /\ g[n + 1] = IF s[n + 1] \in B THEN Append(g[n], s[n + 1]) ELSE g[n]
        /\ h[n + 1] = IF s[n + 1] \in C THEN Append(h[n], s[n + 1]) ELSE h[n]
    BY <1>4, <2>1
  <2>3. s[n + 1] \in S /\ s[n + 1] \in A \cup B \cup C
    BY <1>0, <2>1
  <2>4. \/ f[n + 1] = Append(f[n], s[n + 1]) /\ g[n + 1] = g[n] /\ h[n + 1] = h[n]
        \/ f[n + 1] = f[n] /\ g[n + 1] = Append(g[n], s[n + 1]) /\ h[n + 1] = h[n]
        \/ f[n + 1] = f[n] /\ g[n + 1] = g[n] /\ h[n + 1] = Append(h[n], s[n + 1])
    BY <2>2, <2>3
  <2> QED
    <3> DEFINE x == s[n + 1]
    <3>1. /\ MakeUp(n + 1, S, Append(f[n], x), g[n], h[n])
          /\ MakeUp(n + 1, S, f[n], Append(g[n], x), h[n])
          /\ MakeUp(n + 1, S, f[n], g[n], Append(h[n], x))
      BY <1>7, <2>3, OneMoreMakesUp
    <3> QED
      BY <2>4, <3>1, Zenon
<1> HIDE DEF Parts
<1>8. \A n \in T : n + 1 \in T
  BY <1>0, <1>7
<1>9. T = Nat
  BY <1>6, <1>8, InductionOnSets
<1>10. Parts(Len(s))
  BY <1>0, <1>9
<1> QED
  BY <1>1, <1>2, <1>3, <1>10 DEF Parts, MakeUp

-----------------------------------------------------------------------------
(* What Resolve makes of a file is plans.                                  *)

Actions == {"create", "update", "unchanged"}

IsList(s) == \E S : s \in Seq(S)

IsPlans(s) ==
  IsList(s) /\ \A i \in 1..Len(s) : "action" \in DOMAIN s[i] /\ s[i].action \in Actions

IsPlan(plan) ==
  /\ {"universities", "managers", "instructors"} \subseteq DOMAIN plan
  /\ IsList(plan.universities) /\ IsPlans(plan.managers) /\ IsPlans(plan.instructors)

LEMMA EmptyIsPlans == IsPlans(<<>>) /\ Len(<<>>) = 0
<1>1. <<>> \in Seq({}) /\ Len(<<>>) = 0
  OBVIOUS
<1> QED
  BY <1>1 DEF IsPlans, IsList

LEMMA AppendIsList ==
  ASSUME NEW s, IsList(s), NEW e
  PROVE  /\ IsList(Append(s, e)) /\ Len(Append(s, e)) = Len(s) + 1 /\ Len(s) \in Nat
         /\ \A i \in 1..Len(s) : Append(s, e)[i] = s[i]
         /\ Append(s, e)[Len(s) + 1] = e
<1>1. PICK S : s \in Seq(S)
  BY DEF IsList
<1>2. s \in Seq(S \cup {e})
  BY <1>1
<1>3. Append(s, e) \in Seq(S \cup {e}) /\ Len(Append(s, e)) = Len(s) + 1 /\ Len(s) \in Nat
  BY <1>2
<1>4. /\ \A i \in 1..Len(s) : Append(s, e)[i] = s[i]
      /\ Append(s, e)[Len(s) + 1] = e
  BY <1>2
<1> QED
  BY <1>3, <1>4 DEF IsList

\* s with e as its i-th member, if it has one.
Replaced(s, i, e) == [s EXCEPT ![i] = e]

LEMMA ReplacedIsList ==
  ASSUME NEW s, IsList(s), NEW i, NEW e
  PROVE  /\ IsList(Replaced(s, i, e)) /\ Len(Replaced(s, i, e)) = Len(s)
         /\ \A j \in 1..Len(s) : Replaced(s, i, e)[j] = IF j = i THEN e ELSE s[j]
<1>1. PICK S : s \in Seq(S)
  BY DEF IsList
<1>2. s \in Seq(S \cup {e})
  BY <1>1
<1>3. CASE i \in 1..Len(s)
  <2>1. e \in S \cup {e}
    OBVIOUS
  <2> QED
    BY <1>2, <1>3, <2>1, ExceptSeq DEF IsList, Replaced
<1>4. CASE i \notin 1..Len(s)
  <2>1. s = [j \in 1..Len(s) |-> s[j]] /\ DOMAIN s = 1..Len(s)
    BY <1>1
  <2>2. [s EXCEPT ![i] = e] = s
    BY <1>4, <2>1
  <2> QED
    BY <1>4, <2>2 DEF Replaced
<1> QED
  BY <1>3, <1>4

LEMMA MergeKeepsPlans ==
  ASSUME NEW plans, IsPlans(plans), NEW p,
         {"action", "keys"} \subseteq DOMAIN p, p.action \in Actions
  PROVE  IsPlans(Merge(plans, p))
<1>1. ASSUME NEW e, "action" \in DOMAIN e, e.action \in Actions
      PROVE  IsPlans(Append(plans, e))
  BY <1>1, AppendIsList DEF IsPlans
<1>2. ASSUME NEW i PROVE IsPlans([plans EXCEPT ![i] = Absorb(plans, i, p)])
  <2> DEFINE e == Absorb(plans, i, p)
  <2>1. i \in 1..Len(plans) => "action" \in DOMAIN e /\ e.action \in Actions
    BY DEF Absorb, IsPlans, Actions
  <2> HIDE DEF e
  <2>2. IsPlans(Replaced(plans, i, e))
    BY <2>1, ReplacedIsList DEF IsPlans
  <2> QED
    BY <2>2 DEF Replaced, e
<1>3. \A K : LET e == [p EXCEPT !.keys = K]
             IN "action" \in DOMAIN e /\ e.action \in Actions
  OBVIOUS
<1>4. \/ \E K : Merge(plans, p) = Append(plans, [p EXCEPT !.keys = K])
      \/ \E i : Merge(plans, p) = [plans EXCEPT ![i] = Absorb(plans, i, p)]
  BY Zenon DEF Merge
<1> QED
  BY <1>1, <1>2, <1>3, <1>4

LEMMA AddUniversityKeepsList ==
  ASSUME NEW plans, IsList(plans), NEW row, NEW snap
  PROVE  IsList(AddUniversity(plans, row, snap))
<1>1. \/ AddUniversity(plans, row, snap) = plans
      \/ \E e : AddUniversity(plans, row, snap) = Append(plans, e)
      \/ \E i, name, action :
           AddUniversity(plans, row, snap)
             = [plans EXCEPT ![i].name = name, ![i].action = action]
  BY Zenon DEF AddUniversity
<1>2. CASE \E e : AddUniversity(plans, row, snap) = Append(plans, e)
  BY <1>2, AppendIsList
<1>3. CASE \E i, name, action :
             AddUniversity(plans, row, snap)
               = [plans EXCEPT ![i].name = name, ![i].action = action]
  <2>1. PICK i, name, action :
          AddUniversity(plans, row, snap)
            = [plans EXCEPT ![i].name = name, ![i].action = action]
    BY <1>3
  <2>2. PICK e, d :
          [plans EXCEPT ![i].name = name, ![i].action = action]
            = [[plans EXCEPT ![i] = e] EXCEPT ![i] = d]
    OBVIOUS
  <2>3. IsList(Replaced(Replaced(plans, i, e), i, d))
    BY ReplacedIsList
  <2> QED
    BY <2>1, <2>2, <2>3 DEF Replaced
<1> QED
  BY <1>1, <1>2, <1>3

LEMMA AddRowKeepsPlan ==
  ASSUME NEW acc, IsPlan(acc), NEW row, NEW snap
  PROVE  IsPlan(AddRow(acc, row, snap))
<1>1. \A c, lead : LET p == PersonPlan(c, lead, snap)
                   IN {"action", "keys"} \subseteq DOMAIN p /\ p.action \in Actions
  BY DEF PersonPlan, Actions
<1>2. \A a : IsPlan(a) => IsPlan([a EXCEPT !.errors = @ + 1])
  BY DEF IsPlan
<1>3. ASSUME NEW a, IsPlan(a) PROVE IsPlan(AddManager(a, row, snap))
  <2>1. \A c : IsPlans(Merge(a.managers, PersonPlan(c, None, snap)))
    BY <1>1, <1>3, MergeKeepsPlans DEF IsPlan
  <2>2. \A m : IsPlans(m) => IsPlan([a EXCEPT !.managers = m])
    BY <1>3 DEF IsPlan
  <2> QED
    BY <1>2, <1>3, <2>1, <2>2 DEF AddManager
<1>4. ASSUME NEW a, IsPlan(a) PROVE IsPlan(AddInstructor(a, row, snap))
  <2>1. \A c, l : IsPlans(Merge(a.instructors, PersonPlan(c, l, snap)))
    BY <1>1, <1>4, MergeKeepsPlans DEF IsPlan
  <2>2. \A m : IsPlans(m) => IsPlan([a EXCEPT !.instructors = m])
    BY <1>4 DEF IsPlan
  <2> QED
    BY <1>2, <1>4, <2>1, <2>2 DEF AddInstructor
<1>5. IsPlan([acc EXCEPT !.universities = AddUniversity(@, row, snap)])
  <2>1. IsList(AddUniversity(acc.universities, row, snap))
    BY AddUniversityKeepsList DEF IsPlan
  <2> QED
    BY <2>1 DEF IsPlan
<1> QED
  BY <1>2, <1>3, <1>4, <1>5 DEF AddRow

\* f holds what Resolve makes of the first rows, up to the n-th.
Resolves(f, rows, snap, n) ==
  f = [i \in 0..n |-> IF i = 0 THEN NothingPlanned ELSE AddRow(f[i - 1], rows[i], snap)]

LEMMA ResolutionExists ==
  ASSUME NEW rows, NEW snap, NEW n \in Nat PROVE \E f : Resolves(f, rows, snap, n)
<1> DEFINE S == {i \in Nat : \E f : Resolves(f, rows, snap, i)}
<1>1. 0 \in S
  <2> DEFINE f == [i \in 0..0 |-> NothingPlanned]
  <2>1. Resolves(f, rows, snap, 0)
    BY DEF Resolves
  <2> QED
    BY <2>1
<1>2. ASSUME NEW i \in S PROVE i + 1 \in S
  <2>1. PICK f : Resolves(f, rows, snap, i)
    OBVIOUS
  <2> DEFINE e == AddRow(f[i], rows[i + 1], snap)
             g == [j \in 0..(i + 1) |-> IF j = i + 1 THEN e ELSE f[j]]
             Next1(h, j) == IF j = 0 THEN NothingPlanned ELSE AddRow(h[j - 1], rows[j], snap)
  <2> HIDE DEF e
  <2>2. \A j \in 0..i : f[j] = Next1(f, j)
    BY <2>1 DEF Resolves
  <2>3. ASSUME NEW j \in 0..(i + 1) PROVE g[j] = Next1(g, j)
    <3>1. CASE j = i + 1
      <4>1. j # 0 /\ j - 1 = i /\ i \in 0..(i + 1) /\ i # i + 1
        BY <3>1
      <4> QED
        BY <3>1, <4>1 DEF e
    <3>2. CASE j # i + 1
      <4>1. j \in 0..i /\ (j # 0 => j - 1 \in 0..(i + 1) /\ j - 1 # i + 1)
        BY <3>2
      <4>2. g[j] = f[j] /\ (j # 0 => g[j - 1] = f[j - 1])
        BY <3>2, <4>1
      <4> HIDE DEF g
      <4> QED
        BY <2>2, <4>1, <4>2
    <3> QED
      BY <3>1, <3>2
  <2>4. g = [j \in 0..(i + 1) |-> g[j]]
    OBVIOUS
  <2> HIDE DEF g
  <2>5. Resolves(g, rows, snap, i + 1)
    BY <2>3, <2>4 DEF Resolves
  <2> QED
    BY <2>5
<1> QED
  BY <1>1, <1>2, InductionOnSets

\* A file becomes plans, whatever it says and whatever was read beside it.
LEMMA ResolveIsPlan ==
  ASSUME NEW rows, Len(rows) \in Nat, NEW snap PROVE IsPlan(Resolve(rows, snap))
<1> DEFINE F == CHOOSE f : Resolves(f, rows, snap, Len(rows))
<1>1. Resolves(F, rows, snap, Len(rows))
  BY ResolutionExists
<1>2. Resolve(rows, snap) = F[Len(rows)]
  BY DEF Resolve, Resolves
<1> HIDE DEF F
<1>3. \A i \in 0..Len(rows) :
        F[i] = IF i = 0 THEN NothingPlanned ELSE AddRow(F[i - 1], rows[i], snap)
  BY <1>1 DEF Resolves
<1> DEFINE T == {n \in Nat : n <= Len(rows) => IsPlan(F[n])}
<1>4. 0 \in T
  BY <1>3, EmptyIsPlans DEF NothingPlanned, IsPlan, IsPlans
<1>5. ASSUME NEW n \in T PROVE n + 1 \in T
  <2> SUFFICES ASSUME n + 1 <= Len(rows) PROVE IsPlan(F[n + 1])
    OBVIOUS
  <2>1. n + 1 \in 0..Len(rows) /\ n + 1 # 0 /\ (n + 1) - 1 = n /\ n <= Len(rows)
    OBVIOUS
  <2>2. F[n + 1] = AddRow(F[n], rows[n + 1], snap)
    BY <1>3, <2>1
  <2> QED
    BY <2>1, <2>2, AddRowKeepsPlan
<1>6. T = Nat
  BY <1>4, <1>5, InductionOnSets
<1> QED
  BY <1>2, <1>6

\* The plans of one action and those of the others make up the plans.
LEMMA PlannedParts ==
  ASSUME NEW plans, IsPlans(plans)
  PROVE  /\ \A a \in Actions : IsList(Planned(plans, a))
         /\ Len(Planned(plans, "create")) + Len(Planned(plans, "update"))
              + Len(Planned(plans, "unchanged")) = Len(plans)
<1>1. PICK S : plans \in Seq(S)
  BY DEF IsPlans, IsList
<1> DEFINE Of(a) == {p \in ToSet(plans) : p.action = a}
<1>2. /\ Of("create") \cap Of("update") = {}
      /\ Of("create") \cap Of("unchanged") = {}
      /\ Of("update") \cap Of("unchanged") = {}
  OBVIOUS
<1>3. \A i \in 1..Len(plans) : plans[i] \in Of("create") \cup Of("update") \cup Of("unchanged")
  <2>1. DOMAIN plans = 1..Len(plans)
    BY <1>1
  <2> QED
    BY <2>1 DEF IsPlans, ToSet, Actions
<1>4. \A a : Planned(plans, a) = Among(plans, Of(a))
  BY DEF Planned
<1> HIDE DEF Of
<1>5. /\ Among(plans, Of("create")) \in Seq(S) /\ Among(plans, Of("update")) \in Seq(S)
      /\ Among(plans, Of("unchanged")) \in Seq(S)
      /\ Len(Among(plans, Of("create"))) + Len(Among(plans, Of("update")))
           + Len(Among(plans, Of("unchanged"))) = Len(plans)
  BY <1>1, <1>2, <1>3, AmongParts
<1> QED
  BY <1>4, <1>5 DEF IsList, Actions

\* What a chunk may use of it is a list no longer than the chunk.
LEMMA UsableIsList ==
  ASSUME NEW chunk, IsList(chunk), NEW linked
  PROVE  /\ IsList(Usable(chunk, linked))
         /\ Len(Usable(chunk, linked)) \in 0..Len(chunk) /\ Len(chunk) \in Nat
<1>1. PICK S : chunk \in Seq(S)
  BY DEF IsList
<1> DEFINE A == {p \in ToSet(chunk) : p.uni \in linked}
           B == S \ A
<1>2. A \cap B = {} /\ A \cap {} = {} /\ B \cap {} = {}
  OBVIOUS
<1>3. \A i \in 1..Len(chunk) : chunk[i] \in A \cup B \cup {}
  BY <1>1
<1>4. Usable(chunk, linked) = Among(chunk, A)
  BY DEF Usable
<1> HIDE DEF A, B
<1>5. /\ Among(chunk, A) \in Seq(S) /\ Among(chunk, B) \in Seq(S) /\ Among(chunk, {}) \in Seq(S)
      /\ Len(Among(chunk, A)) + Len(Among(chunk, B)) + Len(Among(chunk, {})) = Len(chunk)
  BY <1>1, <1>2, <1>3, AmongParts
<1>6. /\ Len(Among(chunk, A)) \in Nat /\ Len(Among(chunk, B)) \in Nat
      /\ Len(Among(chunk, {})) \in Nat /\ Len(chunk) \in Nat
  BY <1>1, <1>5
<1> QED
  BY <1>4, <1>5, <1>6 DEF IsList

-----------------------------------------------------------------------------
(* The account every execution keeps of its plans.                         *)

\* Len, by a name of its own so that the provers take it for a number.
Size(s) == Len(s)

Total(t) == t.created + t.updated + t.skipped + t.failed

Left(s) == Size(s.creates) + Size(s.retry) + Size(s.updates)

\* The plans of the phases an execution has come to.
Due(s) ==
  Size(s.plan.universities)
    + (IF s.pc \in {"MANAGER", "INSTRUCTOR", "ended"} THEN Size(s.plan.managers) ELSE 0)
    + (IF s.pc \in {"INSTRUCTOR", "ended"} THEN Size(s.plan.instructors) ELSE 0)

\* What an execution's locals are, and that whatever its plans ask for is either
\* counted or still to be written.
HasLists(s) ==
  /\ DOMAIN s = DOMAIN Idle
  /\ IsPlan(s.plan)
  /\ s.tally \in [created : Nat, updated : Nat, skipped : Nat, failed : Nat]
  /\ IsList(s.todo) /\ IsList(s.creates) /\ IsList(s.retry) /\ IsList(s.updates)

Accounted(s) ==
  /\ HasLists(s)
  /\ s.pc \notin {"MANAGER", "INSTRUCTOR"} => Left(s) = 0
  /\ s.pc = "universities" => Total(s.tally) + Size(s.todo) = Due(s)
  /\ s.pc \in {"MANAGER", "INSTRUCTOR", "ended"} => Total(s.tally) + Left(s) = Due(s)

Accounts == file \in Files /\ DOMAIN run = Runs /\ \A r \in Runs : Accounted(run[r])

LEMMA SizesAreNat ==
  ASSUME NEW s, IsList(s)
  PROVE  /\ Size(s) \in Nat /\ (s = <<>> <=> Size(s) = 0)
         /\ s # <<>> => IsList(Tail(s)) /\ Size(Tail(s)) = Size(s) - 1
<1>1. PICK S : s \in Seq(S)
  BY DEF IsList
<1>2. Len(s) \in Nat /\ (s = <<>> <=> Len(s) = 0)
  BY <1>1
<1>3. s # <<>> => Tail(s) \in Seq(S) /\ Len(Tail(s)) = Len(s) - 1
  BY <1>1, HeadTailProperties
<1> QED
  BY <1>2, <1>3 DEF IsList, Size

LEMMA PlanSizes ==
  ASSUME NEW plan, IsPlan(plan)
  PROVE  /\ Size(plan.universities) \in Nat
         /\ Size(plan.managers) \in Nat /\ Size(plan.instructors) \in Nat
  BY SizesAreNat DEF IsPlan, IsPlans

LEMMA LeftIsNat ==
  ASSUME NEW s, HasLists(s)
  PROVE  /\ Size(s.todo) \in Nat /\ Size(s.creates) \in Nat
         /\ Size(s.retry) \in Nat /\ Size(s.updates) \in Nat
         /\ Written(s) <=> Left(s) = 0
<1>1. /\ Size(s.todo) \in Nat /\ Size(s.creates) \in Nat
      /\ Size(s.retry) \in Nat /\ Size(s.updates) \in Nat
      /\ s.creates = <<>> <=> Size(s.creates) = 0
      /\ s.retry = <<>> <=> Size(s.retry) = 0
      /\ s.updates = <<>> <=> Size(s.updates) = 0
  BY SizesAreNat DEF HasLists
<1>2. \A a, b, c \in Nat : a + b + c = 0 <=> a = 0 /\ b = 0 /\ c = 0
  OBVIOUS
<1>3. Left(s) = 0 <=> Size(s.creates) = 0 /\ Size(s.retry) = 0 /\ Size(s.updates) = 0
  BY <1>1, <1>2 DEF Left
<1> QED
  BY <1>1, <1>3 DEF Written

\* Counting n of something adds n to the total.
LEMMA CountedAdds ==
  ASSUME NEW t \in [created : Nat, updated : Nat, skipped : Nat, failed : Nat],
         NEW field \in {"created", "updated", "skipped", "failed"}, NEW n \in Nat
  PROVE  /\ Counted(t, field, n)
              \in [created : Nat, updated : Nat, skipped : Nat, failed : Nat]
         /\ Total(Counted(t, field, n)) = Total(t) + n /\ Total(t) \in Nat
  BY DEF Counted, Total

\* An execution that has nothing to write yet.
LEMMA IdleIsAccounted ==
  ASSUME NEW x, DOMAIN x = DOMAIN Idle,
         x.pc \notin {"universities", "MANAGER", "INSTRUCTOR", "ended"},
         x.plan = NothingPlanned, x.tally = NoTally,
         x.todo = <<>>, x.creates = <<>>, x.retry = <<>>, x.updates = <<>>
  PROVE  Accounted(x)
<1>1. IsPlan(NothingPlanned)
  BY EmptyIsPlans DEF IsPlan, IsPlans, NothingPlanned
<1>2. IsList(<<>>) /\ Size(<<>>) = 0
  BY EmptyIsPlans DEF IsPlans, Size
<1>3. HasLists(x)
  BY <1>1, <1>2 DEF HasLists, NoTally
<1>4. Left(x) = 0
  BY <1>2 DEF Left
<1> QED
  BY <1>3, <1>4 DEF Accounted

\* A step of one execution keeps the accounts if it keeps its own.
LEMMA OneKeepsAccounts ==
  ASSUME Accounts, NEW r \in Runs, NEW x, Accounted(x),
         run' = [run EXCEPT ![r] = x], UNCHANGED file
  PROVE  Accounts'
  BY DEF Accounts

\* What is written next is counted, once.
LEMMA NextIsCounted ==
  ASSUME NEW s, Accounted(s), NEW x,
         DOMAIN x = DOMAIN s, x.pc = s.pc, x.plan = s.plan,
         NEW field \in {"created", "updated", "skipped", "failed"},
         x.tally = Counted(s.tally, field, 1),
         \/ /\ s.todo # <<>> /\ x.todo = Tail(s.todo) /\ s.pc = "universities"
            /\ x.creates = s.creates /\ x.retry = s.retry /\ x.updates = s.updates
         \/ /\ s.retry # <<>> /\ x.retry = Tail(s.retry)
            /\ x.todo = s.todo /\ x.creates = s.creates /\ x.updates = s.updates
         \/ /\ s.updates # <<>> /\ x.updates = Tail(s.updates)
            /\ x.todo = s.todo /\ x.creates = s.creates /\ x.retry = s.retry
  PROVE  Accounted(x)
<1>1. HasLists(s) /\ Due(x) = Due(s)
  BY DEF Accounted, Due
<1>2. /\ x.tally \in [created : Nat, updated : Nat, skipped : Nat, failed : Nat]
      /\ Total(x.tally) = Total(s.tally) + 1 /\ Total(s.tally) \in Nat
  <2>1. s.tally \in [created : Nat, updated : Nat, skipped : Nat, failed : Nat]
    BY <1>1 DEF HasLists
  <2>2. /\ Counted(s.tally, field, 1)
             \in [created : Nat, updated : Nat, skipped : Nat, failed : Nat]
        /\ Total(Counted(s.tally, field, 1)) = Total(s.tally) + 1
        /\ Total(s.tally) \in Nat
    BY <2>1, CountedAdds
  <2> QED
    BY <2>2
<1>3. /\ Size(s.todo) \in Nat /\ Size(s.creates) \in Nat
      /\ Size(s.retry) \in Nat /\ Size(s.updates) \in Nat
  BY <1>1, LeftIsNat
<1>4. HasLists(x)
  BY <1>1, <1>2, SizesAreNat DEF HasLists
<1>5. CASE s.todo # <<>> /\ x.todo = Tail(s.todo) /\ s.pc = "universities"
           /\ x.creates = s.creates /\ x.retry = s.retry /\ x.updates = s.updates
  <2>1. Size(x.todo) = Size(s.todo) - 1
    BY <1>1, <1>5, SizesAreNat DEF HasLists
  <2>2. Left(x) = Left(s)
    BY <1>5 DEF Left
  <2> QED
    BY <1>1, <1>2, <1>3, <1>4, <1>5, <2>1, <2>2 DEF Accounted
<1>6. CASE /\ x.todo = s.todo
           /\ \/ /\ s.retry # <<>> /\ x.retry = Tail(s.retry)
                 /\ x.creates = s.creates /\ x.updates = s.updates
              \/ /\ s.updates # <<>> /\ x.updates = Tail(s.updates)
                 /\ x.creates = s.creates /\ x.retry = s.retry
  <2>1. Left(x) = Left(s) - 1 /\ Left(s) # 0 /\ Left(s) \in Nat
    <3>1. CASE s.retry # <<>> /\ x.retry = Tail(s.retry)
               /\ x.creates = s.creates /\ x.updates = s.updates
      <4>1. Size(x.retry) = Size(s.retry) - 1 /\ Size(s.retry) # 0
        BY <1>1, <3>1, SizesAreNat DEF HasLists
      <4> QED
        BY <1>3, <3>1, <4>1 DEF Left
    <3>2. CASE s.updates # <<>> /\ x.updates = Tail(s.updates)
               /\ x.creates = s.creates /\ x.retry = s.retry
      <4>1. Size(x.updates) = Size(s.updates) - 1 /\ Size(s.updates) # 0
        BY <1>1, <3>2, SizesAreNat DEF HasLists
      <4> QED
        BY <1>3, <3>2, <4>1 DEF Left
    <3> QED
      BY <1>6, <3>1, <3>2
  <2>2. s.pc \in {"MANAGER", "INSTRUCTOR"}
    BY <2>1 DEF Accounted
  <2> QED
    BY <1>1, <1>2, <1>4, <2>1, <2>2 DEF Accounted
<1> QED
  BY <1>5, <1>6

\* The people of a phase join the account.
LEMMA PhaseIsAccounted ==
  ASSUME NEW s, Accounted(s), NEW kind,
         \/ /\ s.pc = "universities" /\ s.todo = <<>> /\ kind = "MANAGER"
         \/ /\ s.pc = "MANAGER" /\ Written(s) /\ kind = "INSTRUCTOR",
         NEW plans,
         plans = IF kind = "MANAGER" THEN s.plan.managers ELSE s.plan.instructors
  PROVE  Accounted(StartsPeople(s, kind, plans))
<1> DEFINE x == StartsPeople(s, kind, plans)
<1>1. /\ HasLists(s) /\ IsPlans(plans)
      /\ Size(s.plan.universities) \in Nat /\ Size(s.plan.managers) \in Nat
      /\ Size(s.plan.instructors) \in Nat /\ Size(plans) \in Nat
      /\ Size(s.todo) \in Nat /\ Left(s) = 0 /\ (s.todo = <<>> <=> Size(s.todo) = 0)
  BY PlanSizes, LeftIsNat, SizesAreNat DEF Accounted, HasLists, IsPlan, IsPlans
<1>2. /\ DOMAIN x = DOMAIN s /\ x.pc = kind /\ x.plan = s.plan /\ x.todo = s.todo
      /\ x.creates = Planned(plans, "create") /\ x.updates = Planned(plans, "update")
      /\ x.retry = s.retry
      /\ x.tally = Counted(s.tally, "skipped", Size(Planned(plans, "unchanged")))
  BY <1>1 DEF StartsPeople, HasLists, Idle, Size
<1>3. /\ IsList(Planned(plans, "create")) /\ IsList(Planned(plans, "update"))
      /\ Size(Planned(plans, "create")) \in Nat /\ Size(Planned(plans, "update")) \in Nat
      /\ Size(Planned(plans, "unchanged")) \in Nat
      /\ Size(Planned(plans, "create")) + Size(Planned(plans, "update"))
           + Size(Planned(plans, "unchanged")) = Size(plans)
  BY <1>1, PlannedParts, SizesAreNat DEF Actions, Size
<1>4. /\ x.tally \in [created : Nat, updated : Nat, skipped : Nat, failed : Nat]
      /\ Total(x.tally) = Total(s.tally) + Size(Planned(plans, "unchanged"))
      /\ Total(s.tally) \in Nat
  BY <1>1, <1>2, <1>3, CountedAdds DEF HasLists
<1> HIDE DEF x
<1>5. HasLists(x)
  BY <1>1, <1>2, <1>3, <1>4 DEF HasLists
<1>6. Size(x.retry) = 0
  BY <1>1, <1>2, LeftIsNat, SizesAreNat DEF HasLists, Written
<1>7. Left(x) = Size(Planned(plans, "create")) + Size(Planned(plans, "update"))
  BY <1>2, <1>3, <1>6 DEF Left
<1>8. Due(x) = Due(s) + Size(plans) /\ Due(s) \in Nat
  BY <1>1, <1>2 DEF Due
<1>9. Total(s.tally) = Due(s)
  BY <1>1, <1>4 DEF Accounted
<1>10. Total(x.tally) + Left(x) = Due(x)
  BY <1>1, <1>3, <1>4, <1>7, <1>8, <1>9
<1>11. x.pc \in {"MANAGER", "INSTRUCTOR"}
  BY <1>2
<1>12. Accounted(x)
  BY <1>5, <1>10, <1>11 DEF Accounted
<1> QED
  BY <1>12 DEF x

\* A list cut in two after its first n members.
LEMMA CutInTwo ==
  ASSUME NEW q, IsList(q), NEW n \in Nat, n <= Size(q)
  PROVE  /\ IsList(SubSeq(q, 1, n)) /\ Size(SubSeq(q, 1, n)) = n
         /\ IsList(SubSeq(q, n + 1, Len(q)))
         /\ Size(SubSeq(q, n + 1, Len(q))) = Size(q) - n
<1>1. PICK S : q \in Seq(S)
  BY DEF IsList
<1>2. Len(q) \in Nat /\ n <= Len(q) /\ \A i \in 1..Len(q) : q[i] \in S
  BY <1>1 DEF Size
<1>3. SubSeq(q, 1, n) \in Seq(S) /\ Len(SubSeq(q, 1, n)) = n
  <2>1. \A i \in 1..n : q[i] \in S
    BY <1>2
  <2> QED
    BY <1>2, <2>1, SubSeqProperties
<1>4. /\ SubSeq(q, n + 1, Len(q)) \in Seq(S)
      /\ Len(SubSeq(q, n + 1, Len(q))) = Len(q) - n
  <2>1. \A i \in (n + 1)..Len(q) : q[i] \in S
    BY <1>2
  <2> QED
    BY <1>2, <2>1, SubSeqProperties
<1> QED
  BY <1>3, <1>4 DEF IsList, Size

LEMMA WritesUniversityAccounts ==
  ASSUME Accounts, NEW r \in Runs, WritesUniversity(r) PROVE Accounts'
<1> DEFINE s == run[r]
<1>1. Accounted(s) /\ HasLists(s) /\ s.pc = "universities" /\ s.todo # <<>>
  BY DEF Accounts, Accounted, WritesUniversity
<1>2. {"todo", "linked", "tally"} \subseteq DOMAIN s
  BY <1>1 DEF HasLists, Idle
<1> DEFINE X(links, field) == [s EXCEPT !.todo = Tail(s.todo), !.linked = links,
                                        !.tally = Counted(s.tally, field, 1)]
<1>3. PICK field \in {"created", "updated", "skipped", "failed"} :
        \/ run' = [run EXCEPT ![r] = X(s.linked \cup {Head(s.todo).uni}, field)]
        \/ run' = [run EXCEPT ![r] = X(s.linked, field)]
  BY <1>2 DEF WritesUniversity
<1>4. PICK links : run' = [run EXCEPT ![r] = X(links, field)]
  BY <1>3
<1> DEFINE x == X(links, field)
<1>5. /\ DOMAIN x = DOMAIN s /\ x.pc = s.pc /\ x.plan = s.plan /\ x.todo = Tail(s.todo)
      /\ x.creates = s.creates /\ x.retry = s.retry /\ x.updates = s.updates
      /\ x.tally = Counted(s.tally, field, 1)
  BY <1>1 DEF HasLists, Idle
<1>6. UNCHANGED file
  BY DEF WritesUniversity
<1> HIDE DEF X
<1>7. Accounted(x)
  BY <1>1, <1>5, NextIsCounted
<1> QED
  BY <1>4, <1>6, <1>7, OneKeepsAccounts

LEMMA WritesChunkAccounts ==
  ASSUME Accounts, NEW r \in Runs, WritesChunk(r) PROVE Accounts'
<1> DEFINE s == run[r]
           size == IF Len(s.creates) < Chunk THEN Len(s.creates) ELSE Chunk
           chunk == SubSeq(s.creates, 1, size)
           usable == Usable(chunk, s.linked)
           creates == SubSeq(s.creates, size + 1, Len(s.creates))
           tally == Counted(s.tally, "failed", size - Len(usable))
           rest == [s EXCEPT !.creates = creates, !.tally = tally]
           x == [rest EXCEPT !.tally = Counted(tally, "created", Len(usable))]
           y == [rest EXCEPT !.retry = usable]
<1>1. /\ Accounted(s) /\ HasLists(s) /\ UNCHANGED file
      /\ s.pc \in {"MANAGER", "INSTRUCTOR"} /\ s.retry = <<>>
  BY DEF Accounts, Accounted, WritesChunk
<1>2. run' = [run EXCEPT ![r] = x] \/ run' = [run EXCEPT ![r] = y]
  <2>1. DOMAIN s = DOMAIN Idle /\ rest.tally = tally
    BY <1>1 DEF HasLists, Idle
  <2>2. \/ run' = [run EXCEPT ![r] =
                    [rest EXCEPT !.tally = Counted(@, "created", Len(usable))]]
        \/ run' = [run EXCEPT ![r] = y]
    BY Zenon DEF WritesChunk
  <2> HIDE DEF rest, tally, usable
  <2> QED
    BY <2>1, <2>2
<1>3. /\ size \in Nat /\ size <= Size(s.creates) /\ Size(s.creates) \in Nat
      /\ IsList(s.creates)
  BY <1>1, SizesAreNat, ExecuteAssumption DEF HasLists, Size
<1> HIDE DEF size
<1>4. /\ IsList(chunk) /\ Size(chunk) = size
      /\ IsList(creates) /\ Size(creates) = Size(s.creates) - size
  BY <1>3, CutInTwo
<1> HIDE DEF chunk, creates
<1>5. IsList(usable) /\ Size(usable) \in 0..size /\ Len(usable) = Size(usable)
  BY <1>4, UsableIsList DEF Size
<1> HIDE DEF usable
<1>6. Size(usable) \in Nat /\ size - Size(usable) \in Nat
  BY <1>3, <1>5
<1>7. s.tally \in [created : Nat, updated : Nat, skipped : Nat, failed : Nat]
  BY <1>1 DEF HasLists
<1>8. /\ tally \in [created : Nat, updated : Nat, skipped : Nat, failed : Nat]
      /\ Total(tally) = Total(s.tally) + (size - Size(usable))
      /\ Total(s.tally) \in Nat
  <2>1. tally = Counted(s.tally, "failed", size - Size(usable))
    BY <1>5
  <2> HIDE DEF tally
  <2> QED
    BY <1>6, <1>7, <2>1, CountedAdds
<1> HIDE DEF tally
<1>9. /\ Counted(tally, "created", Size(usable))
           \in [created : Nat, updated : Nat, skipped : Nat, failed : Nat]
      /\ Total(Counted(tally, "created", Size(usable))) = Total(tally) + Size(usable)
      /\ Total(tally) \in Nat
  BY <1>6, <1>8, CountedAdds
<1>10. Size(s.retry) = 0 /\ Size(s.updates) \in Nat
  BY <1>1, LeftIsNat, SizesAreNat DEF HasLists
<1>11. Total(s.tally) + (Size(s.creates) + Size(s.updates)) = Due(s)
  <2>1. Total(s.tally) + Left(s) = Due(s)
    BY <1>1 DEF Accounted
  <2> QED
    BY <1>3, <1>10, <2>1 DEF Left
<1>12. Accounted(x)
  <2>1. /\ DOMAIN x = DOMAIN s /\ x.pc = s.pc /\ x.plan = s.plan /\ x.todo = s.todo
        /\ x.creates = creates /\ x.retry = s.retry /\ x.updates = s.updates
        /\ x.tally = Counted(tally, "created", Size(usable))
    BY <1>1, <1>5 DEF HasLists, Idle
  <2> HIDE DEF x
  <2>2. Due(x) = Due(s)
    BY <2>1 DEF Due
  <2>3. Left(x) = (Size(s.creates) - size) + Size(s.updates)
    BY <1>3, <1>4, <1>10, <2>1 DEF Left
  <2>4. Total(x.tally) = Total(s.tally) + size
    BY <1>3, <1>6, <1>8, <1>9, <2>1
  <2>5. Total(x.tally) + Left(x) = Due(x)
    BY <1>3, <1>8, <1>10, <1>11, <2>2, <2>3, <2>4
  <2>6. HasLists(x)
    BY <1>1, <1>4, <1>9, <2>1 DEF HasLists
  <2> QED
    BY <1>1, <2>1, <2>5, <2>6 DEF Accounted
<1>13. Accounted(y)
  <2>1. /\ DOMAIN y = DOMAIN s /\ y.pc = s.pc /\ y.plan = s.plan /\ y.todo = s.todo
        /\ y.creates = creates /\ y.retry = usable /\ y.updates = s.updates
        /\ y.tally = tally
    BY <1>1 DEF HasLists, Idle
  <2> HIDE DEF y
  <2>2. Due(y) = Due(s)
    BY <2>1 DEF Due
  <2>3. Left(y) = (Size(s.creates) - size) + Size(usable) + Size(s.updates)
    BY <1>4, <2>1 DEF Left
  <2>4. Total(y.tally) = Total(s.tally) + (size - Size(usable))
    BY <1>8, <2>1
  <2>5. Total(y.tally) + Left(y) = Due(y)
    BY <1>3, <1>6, <1>8, <1>10, <1>11, <2>2, <2>3, <2>4
  <2>6. HasLists(y)
    BY <1>1, <1>4, <1>5, <1>8, <2>1 DEF HasLists
  <2> QED
    BY <1>1, <2>1, <2>5, <2>6 DEF Accounted
<1> HIDE DEF x, y
<1> QED
  BY <1>1, <1>2, <1>12, <1>13, OneKeepsAccounts

LEMMA RetriesOneAccounts ==
  ASSUME Accounts, NEW r \in Runs, RetriesOne(r) PROVE Accounts'
<1> DEFINE s == run[r]
<1>1. Accounted(s) /\ HasLists(s) /\ s.retry # <<>>
  BY DEF Accounts, Accounted, RetriesOne
<1>2. PICK field \in {"created", "updated", "skipped", "failed"} :
        run' = [run EXCEPT ![r].retry = Tail(@), ![r].tally = Counted(@, field, 1)]
  BY DEF RetriesOne
<1> DEFINE x == [s EXCEPT !.retry = Tail(s.retry), !.tally = Counted(s.tally, field, 1)]
<1>3. /\ DOMAIN x = DOMAIN s /\ x.pc = s.pc /\ x.plan = s.plan /\ x.todo = s.todo
      /\ x.creates = s.creates /\ x.retry = Tail(s.retry) /\ x.updates = s.updates
      /\ x.tally = Counted(s.tally, field, 1)
  BY <1>1 DEF HasLists, Idle
<1>4. run' = [run EXCEPT ![r] = x] /\ UNCHANGED file
  BY <1>1, <1>2 DEF RetriesOne, Accounts, HasLists, Idle
<1> HIDE DEF x
<1>5. Accounted(x)
  BY <1>1, <1>3, NextIsCounted
<1> QED
  BY <1>4, <1>5, OneKeepsAccounts

LEMMA UpdatesOneAccounts ==
  ASSUME Accounts, NEW r \in Runs, UpdatesOne(r) PROVE Accounts'
<1> DEFINE s == run[r]
<1>1. Accounted(s) /\ HasLists(s) /\ s.updates # <<>>
  BY DEF Accounts, Accounted, UpdatesOne
<1>2. PICK field \in {"created", "updated", "skipped", "failed"} :
        run' = [run EXCEPT ![r].updates = Tail(@), ![r].tally = Counted(@, field, 1)]
  BY DEF UpdatesOne
<1> DEFINE x == [s EXCEPT !.updates = Tail(s.updates), !.tally = Counted(s.tally, field, 1)]
<1>3. /\ DOMAIN x = DOMAIN s /\ x.pc = s.pc /\ x.plan = s.plan /\ x.todo = s.todo
      /\ x.creates = s.creates /\ x.retry = s.retry /\ x.updates = Tail(s.updates)
      /\ x.tally = Counted(s.tally, field, 1)
  BY <1>1 DEF HasLists, Idle
<1>4. run' = [run EXCEPT ![r] = x] /\ UNCHANGED file
  BY <1>1, <1>2 DEF UpdatesOne, Accounts, HasLists, Idle
<1> HIDE DEF x
<1>5. Accounted(x)
  BY <1>1, <1>3, NextIsCounted
<1> QED
  BY <1>4, <1>5, OneKeepsAccounts

\* A step that neither counts nor plans.
LEMMA AccountedAlike ==
  ASSUME NEW s, Accounted(s), NEW x, DOMAIN x = DOMAIN s, x.plan = s.plan, x.todo = s.todo,
         x.tally = s.tally, x.creates = s.creates, x.retry = s.retry, x.updates = s.updates,
         x.pc = s.pc \/ (s.pc = "INSTRUCTOR" /\ x.pc = "ended" /\ Written(s))
  PROVE  Accounted(x)
<1>1. HasLists(x) /\ Left(x) = Left(s) /\ Due(x) = Due(s)
  BY DEF Accounted, HasLists, Left, Due
<1>2. Written(s) => Left(s) = 0
  BY LeftIsNat DEF Accounted
<1> QED
  BY <1>1, <1>2 DEF Accounted

LEMMA InitAccounts == Init => Accounts
<1> SUFFICES ASSUME Init PROVE Accounts
  OBVIOUS
<1>1. Accounted(Idle)
  <2>1. /\ Idle.pc = "idle" /\ Idle.plan = NothingPlanned /\ Idle.tally = NoTally
        /\ Idle.todo = <<>> /\ Idle.creates = <<>> /\ Idle.retry = <<>>
        /\ Idle.updates = <<>>
    BY DEF Idle
  <2> QED
    BY <2>1, IdleIsAccounted
<1> QED
  BY <1>1 DEF Init, Accounts

LEMMA StepAccounts ==
  ASSUME Accounts, NEW r \in Runs, Step(r) PROVE Accounts'
<1> DEFINE s == run[r]
<1>0. Accounted(s) /\ DOMAIN s = DOMAIN Idle /\ r \in DOMAIN run
  BY DEF Accounts, Accounted, HasLists
<1>1. CASE Starts(r)
  <2> DEFINE x == [Idle EXCEPT !.pc = "users",
                              !.snap.universities = UniversitiesRead(file, universities)]
  <2>1. /\ DOMAIN x = DOMAIN Idle /\ x.pc = "users" /\ x.plan = NothingPlanned
        /\ x.tally = NoTally /\ x.todo = <<>> /\ x.creates = <<>> /\ x.retry = <<>>
        /\ x.updates = <<>>
    BY DEF Idle
  <2>2. run' = [run EXCEPT ![r] = x] /\ UNCHANGED file
    BY <1>1 DEF Starts
  <2> HIDE DEF x
  <2>3. Accounted(x)
    BY <2>1, IdleIsAccounted
  <2> QED
    BY <2>2, <2>3, OneKeepsAccounts
<1>2. CASE ReadsUsers(r)
  <2> DEFINE x == [s EXCEPT !.pc = "profiles", !.snap.users = UsersRead(file, people)]
  <2>1. run' = [run EXCEPT ![r] = x] /\ UNCHANGED file
    BY <1>0, <1>2 DEF ReadsUsers
  <2>2. s.pc = "users" /\ HasLists(s) /\ Left(s) = 0
    BY <1>0, <1>2 DEF ReadsUsers, Accounted
  <2>3. /\ DOMAIN x = DOMAIN s /\ x.pc = "profiles" /\ x.plan = s.plan /\ x.todo = s.todo
        /\ x.tally = s.tally /\ x.creates = s.creates /\ x.retry = s.retry
        /\ x.updates = s.updates
    BY <1>0 DEF Idle
  <2> HIDE DEF x
  <2>4. Accounted(x)
    BY <2>2, <2>3 DEF Accounted, HasLists, Left
  <2> QED
    BY <2>1, <2>4, OneKeepsAccounts
<1>3. CASE ReadsProfiles(r)
  <2>1. PICK snap : run' = [run EXCEPT ![r] =
                      [Idle EXCEPT !.pc = "universities", !.snap = snap,
                                   !.plan = Resolve(file, snap),
                                   !.todo = Resolve(file, snap).universities]]
    BY <1>3 DEF ReadsProfiles
  <2> DEFINE plan == Resolve(file, snap)
             x == [Idle EXCEPT !.pc = "universities", !.snap = snap, !.plan = plan,
                              !.todo = plan.universities]
  <2>2. IsPlan(plan)
    <3>1. Len(file) \in Nat
      BY FilesAssumption DEF Accounts
    <3> QED
      BY <3>1, ResolveIsPlan
  <2> HIDE DEF plan
  <2>3. /\ DOMAIN x = DOMAIN Idle /\ x.pc = "universities" /\ x.plan = plan
        /\ x.todo = plan.universities /\ x.tally = NoTally
        /\ x.creates = <<>> /\ x.retry = <<>> /\ x.updates = <<>>
    BY DEF Idle
  <2> HIDE DEF x
  <2>4. IsList(<<>>) /\ Size(<<>>) = 0
    BY EmptyIsPlans DEF IsPlans, Size
  <2>5. HasLists(x)
    BY <2>2, <2>3, <2>4 DEF HasLists, NoTally, IsPlan
  <2>6. Left(x) = 0 /\ Total(x.tally) = 0
    BY <2>3, <2>4 DEF Left, Total, NoTally
  <2>7. Size(plan.universities) \in Nat
    BY <2>2, PlanSizes
  <2>8. Due(x) = Size(x.todo) /\ Total(x.tally) + Size(x.todo) = Due(x)
    BY <2>3, <2>6, <2>7 DEF Due
  <2>9. Accounted(x)
    BY <2>3, <2>5, <2>6, <2>8 DEF Accounted
  <2>10. run' = [run EXCEPT ![r] = x] /\ UNCHANGED file
    BY <1>3, <2>1 DEF ReadsProfiles, x, plan
  <2> QED
    BY <2>9, <2>10, OneKeepsAccounts
<1>4. CASE WritesUniversity(r)
  BY <1>4, WritesUniversityAccounts
<1>5. CASE ReadsManagers(r)
  <2>1. /\ run' = [run EXCEPT ![r] = StartsPeople(s, "MANAGER", s.plan.managers)]
        /\ UNCHANGED file /\ s.pc = "universities" /\ s.todo = <<>>
    BY <1>5 DEF ReadsManagers
  <2>2. Accounted(StartsPeople(s, "MANAGER", s.plan.managers))
    BY <1>0, <2>1, PhaseIsAccounted
  <2> QED
    BY <2>1, <2>2, OneKeepsAccounts
<1>6. CASE RereadsManagers(r)
  <2>1. /\ run' = [run EXCEPT ![r] = StartsPeople(s, "INSTRUCTOR", s.plan.instructors)]
        /\ UNCHANGED file /\ s.pc = "MANAGER" /\ Written(s)
    BY <1>6 DEF RereadsManagers
  <2>2. Accounted(StartsPeople(s, "INSTRUCTOR", s.plan.instructors))
    BY <1>0, <2>1, PhaseIsAccounted
  <2> QED
    BY <2>1, <2>2, OneKeepsAccounts
<1>7. CASE WritesChunk(r)
  BY <1>7, WritesChunkAccounts
<1>8. CASE RetriesOne(r)
  BY <1>8, RetriesOneAccounts
<1>9. CASE UpdatesOne(r)
  BY <1>9, UpdatesOneAccounts
<1>10. CASE FindsHeir(r)
  <2> DEFINE Dropped(u) == [s EXCEPT !.linked = @ \ {u}]
             Chosen(u, x) == [s EXCEPT !.linked = @ \ {u}, !.heir = [uni |-> u, id |-> x]]
  <2>1. PICK u \in s.linked :
          \/ run' = [run EXCEPT ![r] = Dropped(u)]
          \/ \E x \in FirstManagers(u) : run' = [run EXCEPT ![r] = Chosen(u, x)]
    <3>1. PICK u \in s.linked :
            \/ run' = [run EXCEPT ![r].linked = @ \ {u}]
            \/ \E x \in FirstManagers(u) :
                 run' = [run EXCEPT ![r].linked = @ \ {u},
                                    ![r].heir = [uni |-> u, id |-> x]]
      BY <1>10 DEF FindsHeir
    <3>2. [run EXCEPT ![r].linked = @ \ {u}] = [run EXCEPT ![r] = Dropped(u)]
      OBVIOUS
    <3>3. ASSUME NEW x
          PROVE  [run EXCEPT ![r].linked = @ \ {u}, ![r].heir = [uni |-> u, id |-> x]]
                   = [run EXCEPT ![r] = Chosen(u, x)]
      BY <1>0
    <3> HIDE DEF Dropped, Chosen
    <3> QED
      BY <3>1, <3>2, <3>3
  <2>2. UNCHANGED file
    BY <1>10 DEF FindsHeir
  <2>3. Accounted(Dropped(u))
    <3>1. LET x == Dropped(u)
          IN /\ DOMAIN x = DOMAIN s /\ x.pc = s.pc /\ x.plan = s.plan /\ x.todo = s.todo
             /\ x.tally = s.tally /\ x.creates = s.creates /\ x.retry = s.retry
             /\ x.updates = s.updates
      BY <1>0 DEF Idle
    <3> HIDE DEF Dropped
    <3> QED
      BY <1>0, <3>1, AccountedAlike
  <2>4. ASSUME NEW m PROVE Accounted(Chosen(u, m))
    <3>1. LET x == Chosen(u, m)
          IN /\ DOMAIN x = DOMAIN s /\ x.pc = s.pc /\ x.plan = s.plan /\ x.todo = s.todo
             /\ x.tally = s.tally /\ x.creates = s.creates /\ x.retry = s.retry
             /\ x.updates = s.updates
      BY <1>0 DEF Idle
    <3> HIDE DEF Chosen
    <3> QED
      BY <1>0, <3>1, AccountedAlike
  <2> HIDE DEF Dropped, Chosen
  <2> QED
    BY <2>1, <2>2, <2>3, <2>4, OneKeepsAccounts
<1>11. CASE Promotes(r)
  <2> DEFINE x == [s EXCEPT !.heir = None]
  <2>1. /\ DOMAIN x = DOMAIN s /\ x.pc = s.pc /\ x.plan = s.plan /\ x.todo = s.todo
        /\ x.tally = s.tally /\ x.creates = s.creates /\ x.retry = s.retry
        /\ x.updates = s.updates
    BY <1>0 DEF Idle
  <2>2. run' = [run EXCEPT ![r] = x] /\ UNCHANGED file
    BY <1>0, <1>11 DEF Promotes
  <2> HIDE DEF x
  <2>3. Accounted(x)
    BY <1>0, <2>1, AccountedAlike
  <2> QED
    BY <2>2, <2>3, OneKeepsAccounts
<1>12. CASE Ends(r)
  <2> DEFINE x == [s EXCEPT !.pc = "ended"]
  <2>1. /\ DOMAIN x = DOMAIN s /\ x.pc = "ended" /\ x.plan = s.plan /\ x.todo = s.todo
        /\ x.tally = s.tally /\ x.creates = s.creates /\ x.retry = s.retry
        /\ x.updates = s.updates /\ s.pc = "INSTRUCTOR" /\ Written(s)
    BY <1>0, <1>12 DEF Ends, Idle
  <2>2. run' = [run EXCEPT ![r] = x] /\ UNCHANGED file
    BY <1>0, <1>12 DEF Ends
  <2> HIDE DEF x
  <2>3. Accounted(x)
    BY <1>0, <2>1, AccountedAlike
  <2> QED
    BY <2>2, <2>3, OneKeepsAccounts
<1>13. CASE Dies(r)
  <2> DEFINE x == [Idle EXCEPT !.pc = "dead"]
  <2>1. /\ DOMAIN x = DOMAIN Idle /\ x.pc = "dead" /\ x.plan = NothingPlanned
        /\ x.tally = NoTally /\ x.todo = <<>> /\ x.creates = <<>> /\ x.retry = <<>>
        /\ x.updates = <<>>
    BY DEF Idle
  <2>2. run' = [run EXCEPT ![r] = x] /\ UNCHANGED file
    BY <1>13 DEF Dies
  <2> HIDE DEF x
  <2>3. Accounted(x)
    BY <2>1, IdleIsAccounted
  <2> QED
    BY <2>2, <2>3, OneKeepsAccounts
<1> QED
  BY <1>1, <1>2, <1>3, <1>4, <1>5, <1>6, <1>7, <1>8, <1>9, <1>10, <1>11, <1>12, <1>13 DEF Step

LEMMA NextAccounts ==
  ASSUME Accounts, [Next]_vars PROVE Accounts'
<1>1. CASE OpensAccount \/ OpensUniversity
  BY <1>1 DEF OpensAccount, OpensUniversity, Accounts
<1>2. ASSUME NEW r \in Runs, Step(r) PROVE Accounts'
  BY <1>2, StepAccounts
<1>3. CASE UNCHANGED vars
  BY <1>3 DEF vars, Accounts
<1> QED
  BY <1>1, <1>2, <1>3 DEF Next

(* When a run ends, every plan of its file has been counted once, whatever *)
(* the file says, however the chunks are cut and retried, and whoever      *)
(* writes beside it.                                                       *)
THEOREM ImportCountsEveryPlan == Spec => []EveryPlanIsCounted
<1>1. Init => Accounts
  BY InitAccounts
<1>2. Accounts /\ [Next]_vars => Accounts'
  BY NextAccounts
<1>3. Accounts => EveryPlanIsCounted
  <2> SUFFICES ASSUME Accounts, NEW r \in Runs, run[r].pc = "ended"
               PROVE  LET t == run[r].tally
                      IN t.created + t.updated + t.skipped + t.failed
                           = Len(run[r].plan.universities) + Len(run[r].plan.managers)
                               + Len(run[r].plan.instructors)
    BY DEF EveryPlanIsCounted
  <2>1. Accounted(run[r]) /\ HasLists(run[r])
    BY DEF Accounts, Accounted
  <2>2. Total(run[r].tally) + Left(run[r]) = Due(run[r]) /\ Left(run[r]) = 0
    BY <2>1 DEF Accounted
  <2>3. Total(run[r].tally) \in Nat
    BY <2>1, CountedAdds DEF HasLists
  <2>4. Total(run[r].tally) = Due(run[r])
    BY <2>2, <2>3
  <2>5. Due(run[r]) = Size(run[r].plan.universities) + Size(run[r].plan.managers)
                        + Size(run[r].plan.instructors)
    BY DEF Due
  <2> QED
    BY <2>4, <2>5 DEF Total, Size
<1> QED
  BY <1>1, <1>2, <1>3, PTL DEF Spec

-----------------------------------------------------------------------------
(* What one row adds to the plans of the rows before it: a plan of its own,*)
(* or what it knows to the plan that holds one of its names.               *)

PlanColumns ==
  {"kind", "uni", "code", "email", "name", "status", "lead", "id", "action", "keys"}

LEMMA KeysAreThree ==
  ASSUME NEW p
  PROVE  /\ Len(KeysOf(p)) = 3
         /\ ToSet(KeysOf(p)) = {<<p.uni, "ID", p.id>>, <<p.uni, "EMAIL", p.email>>,
                                <<p.uni, "CODE", p.code>>}
         /\ \A i \in 1..3 : KeysOf(p)[i] \in ToSet(KeysOf(p))
<1>1. KeysOf(p) = << <<p.uni, "ID", p.id>>, <<p.uni, "EMAIL", p.email>>,
                     <<p.uni, "CODE", p.code>> >>
  BY DEF KeysOf
<1>2. DOMAIN KeysOf(p) = 1..3 /\ Len(KeysOf(p)) = 3
  BY <1>1
<1>3. ToSet(KeysOf(p)) = {KeysOf(p)[i] : i \in 1..3}
  BY <1>2 DEF ToSet
<1> QED
  BY <1>1, <1>2, <1>3

LEMMA MergeCases ==
  ASSUME NEW plans, IsList(plans), NEW p
  PROVE  \/ /\ \A k \in NamesOf(p) : Holding(plans, k) = {}
            /\ Merge(plans, p) = Append(plans, [p EXCEPT !.keys = NamesOf(p)])
         \/ \E i \in 1..Len(plans) :
              /\ \E k \in ToSet(KeysOf(p)) : k \in plans[i].keys
              /\ Merge(plans, p) = Replaced(plans, i, Absorb(plans, i, p))
<1> DEFINE I == {n \in 1..Len(KeysOf(p)) : Holding(plans, KeysOf(p)[n]) # {}}
           first == IF I # {} THEN Min(I) ELSE 0
           i == CHOOSE i \in Holding(plans, KeysOf(p)[first]) : TRUE
<1>1. Merge(plans, p) = IF first = 0
                        THEN Append(plans, [p EXCEPT !.keys = NamesOf(p)])
                        ELSE [plans EXCEPT ![i] = Absorb(plans, i, p)]
  BY DEF Merge, SelectInSeq
<1>2. \/ first = 0 /\ I = {}
      \/ first \in I /\ first # 0
  <2>1. I \subseteq Nat \ {0}
    BY KeysAreThree
  <2> HIDE DEF I
  <2>2. I # {} => \E m \in I : \A n \in I : m <= n
    BY <2>1, LeastNumber
  <2>3. I # {} => Min(I) \in I
    BY <2>2 DEF Min
  <2> QED
    BY <2>1, <2>3
<1>3. /\ ToSet(KeysOf(p)) = {KeysOf(p)[n] : n \in 1..Len(KeysOf(p))}
      /\ NamesOf(p) \subseteq ToSet(KeysOf(p))
  BY DEF KeysOf, ToSet, NamesOf
<1> HIDE DEF first
<1>4. CASE first = 0 /\ I = {}
  BY <1>1, <1>3, <1>4
<1>5. CASE first \in I /\ first # 0
  <2>1. i \in Holding(plans, KeysOf(p)[first]) /\ KeysOf(p)[first] \in ToSet(KeysOf(p))
    BY <1>3, <1>5
  <2> HIDE DEF i
  <2>2. DOMAIN plans = 1..Len(plans)
    BY DEF IsList
  <2>3. i \in 1..Len(plans) /\ KeysOf(p)[first] \in plans[i].keys
    BY <2>1, <2>2 DEF Holding
  <2> QED
    BY <1>1, <1>5, <2>1, <2>3 DEF Replaced
<1> QED
  BY <1>2, <1>4, <1>5

\* No two plans hold a name together.
Apart(plans) ==
  \A i, j \in 1..Len(plans) : i # j => plans[i].keys \cap plans[j].keys = {}

LEMMA MergeKeepsApart ==
  ASSUME NEW plans, IsList(plans), NEW p, DOMAIN p = PlanColumns,
         \A i \in 1..Len(plans) : DOMAIN plans[i] = PlanColumns, Apart(plans)
  PROVE  IsList(Merge(plans, p)) /\ Apart(Merge(plans, p))
<1>0. DOMAIN plans = 1..Len(plans) /\ Len(plans) \in Nat
  BY DEF IsList
<1>1. CASE /\ \A k \in NamesOf(p) : Holding(plans, k) = {}
           /\ Merge(plans, p) = Append(plans, [p EXCEPT !.keys = NamesOf(p)])
  <2> DEFINE e == [p EXCEPT !.keys = NamesOf(p)]
  <2>1. e.keys = NamesOf(p)
    BY DEF PlanColumns
  <2>2. \A i \in 1..Len(plans) : plans[i].keys \cap NamesOf(p) = {}
    BY <1>0, <1>1 DEF Holding
  <2> HIDE DEF e
  <2>3. /\ IsList(Append(plans, e)) /\ Len(Append(plans, e)) = Len(plans) + 1
        /\ \A i \in 1..Len(plans) : Append(plans, e)[i] = plans[i]
        /\ Append(plans, e)[Len(plans) + 1] = e
    BY AppendIsList
  <2> QED
    BY <1>0, <1>1, <2>1, <2>2, <2>3 DEF Apart, e
<1>2. CASE \E i \in 1..Len(plans) : Merge(plans, p) = Replaced(plans, i, Absorb(plans, i, p))
  <2>1. PICK i \in 1..Len(plans) : Merge(plans, p) = Replaced(plans, i, Absorb(plans, i, p))
    BY <1>2
  <2> DEFINE e == Absorb(plans, i, p)
  <2>2. e.keys = plans[i].keys \cup {k \in NamesOf(p) : Holding(plans, k) = {}}
    BY DEF Absorb, PlanColumns
  <2>3. \A j \in 1..Len(plans) : j # i => plans[j].keys \cap e.keys = {}
    BY <1>0, <2>2 DEF Holding, Apart
  <2> HIDE DEF e
  <2>4. /\ IsList(Replaced(plans, i, e)) /\ Len(Replaced(plans, i, e)) = Len(plans)
        /\ \A j \in 1..Len(plans) : Replaced(plans, i, e)[j] = IF j = i THEN e ELSE plans[j]
    BY ReplacedIsList
  <2> QED
    BY <2>1, <2>3, <2>4 DEF Apart, e
<1> QED
  BY <1>1, <1>2, MergeCases

\* A plan of its own for what one row says.
Alone(p) == [p EXCEPT !.keys = NamesOf(p)]

\* A plan to create somebody has an address for them, any other has somebody the
\* file found and holds their identity among its names; a manager's plan has
\* neither a status nor a manager.
Sound(q, kind, snap) ==
  /\ DOMAIN q = PlanColumns /\ q.kind = kind /\ q.action \in Actions
  /\ kind = "MANAGER" => q.lead = None /\ q.status = None
  /\ \A k \in q.keys : k[1] = q.uni /\ k[3] # None
  /\ q.action = "create" => q.id = None /\ q.email \in ValidEmails
  /\ q.action # "create" => /\ q.id \in DOMAIN snap.profiles
                            /\ snap.profiles[q.id].kind = kind
                            /\ <<q.uni, "ID", q.id>> \in q.keys

LEMMA NamesAreThree ==
  ASSUME NEW p
  PROVE  \A k \in NamesOf(p) :
           /\ k[1] = p.uni /\ k[3] # None
           /\ \/ k[2] = "ID" /\ k[3] = p.id
              \/ k[2] = "EMAIL" /\ k[3] = p.email
              \/ k[2] = "CODE" /\ k[3] = p.code
  BY KeysAreThree DEF NamesOf

LEMMA RowIsSound ==
  ASSUME NEW c, NEW lead, NEW snap, None \notin DOMAIN snap.profiles,
         ~Refused(c, snap), c.kind = "MANAGER" => c.status = None /\ lead = None
  PROVE  /\ DOMAIN PersonPlan(c, lead, snap) = PlanColumns
         /\ Sound(Alone(PersonPlan(c, lead, snap)), c.kind, snap)
<1> DEFINE p == PersonPlan(c, lead, snap)
           q == Alone(p)
<1>1. /\ DOMAIN p = PlanColumns /\ p.kind = c.kind /\ p.uni = c.uni /\ p.email = c.email
      /\ p.lead = lead /\ p.status = c.status /\ p.action \in Actions
      /\ p.action = "create" <=> Existing(c, snap) = {}
      /\ p.id = IF Existing(c, snap) = {} THEN None ELSE CHOOSE x \in Existing(c, snap) : TRUE
  BY DEF PersonPlan, PlanColumns, Actions
<1>2. \A x \in Existing(c, snap) : x \in DOMAIN snap.profiles /\ snap.profiles[x].kind = c.kind
  BY DEF Existing, ByCode, ByUser
<1>3. Existing(c, snap) = {} => c.email \in ValidEmails
  BY DEF Refused
<1>4. Existing(c, snap) # {} => p.id \in Existing(c, snap) /\ p.id # None
  BY <1>1, <1>2
<1>5. p.id # None => <<p.uni, "ID", p.id>> \in NamesOf(p)
  BY KeysAreThree DEF NamesOf
<1> HIDE DEF p
<1>6. DOMAIN q = PlanColumns /\ q.keys = NamesOf(p)
      /\ \A f \in PlanColumns \ {"keys"} : q[f] = p[f]
  BY <1>1 DEF Alone, PlanColumns
<1>7. /\ q.kind = p.kind /\ q.uni = p.uni /\ q.email = p.email /\ q.lead = p.lead
      /\ q.status = p.status /\ q.action = p.action /\ q.id = p.id
  BY <1>6 DEF PlanColumns
<1>8. \A k \in NamesOf(p) : k[1] = p.uni /\ k[3] # None
  BY NamesAreThree
<1> HIDE DEF q
<1> QED
  BY <1>1, <1>2, <1>3, <1>4, <1>5, <1>6, <1>7, <1>8 DEF Sound, p, q

\* What becomes of the plan that holds a name of the row.
LEMMA AbsorbedParts ==
  ASSUME NEW plans, NEW i, NEW p, DOMAIN plans[i] = PlanColumns
  PROVE  LET q == plans[i]
             e == Absorb(plans, i, p)
         IN /\ DOMAIN e = PlanColumns
            /\ e.kind = q.kind /\ e.uni = q.uni /\ e.id = q.id
            /\ e.name = Or(q.name, p.name) /\ e.email = Or(q.email, p.email)
            /\ e.lead = Or(q.lead, p.lead) /\ e.status = Or(q.status, p.status)
            /\ e.code \in {q.code, Or(q.code, p.code)}
            /\ e.action = IF q.action = "unchanged" /\ p.action = "update"
                          THEN "update" ELSE q.action
            /\ q.keys \subseteq e.keys /\ e.keys \subseteq q.keys \cup NamesOf(p)
  BY DEF Absorb, PlanColumns

LEMMA AbsorbIsSound ==
  ASSUME NEW plans, NEW i, NEW p, NEW kind, NEW snap, DOMAIN p = PlanColumns,
         Sound(plans[i], kind, snap), Sound(Alone(p), kind, snap),
         NEW k \in ToSet(KeysOf(p)), k \in plans[i].keys
  PROVE  Sound(Absorb(plans, i, p), kind, snap) /\ k \in NamesOf(p) /\ p.uni = plans[i].uni
<1> DEFINE q == plans[i]
           e == Absorb(plans, i, p)
<1>1. k \in NamesOf(p)
  BY DEF Sound, NamesOf
<1>2. p.uni = q.uni
  BY <1>1, NamesAreThree DEF Sound
<1>3. \A j \in NamesOf(p) : j[1] = p.uni /\ j[3] # None
  BY NamesAreThree
<1>4. p.lead = Alone(p).lead /\ p.status = Alone(p).status
  BY DEF Alone, PlanColumns
<1>5. /\ DOMAIN e = PlanColumns
      /\ e.kind = q.kind /\ e.uni = q.uni /\ e.id = q.id
      /\ e.name = Or(q.name, p.name) /\ e.email = Or(q.email, p.email)
      /\ e.lead = Or(q.lead, p.lead) /\ e.status = Or(q.status, p.status)
      /\ e.action = IF q.action = "unchanged" /\ p.action = "update"
                    THEN "update" ELSE q.action
      /\ q.keys \subseteq e.keys /\ e.keys \subseteq q.keys \cup NamesOf(p)
  BY AbsorbedParts DEF Sound
<1>6. e.action \in Actions /\ (e.action = "create" <=> q.action = "create")
  BY <1>5 DEF Sound, Actions
<1>7. q.action = "create" => e.email = q.email
  BY <1>5, ResolveAssumption DEF Sound, Or
<1>8. kind = "MANAGER" => e.lead = None /\ e.status = None
  BY <1>4, <1>5 DEF Sound, Or
<1>9. \A j \in e.keys : j[1] = q.uni /\ j[3] # None
  BY <1>2, <1>3, <1>5 DEF Sound
<1> HIDE DEF e
<1>10. Sound(e, kind, snap)
  BY <1>5, <1>6, <1>7, <1>8, <1>9 DEF Sound
<1> QED
  BY <1>1, <1>2, <1>10 DEF e

-----------------------------------------------------------------------------
(* A plan to skip says what was found, if the file does not contradict     *)
(* itself.                                                                 *)

\* What loadSnapshot reads of a database that nobody but this run rewrites.
Snapshot(snap) ==
  /\ None \notin DOMAIN snap.profiles
  /\ \A x \in DOMAIN snap.profiles : snap.profiles[x].uni \in DOMAIN snap.universities
  /\ \A x \in DOMAIN snap.users :
       /\ snap.users[x].uni \in DOMAIN snap.universities => x \in DOMAIN snap.profiles
       /\ x \in DOMAIN snap.profiles => snap.profiles[x] = snap.users[x]
  /\ \A x, y \in DOMAIN snap.profiles :
       LET p == snap.profiles[x]
           q == snap.profiles[y]
       IN p.code # None /\ p.code = q.code /\ p.kind = q.kind /\ p.uni = q.uni => x = y

\* Whoever the address or the code of a row names is who the row found, and a row
\* that would change nothing says what was found.
Reads(p, snap) ==
  /\ \A x \in DOMAIN snap.users \cap DOMAIN snap.profiles :
       p.email = x /\ snap.profiles[x].kind = p.kind => p.id = x
  /\ \A x \in DOMAIN snap.profiles :
       /\ p.code # None /\ p.code = snap.profiles[x].code
       /\ p.kind = snap.profiles[x].kind /\ p.uni = snap.profiles[x].uni
       => p.id = x
  /\ p.action = "unchanged" =>
       /\ p.name # None => snap.profiles[p.id].name = p.name
       /\ p.code # None => snap.profiles[p.id].code = p.code

LEMMA RowReads ==
  ASSUME NEW c, NEW lead, NEW snap, Snapshot(snap), ~Refused(c, snap)
  PROVE  Reads(PersonPlan(c, lead, snap), snap)
<1> DEFINE p == PersonPlan(c, lead, snap)
           known == Existing(c, snap)
           P == snap.profiles
<1>1. /\ p.kind = c.kind /\ p.uni = c.uni /\ p.email = c.email /\ p.code = c.code
      /\ p.name = c.name
      /\ p.action = "unchanged" => known # {} /\ ~WouldChange(c, snap)
      /\ known # {} => p.id \in known
  BY DEF PersonPlan
<1> HIDE DEF p
<1>2. ASSUME NEW x \in DOMAIN snap.users \cap DOMAIN P, c.email = x, P[x].kind = c.kind
      PROVE  known = {x}
  <2>1. ByUser(c, snap) = {x}
    BY <1>2 DEF ByUser
  <2>2. \A y \in ByCode(c, snap) : y = x
    BY <2>1 DEF Refused
  <2> QED
    BY <2>1, <2>2 DEF Existing
<1>3. ASSUME NEW x \in DOMAIN P, c.code # None, c.code = P[x].code, c.kind = P[x].kind,
             c.uni = P[x].uni
      PROVE  known = {x}
  <2>1. ByCode(c, snap) = {x}
    BY <1>3 DEF ByCode, Snapshot
  <2> QED
    BY <2>1 DEF Existing
<1>4. ASSUME c.email \in DOMAIN snap.users, known # {} PROVE p.id = c.email /\ c.email \in DOMAIN P
  <2>1. snap.users[c.email].kind = c.kind
    BY <1>4 DEF Refused, AccountRefused
  <2>2. CASE c.uni \in DOMAIN snap.universities
    <3>1. snap.users[c.email].uni = c.uni
      BY <1>4, <2>2 DEF Refused, AccountRefused
    <3>2. c.email \in DOMAIN P /\ P[c.email].kind = c.kind
      BY <1>4, <2>1, <2>2, <3>1 DEF Snapshot
    <3> QED
      BY <1>1, <1>2, <1>4, <3>2
  <2>3. CASE c.uni \notin DOMAIN snap.universities
    <3>1. ByCode(c, snap) = {}
      BY <2>3 DEF ByCode, Snapshot
    <3>2. known = ByUser(c, snap) /\ ByUser(c, snap) \subseteq {c.email} \cap DOMAIN P
      BY <3>1 DEF Existing, ByUser
    <3> HIDE DEF known
    <3> QED
      BY <1>1, <1>4, <3>2
  <2> QED
    BY <2>2, <2>3
<1>5. ASSUME p.action = "unchanged", p.name # None PROVE P[p.id].name = p.name
  <2>1. known # {} /\ ~WouldChange(c, snap) /\ c.name # None
    BY <1>1, <1>5
  <2>2. c.email \in DOMAIN snap.users /\ snap.users[c.email].name = c.name
    BY <2>1 DEF WouldChange
  <2>3. p.id = c.email /\ c.email \in DOMAIN P
    BY <1>4, <2>1, <2>2
  <2> QED
    BY <1>1, <2>2, <2>3 DEF Snapshot
<1>6. ASSUME p.action = "unchanged", p.code # None PROVE P[p.id].code = p.code
  <2>1. known # {} /\ ~WouldChange(c, snap) /\ c.code # None
    BY <1>1, <1>6
  <2>2. \E x \in known : P[x].code = c.code
    BY <2>1 DEF WouldChange
  <2>3. \A x, y \in known : x = y
    <3>1. \A x, y \in ByCode(c, snap) : x = y
      BY DEF ByCode, Snapshot
    <3>2. \A x, y \in ByUser(c, snap) : x = y
      BY DEF ByUser
    <3> QED
      BY <3>1, <3>2 DEF Existing
  <2> HIDE DEF known
  <2> QED
    BY <1>1, <2>1, <2>2, <2>3
<1> HIDE DEF known
<1> QED
  BY <1>1, <1>2, <1>3, <1>5, <1>6 DEF Reads, p

\* What a plan to skip says of who it found, if the file speaks of them by their
\* own address and at their own university.
Settles(q, snap) ==
  q.action = "unchanged" /\ OneAddress(q, snap) /\ snap.profiles[q.id].uni = q.uni =>
    /\ q.name # None => snap.profiles[q.id].name = q.name
    /\ q.code # None => snap.profiles[q.id].code = q.code
    /\ \A k \in q.keys : /\ k[2] = "ID" => k[3] = q.id
                         /\ k[2] = "CODE" => k[3] = snap.profiles[q.id].code

LEMMA RowSettles ==
  ASSUME NEW p, NEW kind, NEW snap, DOMAIN p = PlanColumns, Sound(Alone(p), kind, snap),
         Reads(p, snap)
  PROVE  Settles(Alone(p), snap)
<1>1. /\ Alone(p).action = p.action /\ Alone(p).id = p.id /\ Alone(p).uni = p.uni
      /\ Alone(p).name = p.name /\ Alone(p).code = p.code /\ Alone(p).keys = NamesOf(p)
  BY DEF Alone, PlanColumns
<1>2. \A k \in NamesOf(p) : /\ k[2] = "ID" => k[3] = p.id
                            /\ k[2] = "CODE" => k[3] = p.code /\ p.code # None
  BY NamesAreThree
<1> QED
  BY <1>1, <1>2 DEF Settles, Reads

LEMMA AbsorbSettles ==
  ASSUME NEW plans, NEW i, NEW p, NEW kind, NEW snap, DOMAIN p = PlanColumns,
         Sound(plans[i], kind, snap), Sound(Alone(p), kind, snap), Reads(p, snap),
         NEW k \in ToSet(KeysOf(p)), k \in plans[i].keys, Settles(plans[i], snap),
         None \notin DOMAIN snap.profiles
  PROVE  Settles(Absorb(plans, i, p), snap)
<1> DEFINE q == plans[i]
           e == Absorb(plans, i, p)
           P == snap.profiles[q.id]
<1>1. k \in NamesOf(p) /\ p.uni = q.uni
  BY AbsorbIsSound
<1>2. /\ e.uni = q.uni /\ e.id = q.id /\ e.name = Or(q.name, p.name)
      /\ e.code \in {q.code, Or(q.code, p.code)}
      /\ e.action = IF q.action = "unchanged" /\ p.action = "update"
                    THEN "update" ELSE q.action
      /\ q.keys \subseteq e.keys /\ e.keys \subseteq q.keys \cup NamesOf(p)
  BY AbsorbedParts DEF Sound
<1>3. \A j \in NamesOf(p) : \/ j[2] = "ID" /\ j[3] = p.id
                            \/ j[2] = "EMAIL" /\ j[3] = p.email
                            \/ j[2] = "CODE" /\ j[3] = p.code
  BY NamesAreThree
<1>4. /\ p.kind = kind /\ p.action \in Actions
      /\ p.action = "create" => p.id = None
      /\ p.action # "create" => p.id # None
  <2>1. Alone(p).kind = p.kind /\ Alone(p).action = p.action /\ Alone(p).id = p.id
    BY DEF Alone, PlanColumns
  <2> QED
    BY <2>1 DEF Sound
<1> HIDE DEF e
<1> SUFFICES ASSUME e.action = "unchanged", OneAddress(e, snap), P.uni = q.uni
             PROVE  /\ e.name # None => P.name = e.name
                    /\ e.code # None => P.code = e.code
                    /\ \A j \in e.keys : /\ j[2] = "ID" => j[3] = q.id
                                         /\ j[2] = "CODE" => j[3] = P.code
  BY <1>2 DEF Settles, e
<1>5. q.action = "unchanged" /\ p.action # "update" /\ OneAddress(q, snap)
  BY <1>2 DEF OneAddress
<1>6. /\ q.name # None => P.name = q.name
      /\ q.code # None => P.code = q.code
      /\ \A j \in q.keys : /\ j[2] = "ID" => j[3] = q.id
                           /\ j[2] = "CODE" => j[3] = P.code
  BY <1>5 DEF Settles
<1>7. q.id \in DOMAIN snap.profiles /\ q.id # None /\ P.kind = kind
  BY <1>5 DEF Sound
<1>8. p.id = q.id
  <2>1. CASE k[2] = "ID" /\ k[3] = p.id
    BY <1>6, <2>1
  <2>2. CASE k[2] = "EMAIL" /\ k[3] = p.email
    <3>1. p.email = q.id /\ q.id \in DOMAIN snap.users
      BY <1>5, <2>2 DEF OneAddress
    <3> QED
      BY <1>4, <1>7, <3>1 DEF Reads
  <2>3. CASE k[2] = "CODE" /\ k[3] = p.code
    <3>1. p.code = P.code /\ p.code # None
      <4>1. k[3] # None
        BY <1>1, NamesAreThree
      <4> QED
        BY <1>6, <2>3, <4>1
    <3> QED
      BY <1>1, <1>4, <1>7, <3>1 DEF Reads
  <2> QED
    BY <1>1, <1>3, <2>1, <2>2, <2>3
<1>9. p.action = "unchanged"
  BY <1>4, <1>5, <1>7, <1>8 DEF Actions
<1>10. (p.name # None => P.name = p.name) /\ (p.code # None => P.code = p.code)
  BY <1>8, <1>9 DEF Reads
<1>11. \A j \in NamesOf(p) : j[2] = "CODE" => j[3] # None
  BY NamesAreThree
<1> HIDE DEF q, P
<1> QED
  BY <1>2, <1>3, <1>6, <1>8, <1>10, <1>11 DEF Or

LEMMA MergeMembers ==
  ASSUME NEW plans, IsList(plans), NEW p
  PROVE  /\ IsList(Merge(plans, p))
         /\ \A j \in 1..Len(Merge(plans, p)) :
              LET e == Merge(plans, p)[j]
              IN \/ \E i \in 1..Len(plans) : e = plans[i]
                 \/ e = Alone(p)
                 \/ \E i \in 1..Len(plans) : \E k \in ToSet(KeysOf(p)) :
                      k \in plans[i].keys /\ e = Absorb(plans, i, p)
<1>1. CASE Merge(plans, p) = Append(plans, [p EXCEPT !.keys = NamesOf(p)])
  <2>1. Merge(plans, p) = Append(plans, Alone(p))
    BY <1>1 DEF Alone
  <2>2. /\ IsList(Append(plans, Alone(p))) /\ Len(Append(plans, Alone(p))) = Len(plans) + 1
        /\ \A i \in 1..Len(plans) : Append(plans, Alone(p))[i] = plans[i]
        /\ Append(plans, Alone(p))[Len(plans) + 1] = Alone(p) /\ Len(plans) \in Nat
    BY AppendIsList
  <2>3. \A j \in 1..(Len(plans) + 1) : j \in 1..Len(plans) \/ j = Len(plans) + 1
    BY <2>2
  <2> QED
    BY <2>1, <2>2, <2>3
<1>2. CASE \E i \in 1..Len(plans) :
             /\ \E k \in ToSet(KeysOf(p)) : k \in plans[i].keys
             /\ Merge(plans, p) = Replaced(plans, i, Absorb(plans, i, p))
  <2>1. PICK i \in 1..Len(plans) :
          /\ \E k \in ToSet(KeysOf(p)) : k \in plans[i].keys
          /\ Merge(plans, p) = Replaced(plans, i, Absorb(plans, i, p))
    BY <1>2
  <2> DEFINE e == Absorb(plans, i, p)
  <2> HIDE DEF e
  <2>2. /\ IsList(Replaced(plans, i, e)) /\ Len(Replaced(plans, i, e)) = Len(plans)
        /\ \A j \in 1..Len(plans) : Replaced(plans, i, e)[j] = IF j = i THEN e ELSE plans[j]
    BY ReplacedIsList
  <2>3. Merge(plans, p) = Replaced(plans, i, e)
    BY <2>1 DEF e
  <2>4. ASSUME NEW j \in 1..Len(Merge(plans, p))
        PROVE  LET d == Merge(plans, p)[j]
               IN \/ \E n \in 1..Len(plans) : d = plans[n]
                  \/ \E n \in 1..Len(plans) : \E k \in ToSet(KeysOf(p)) :
                       k \in plans[n].keys /\ d = Absorb(plans, n, p)
    <3>1. CASE j = i
      BY <2>1, <2>2, <2>3, <3>1 DEF e
    <3>2. CASE j # i
      BY <2>2, <2>3, <3>2
    <3> QED
      BY <3>1, <3>2
  <2> QED
    BY <2>2, <2>3, <2>4
<1> QED
  BY <1>1, <1>2, MergeCases

\* The code of a plan and, if it is to create somebody, their address are among its
\* names.
OwnNames(q) ==
  /\ q.code # None => <<q.uni, "CODE", q.code>> \in q.keys
  /\ \A k \in q.keys : k[2] = "CODE" => q.code # None
  /\ q.action = "create" => <<q.uni, "EMAIL", q.email>> \in q.keys

LEMMA RowOwnNames ==
  ASSUME NEW p, NEW kind, NEW snap, DOMAIN p = PlanColumns, Sound(Alone(p), kind, snap)
  PROVE  OwnNames(Alone(p))
<1>1. /\ Alone(p).action = p.action /\ Alone(p).email = p.email /\ Alone(p).uni = p.uni
      /\ Alone(p).code = p.code /\ Alone(p).keys = NamesOf(p)
  BY DEF Alone, PlanColumns
<1>2. \A k \in NamesOf(p) : k[2] = "CODE" => k[3] = p.code /\ p.code # None
  BY NamesAreThree
<1>3. /\ p.code # None => <<p.uni, "CODE", p.code>> \in NamesOf(p)
      /\ p.email # None => <<p.uni, "EMAIL", p.email>> \in NamesOf(p)
  BY KeysAreThree DEF NamesOf
<1>4. p.action = "create" => p.email # None
  BY <1>1, ResolveAssumption DEF Sound
<1> QED
  BY <1>1, <1>2, <1>3, <1>4 DEF OwnNames

LEMMA AbsorbOwnNames ==
  ASSUME NEW plans, IsList(plans), NEW i \in 1..Len(plans), NEW p, NEW kind, NEW snap,
         DOMAIN p = PlanColumns, \A j \in 1..Len(plans) : Sound(plans[j], kind, snap),
         Sound(Alone(p), kind, snap), NEW k \in ToSet(KeysOf(p)), k \in plans[i].keys,
         OwnNames(plans[i])
  PROVE  OwnNames(Absorb(plans, i, p))
<1> DEFINE q == plans[i]
           e == Absorb(plans, i, p)
           free == Holding(plans, <<p.uni, "CODE", p.code>>) \subseteq {i}
           unheld == {n \in NamesOf(p) : Holding(plans, n) = {}}
<1>0. DOMAIN plans = 1..Len(plans) /\ Sound(q, kind, snap)
  BY DEF IsList
<1>1. p.uni = q.uni
  BY <1>0, AbsorbIsSound
<1>2. /\ e.uni = q.uni /\ e.code = IF free THEN Or(q.code, p.code) ELSE q.code
      /\ e.email = Or(q.email, p.email) /\ e.keys = q.keys \cup unheld
      /\ e.action = "create" => q.action = "create"
  BY <1>0 DEF Absorb, Sound, PlanColumns
<1>3. \A n \in NamesOf(p) : n[2] = "CODE" => n[3] = p.code /\ p.code # None /\ n[1] = p.uni
  BY NamesAreThree
<1>4. /\ p.code # None => <<p.uni, "CODE", p.code>> \in NamesOf(p)
  BY KeysAreThree DEF NamesOf
<1>5. \A n \in unheld : n[2] = "CODE" => free
  <2>1. \A n \in NamesOf(p) : n[2] = "CODE" => n = <<p.uni, "CODE", p.code>>
    BY KeysAreThree, <1>3 DEF NamesOf
  <2> QED
    BY <2>1
<1>6. ASSUME free, p.code # None
      PROVE  <<p.uni, "CODE", p.code>> \in q.keys \cup unheld
  <2>1. CASE Holding(plans, <<p.uni, "CODE", p.code>>) = {}
    BY <1>4, <1>6, <2>1
  <2>2. CASE i \in Holding(plans, <<p.uni, "CODE", p.code>>)
    BY <2>2 DEF Holding
  <2> QED
    BY <1>6, <2>1, <2>2
<1>7. q.action = "create" => q.email # None
  BY <1>0, ResolveAssumption DEF Sound
<1>8. \A n \in q.keys : n[2] = "CODE" => q.code # None
  BY DEF OwnNames
<1> HIDE DEF e, free, unheld
<1>9. e.code # None => <<e.uni, "CODE", e.code>> \in e.keys
  <2>1. CASE q.code # None
    BY <1>2, <2>1 DEF Or, OwnNames
  <2>2. CASE q.code = None
    BY <1>1, <1>2, <1>6, <2>2 DEF Or
  <2> QED
    BY <2>1, <2>2
<1>10. ASSUME NEW n \in e.keys, n[2] = "CODE" PROVE e.code # None
  <2>1. CASE n \in q.keys
    BY <1>2, <1>8, <1>10, <2>1 DEF Or
  <2>2. CASE n \in unheld
    <3>1. free /\ p.code # None
      BY <1>3, <1>5, <1>10, <2>2 DEF unheld
    <3> QED
      BY <1>2, <3>1 DEF Or
  <2> QED
    BY <1>2, <2>1, <2>2
<1>11. e.action = "create" => <<e.uni, "EMAIL", e.email>> \in e.keys
  BY <1>2, <1>7 DEF Or, OwnNames
<1> QED
  BY <1>9, <1>10, <1>11 DEF OwnNames, e

\* The plans for the people of one kind, us being the universities planned.
PeoplePlanned(plans, kind, snap, us) ==
  /\ IsList(plans) /\ Apart(plans)
  /\ \A i \in 1..Len(plans) :
       /\ Sound(plans[i], kind, snap) /\ plans[i].uni \in us /\ OwnNames(plans[i])
       /\ Snapshot(snap) => Settles(plans[i], snap)

LEMMA MergeKeepsPeople ==
  ASSUME NEW plans, NEW kind, NEW snap, NEW us, PeoplePlanned(plans, kind, snap, us),
         NEW c, NEW lead, ~Refused(c, snap), c.kind = kind, c.uni \in us,
         kind = "MANAGER" => c.status = None /\ lead = None,
         None \notin DOMAIN snap.profiles
  PROVE  PeoplePlanned(Merge(plans, PersonPlan(c, lead, snap)), kind, snap, us)
<1> DEFINE p == PersonPlan(c, lead, snap)
<1>1. /\ DOMAIN p = PlanColumns /\ Sound(Alone(p), kind, snap) /\ p.uni = c.uni
      /\ Snapshot(snap) => Reads(p, snap)
  <2>1. p.uni = c.uni
    BY DEF PersonPlan
  <2> QED
    BY <2>1, RowIsSound, RowReads
<1> HIDE DEF p
<1>2. IsList(Merge(plans, p)) /\ Apart(Merge(plans, p))
  BY <1>1, MergeKeepsApart DEF PeoplePlanned, Sound
<1>3. ASSUME NEW j \in 1..Len(Merge(plans, p))
      PROVE  /\ Sound(Merge(plans, p)[j], kind, snap) /\ Merge(plans, p)[j].uni \in us
             /\ OwnNames(Merge(plans, p)[j])
             /\ Snapshot(snap) => Settles(Merge(plans, p)[j], snap)
  <2> DEFINE e == Merge(plans, p)[j]
  <2> SUFFICES /\ Sound(e, kind, snap) /\ e.uni \in us /\ OwnNames(e)
               /\ Snapshot(snap) => Settles(e, snap)
    OBVIOUS
  <2>1. \/ \E i \in 1..Len(plans) : e = plans[i]
        \/ e = Alone(p)
        \/ \E i \in 1..Len(plans) : \E k \in ToSet(KeysOf(p)) :
             k \in plans[i].keys /\ e = Absorb(plans, i, p)
    BY MergeMembers DEF PeoplePlanned
  <2> HIDE DEF e
  <2>2. CASE \E i \in 1..Len(plans) : e = plans[i]
    BY <2>2 DEF PeoplePlanned
  <2>3. CASE e = Alone(p)
    <3>1. e.uni = p.uni
      BY <1>1, <2>3 DEF Alone, PlanColumns
    <3> QED
      BY <1>1, <2>3, <3>1, RowSettles, RowOwnNames
  <2>4. CASE \E i \in 1..Len(plans) : \E k \in ToSet(KeysOf(p)) :
               k \in plans[i].keys /\ e = Absorb(plans, i, p)
    <3>1. PICK i \in 1..Len(plans) : \E k \in ToSet(KeysOf(p)) :
             k \in plans[i].keys /\ e = Absorb(plans, i, p)
      BY <2>4
    <3>2. Sound(plans[i], kind, snap) /\ plans[i].uni \in us
      BY DEF PeoplePlanned
    <3>3. Sound(e, kind, snap)
      BY <1>1, <3>1, <3>2, AbsorbIsSound
    <3>4. e.uni = plans[i].uni
      BY <3>1, <3>2, AbsorbedParts DEF Sound
    <3>5. Snapshot(snap) => Settles(e, snap)
      BY <1>1, <3>1, <3>2, AbsorbSettles DEF PeoplePlanned
    <3>6. OwnNames(e)
      BY <1>1, <3>1, <3>2, AbsorbOwnNames DEF PeoplePlanned
    <3> QED
      BY <3>2, <3>3, <3>4, <3>5, <3>6
  <2> QED
    BY <2>1, <2>2, <2>3, <2>4
<1> QED
  BY <1>2, <1>3 DEF PeoplePlanned, p

UnisOf(us) == {us[i].uni : i \in 1..Len(us)}

\* The plans for the universities: one each, which is to rename one that was found
\* whenever the file states another name.
UniversitiesPlanned(us, snap) ==
  /\ IsList(us)
  /\ \A i, j \in 1..Len(us) : us[i].uni = us[j].uni => i = j
  /\ \A i \in 1..Len(us) :
       /\ DOMAIN us[i] = {"uni", "name", "known", "action"}
       /\ us[i].known <=> us[i].uni \in DOMAIN snap.universities
       /\ us[i].known /\ us[i].name # None =>
            us[i].action = "update" \/ us[i].name = snap.universities[us[i].uni]

LEMMA AddUniversityPlans ==
  ASSUME NEW us, NEW row, NEW snap, UniversitiesPlanned(us, snap)
  PROVE  /\ UniversitiesPlanned(AddUniversity(us, row, snap), snap)
         /\ UnisOf(us) \cup {row.uni} \subseteq UnisOf(AddUniversity(us, row, snap))
<1> DEFINE I == {n \in 1..Len(us) : us[n].uni = row.uni}
           i == IF I # {} THEN Min(I) ELSE 0
           known == row.uni \in DOMAIN snap.universities
           renamed == row.uname # None /\ known /\ snap.universities[row.uni] # row.uname
           new == [uni |-> row.uni, name |-> row.uname, known |-> known,
                   action |-> IF ~known THEN "create"
                              ELSE IF renamed THEN "update" ELSE "unchanged"]
           named == [us EXCEPT ![i].name = row.uname,
                               ![i].action = IF renamed THEN "update" ELSE @]
<1>1. AddUniversity(us, row, snap)
        = IF i = 0 THEN Append(us, new)
          ELSE IF row.uname # None /\ us[i].name = None THEN named ELSE us
  BY DEF AddUniversity, SelectInSeq
<1>2. \/ I = {} /\ i = 0
      \/ i \in I /\ i # 0
  <2>1. I \subseteq Nat \ {0}
    OBVIOUS
  <2> HIDE DEF I
  <2>2. I # {} => \E m \in I : \A n \in I : m <= n
    BY <2>1, LeastNumber
  <2>3. I # {} => Min(I) \in I
    BY <2>2 DEF Min
  <2> QED
    BY <2>1, <2>3
<1> HIDE DEF i
<1>3. CASE I = {} /\ i = 0
  <2>1. /\ IsList(Append(us, new)) /\ Len(Append(us, new)) = Len(us) + 1 /\ Len(us) \in Nat
        /\ \A n \in 1..Len(us) : Append(us, new)[n] = us[n]
        /\ Append(us, new)[Len(us) + 1] = new
    <3> HIDE DEF new
    <3> QED
      BY AppendIsList DEF UniversitiesPlanned
  <2>2. /\ DOMAIN new = {"uni", "name", "known", "action"} /\ new.uni = row.uni
        /\ new.known <=> new.uni \in DOMAIN snap.universities
        /\ new.known /\ new.name # None =>
             new.action = "update" \/ new.name = snap.universities[new.uni]
    OBVIOUS
  <2>3. \A n \in 1..Len(us) : us[n].uni # new.uni
    BY <1>3
  <2> HIDE DEF new
  <2>4. \A n \in 1..(Len(us) + 1) : n \in 1..Len(us) \/ n = Len(us) + 1
    BY <2>1
  <2>5. UniversitiesPlanned(Append(us, new), snap)
    BY <2>1, <2>2, <2>3, <2>4 DEF UniversitiesPlanned
  <2>6. UnisOf(us) \cup {row.uni} \subseteq UnisOf(Append(us, new))
    <3>1. Len(us) + 1 \in 1..(Len(us) + 1) /\ \A n \in 1..Len(us) : n \in 1..(Len(us) + 1)
      BY <2>1
    <3> QED
      BY <2>1, <2>2, <3>1 DEF UnisOf
  <2> QED
    BY <1>1, <1>3, <2>5, <2>6
<1>4. CASE i \in I /\ i # 0
  <2>1. i \in 1..Len(us) /\ us[i].uni = row.uni
    BY <1>4
  <2>2. row.uni \in UnisOf(us)
    BY <2>1 DEF UnisOf
  <2>3. CASE row.uname # None /\ us[i].name = None
    <3> DEFINE e == [us[i] EXCEPT !.name = row.uname,
                                  !.action = IF renamed THEN "update" ELSE @]
    <3>1. named = Replaced(us, i, e)
      BY <2>1 DEF Replaced, UniversitiesPlanned
    <3>2. /\ DOMAIN e = {"uni", "name", "known", "action"} /\ e.uni = us[i].uni
          /\ e.known <=> e.uni \in DOMAIN snap.universities
          /\ e.known /\ e.name # None =>
               e.action = "update" \/ e.name = snap.universities[e.uni]
      BY <2>1 DEF UniversitiesPlanned
    <3> HIDE DEF e
    <3>3. /\ IsList(Replaced(us, i, e)) /\ Len(Replaced(us, i, e)) = Len(us)
          /\ \A j \in 1..Len(us) : Replaced(us, i, e)[j] = IF j = i THEN e ELSE us[j]
      BY ReplacedIsList DEF UniversitiesPlanned
    <3>4. \A j \in 1..Len(us) : Replaced(us, i, e)[j].uni = us[j].uni
      BY <3>2, <3>3
    <3>5. UniversitiesPlanned(Replaced(us, i, e), snap)
      BY <3>2, <3>3, <3>4 DEF UniversitiesPlanned
    <3>6. UnisOf(Replaced(us, i, e)) = UnisOf(us)
      BY <3>3, <3>4 DEF UnisOf
    <3> QED
      BY <1>1, <1>4, <2>2, <2>3, <3>1, <3>5, <3>6
  <2>4. CASE ~(row.uname # None /\ us[i].name = None)
    BY <1>1, <1>4, <2>2, <2>4
  <2> QED
    BY <2>3, <2>4
<1> QED
  BY <1>2, <1>3, <1>4

\* Everything Resolve has made of the rows it has come to.
PlansFit(plan, snap) ==
  /\ DOMAIN plan = DOMAIN NothingPlanned
  /\ UniversitiesPlanned(plan.universities, snap)
  /\ PeoplePlanned(plan.managers, "MANAGER", snap, UnisOf(plan.universities))
  /\ PeoplePlanned(plan.instructors, "INSTRUCTOR", snap, UnisOf(plan.universities))

LEMMA MorePeoplePlanned ==
  ASSUME NEW plans, NEW kind, NEW snap, NEW us, NEW vs, us \subseteq vs,
         PeoplePlanned(plans, kind, snap, us)
  PROVE  PeoplePlanned(plans, kind, snap, vs)
  BY DEF PeoplePlanned

LEMMA AddRowFits ==
  ASSUME NEW acc, NEW row, NEW snap, PlansFit(acc, snap), None \notin DOMAIN snap.profiles
  PROVE  PlansFit(AddRow(acc, row, snap), snap)
<1> DEFINE open == [acc EXCEPT !.universities = AddUniversity(@, row, snap)]
           us == UnisOf(AddUniversity(acc.universities, row, snap))
<1>1. \A a : PlansFit(a, snap) => PlansFit([a EXCEPT !.errors = @ + 1], snap)
  BY DEF PlansFit, NothingPlanned
<1>2. PlansFit(open, snap) /\ UnisOf(open.universities) = us /\ row.uni \in us
  <2> DEFINE vs == AddUniversity(acc.universities, row, snap)
  <2>1. UniversitiesPlanned(vs, snap) /\ UnisOf(acc.universities) \cup {row.uni} \subseteq UnisOf(vs)
    BY AddUniversityPlans DEF PlansFit
  <2> HIDE DEF vs
  <2>2. /\ PeoplePlanned(acc.managers, "MANAGER", snap, UnisOf(vs))
        /\ PeoplePlanned(acc.instructors, "INSTRUCTOR", snap, UnisOf(vs))
    BY <2>1, MorePeoplePlanned DEF PlansFit
  <2>3. DOMAIN acc = DOMAIN NothingPlanned
    BY DEF PlansFit
  <2>4. LET x == [acc EXCEPT !.universities = vs]
        IN /\ DOMAIN x = DOMAIN NothingPlanned /\ x.universities = vs
           /\ x.managers = acc.managers /\ x.instructors = acc.instructors
    BY <2>3 DEF NothingPlanned
  <2> QED
    BY <2>1, <2>2, <2>4 DEF PlansFit, vs
<1>3. ASSUME NEW a, PlansFit(a, snap), UnisOf(a.universities) = us
      PROVE  /\ PlansFit(AddManager(a, row, snap), snap)
             /\ UnisOf(AddManager(a, row, snap).universities) = us
  <2> DEFINE c == ManagerOf(row)
             m == Merge(a.managers, PersonPlan(c, None, snap))
  <2>1. c.kind = "MANAGER" /\ c.uni = row.uni /\ c.status = None
    BY DEF ManagerOf
  <2>3. \/ AddManager(a, row, snap) = a
        \/ AddManager(a, row, snap) = [a EXCEPT !.errors = @ + 1]
        \/ ~Refused(c, snap) /\ AddManager(a, row, snap) = [a EXCEPT !.managers = m]
    BY Zenon DEF AddManager
  <2> HIDE DEF c
  <2>2. ~Refused(c, snap) => PeoplePlanned(m, "MANAGER", snap, us)
    BY <1>2, <1>3, <2>1, MergeKeepsPeople DEF PlansFit
  <2> HIDE DEF m
  <2>4. PeoplePlanned(m, "MANAGER", snap, us) => PlansFit([a EXCEPT !.managers = m], snap)
    BY <1>3 DEF PlansFit, NothingPlanned
  <2>5. /\ [a EXCEPT !.errors = @ + 1].universities = a.universities
        /\ [a EXCEPT !.managers = m].universities = a.universities
    BY <1>3 DEF PlansFit, NothingPlanned
  <2> QED
    BY <1>1, <1>3, <2>2, <2>3, <2>4, <2>5
<1>4. ASSUME NEW a, PlansFit(a, snap), UnisOf(a.universities) = us
      PROVE  PlansFit(AddInstructor(a, row, snap), snap)
  <2> DEFINE c == InstructorOf(row)
             m == Merge(a.instructors, PersonPlan(c, row.mcode, snap))
  <2>1. c.kind = "INSTRUCTOR" /\ c.uni = row.uni
    BY DEF InstructorOf
  <2>3. \/ AddInstructor(a, row, snap) = a
        \/ AddInstructor(a, row, snap) = [a EXCEPT !.errors = @ + 1]
        \/ ~Refused(c, snap) /\ AddInstructor(a, row, snap) = [a EXCEPT !.instructors = m]
    BY Zenon DEF AddInstructor
  <2> HIDE DEF c
  <2>2. ~Refused(c, snap) => PeoplePlanned(m, "INSTRUCTOR", snap, us)
    <3>1. PeoplePlanned(a.instructors, "INSTRUCTOR", snap, us) /\ "INSTRUCTOR" # "MANAGER"
      BY <1>4 DEF PlansFit
    <3> QED
      BY <1>2, <2>1, <3>1, MergeKeepsPeople
  <2> HIDE DEF m
  <2>4. PeoplePlanned(m, "INSTRUCTOR", snap, us) => PlansFit([a EXCEPT !.instructors = m], snap)
    BY <1>4 DEF PlansFit, NothingPlanned
  <2> QED
    BY <1>1, <1>4, <2>2, <2>3, <2>4
<1> HIDE DEF open
<1>5. \/ AddRow(acc, row, snap) = [acc EXCEPT !.errors = @ + 1]
      \/ AddRow(acc, row, snap) = AddInstructor(AddManager(open, row, snap), row, snap)
  BY Zenon DEF AddRow, open
<1> HIDE DEF us
<1> QED
  BY <1>1, <1>2, <1>3, <1>4, <1>5

\* What Resolve makes of a file, one row after another.
LEMMA ResolveSteps ==
  ASSUME NEW rows, Len(rows) \in Nat, NEW snap
  PROVE  \E F : /\ Resolve(rows, snap) = F[Len(rows)] /\ F[0] = NothingPlanned
                /\ \A i \in 1..Len(rows) : F[i] = AddRow(F[i - 1], rows[i], snap)
<1> DEFINE F == CHOOSE f : Resolves(f, rows, snap, Len(rows))
<1>1. Resolves(F, rows, snap, Len(rows))
  BY ResolutionExists
<1>2. Resolve(rows, snap) = F[Len(rows)]
  BY DEF Resolve, Resolves
<1> HIDE DEF F
<1>3. \A i \in 0..Len(rows) :
        F[i] = IF i = 0 THEN NothingPlanned ELSE AddRow(F[i - 1], rows[i], snap)
  BY <1>1 DEF Resolves
<1> QED
  BY <1>2, <1>3

LEMMA NothingFits ==
  ASSUME NEW snap PROVE PlansFit(NothingPlanned, snap)
<1>1. IsList(<<>>) /\ Len(<<>>) = 0
  BY EmptyIsPlans DEF IsPlans
<1> QED
  BY <1>1 DEF PlansFit, NothingPlanned, UniversitiesPlanned, PeoplePlanned, Apart

LEMMA ResolveFits ==
  ASSUME NEW rows, Len(rows) \in Nat, NEW snap, None \notin DOMAIN snap.profiles
  PROVE  PlansFit(Resolve(rows, snap), snap)
<1>1. PICK F : /\ Resolve(rows, snap) = F[Len(rows)] /\ F[0] = NothingPlanned
               /\ \A i \in 1..Len(rows) : F[i] = AddRow(F[i - 1], rows[i], snap)
  BY ResolveSteps
<1> DEFINE T == {n \in Nat : n <= Len(rows) => PlansFit(F[n], snap)}
<1>2. 0 \in T
  BY <1>1, NothingFits
<1>3. ASSUME NEW n \in T PROVE n + 1 \in T
  <2> SUFFICES ASSUME n + 1 <= Len(rows) PROVE PlansFit(F[n + 1], snap)
    OBVIOUS
  <2>1. n + 1 \in 1..Len(rows) /\ (n + 1) - 1 = n /\ n <= Len(rows)
    OBVIOUS
  <2>2. F[n + 1] = AddRow(F[n], rows[n + 1], snap)
    BY <1>1, <2>1
  <2> QED
    BY <2>1, <2>2, AddRowFits
<1>4. T = Nat
  BY <1>2, <1>3, InductionOnSets
<1> QED
  BY <1>1, <1>4

-----------------------------------------------------------------------------
(* Nobody is retired but who the file says.  Rows that are tied to each    *)
(* other end up in one plan or in several, but no plan takes a name from   *)
(* one of them and its status from a row that is tied to none of them.     *)

\* Rows with every row that is tied to one of them.
Tied(R, snap) ==
  /\ R \subseteq Spoken(snap)
  /\ \A a \in R, b \in Spoken(snap) : NamesBy(a, snap) \cap NamesBy(b, snap) # {} => b \in R

NamesIn(R, snap) == UNION {NamesBy(row, snap) : row \in R}

SaysInactive(R) == \E row \in R : row.status = "inactive"

\* A plan has all its names from rows of the file; and all of them, and an
\* "inactive", from R, or none.
Tells(q, R, snap) ==
  /\ q.keys \subseteq NamesIn(Spoken(snap), snap)
  /\ \/ q.keys \subseteq NamesIn(R, snap) /\ (q.status = "inactive" => SaysInactive(R))
     \/ q.keys \cap NamesIn(R, snap) = {}

LEMMA RowTells ==
  ASSUME NEW snap, NEW R, Tied(R, snap), NEW row \in Spoken(snap)
  PROVE  /\ NamesBy(row, snap) \subseteq NamesIn(Spoken(snap), snap)
         /\ row \in R => NamesBy(row, snap) \subseteq NamesIn(R, snap)
         /\ row \notin R => NamesBy(row, snap) \cap NamesIn(R, snap) = {}
  BY DEF Tied, NamesIn

LEMMA MergeTells ==
  ASSUME NEW plans, NEW snap, NEW R, Tied(R, snap), NEW us,
         PeoplePlanned(plans, "INSTRUCTOR", snap, us), None \notin DOMAIN snap.profiles,
         \A i \in 1..Len(plans) : Tells(plans[i], R, snap), NEW row \in Spoken(snap),
         NEW m, m = Merge(plans, PersonPlan(InstructorOf(row), row.mcode, snap))
  PROVE  \A j \in 1..Len(m) : Tells(m[j], R, snap)
<1> DEFINE c == InstructorOf(row)
           p == PersonPlan(c, row.mcode, snap)
<1>1. NamesOf(p) = NamesBy(row, snap) /\ p.status = row.status /\ DOMAIN p = PlanColumns
  <2> DEFINE o == PersonPlan(c, None, snap)
  <2>1. p.uni = o.uni /\ p.id = o.id /\ p.email = o.email /\ p.code = o.code
    BY DEF PersonPlan
  <2>2. p.status = row.status /\ DOMAIN p = PlanColumns
    BY DEF PersonPlan, InstructorOf, PlanColumns
  <2>3. NamesBy(row, snap) = NamesOf(o)
    BY DEF NamesBy
  <2> HIDE DEF p, o
  <2> QED
    BY <2>1, <2>2, <2>3 DEF NamesOf, KeysOf
<1>2. \A k \in ToSet(KeysOf(p)) : k[3] # None => k \in NamesBy(row, snap)
  BY <1>1 DEF NamesOf
<1>3. m = Merge(plans, p)
  OBVIOUS
<1> HIDE DEF p
<1> TAKE j \in 1..Len(m)
<1>4. \/ \E i \in 1..Len(plans) : m[j] = plans[i]
      \/ m[j] = Alone(p)
      \/ \E i \in 1..Len(plans) : \E k \in ToSet(KeysOf(p)) :
           k \in plans[i].keys /\ m[j] = Absorb(plans, i, p)
  BY <1>3, MergeMembers DEF PeoplePlanned
<1>5. CASE \E i \in 1..Len(plans) : m[j] = plans[i]
  BY <1>5
<1>6. CASE m[j] = Alone(p)
  <2>1. m[j].keys = NamesBy(row, snap) /\ m[j].status = row.status
    BY <1>1, <1>6 DEF Alone, PlanColumns
  <2> QED
    BY <2>1, RowTells DEF Tells, SaysInactive
<1>7. CASE \E i \in 1..Len(plans) : \E k \in ToSet(KeysOf(p)) :
             k \in plans[i].keys /\ m[j] = Absorb(plans, i, p)
  <2>1. PICK i \in 1..Len(plans), k \in ToSet(KeysOf(p)) :
          k \in plans[i].keys /\ m[j] = Absorb(plans, i, p)
    BY <1>7
  <2> DEFINE q == plans[i]
             e == m[j]
  <2>2. Sound(q, "INSTRUCTOR", snap) /\ Tells(q, R, snap)
    BY DEF PeoplePlanned
  <2>3. k \in NamesBy(row, snap)
    BY <1>2, <2>1, <2>2 DEF Sound
  <2>4. /\ e.keys \subseteq q.keys \cup NamesBy(row, snap)
        /\ e.status = Or(q.status, row.status)
    BY <1>1, <2>1, <2>2, AbsorbedParts DEF Sound
  <2>5. k \in q.keys
    BY <2>1
  <2> HIDE DEF q, e
  <2>6. CASE row \in R
    <3>1. k \in NamesIn(R, snap)
      BY <2>3, <2>6, RowTells
    <3>2. q.keys \subseteq NamesIn(R, snap) /\ (q.status = "inactive" => SaysInactive(R))
      BY <2>2, <2>5, <3>1 DEF Tells
    <3>3. e.status = "inactive" => SaysInactive(R)
      BY <2>4, <2>6, <3>2 DEF Or, SaysInactive
    <3> QED
      BY <2>2, <2>4, <2>6, <3>2, <3>3, RowTells DEF Tells, e
  <2>7. CASE row \notin R
    <3>1. k \notin NamesIn(R, snap)
      BY <2>3, <2>7, RowTells
    <3>2. q.keys \cap NamesIn(R, snap) = {}
      BY <2>2, <2>5, <3>1 DEF Tells
    <3> QED
      BY <2>2, <2>4, <2>7, <3>2, RowTells DEF Tells, e
  <2> QED
    BY <2>6, <2>7
<1> QED
  BY <1>4, <1>5, <1>6, <1>7

LEMMA AddRowTells ==
  ASSUME NEW acc, NEW row \in ToSet(file), NEW snap, NEW R, Tied(R, snap),
         PlansFit(acc, snap), None \notin DOMAIN snap.profiles,
         \A i \in 1..Len(acc.instructors) : Tells(acc.instructors[i], R, snap)
  PROVE  LET a == AddRow(acc, row, snap)
         IN \A i \in 1..Len(a.instructors) : Tells(a.instructors[i], R, snap)
<1> DEFINE c == InstructorOf(row)
           m == Merge(acc.instructors, PersonPlan(c, row.mcode, snap))
           open == [acc EXCEPT !.universities = AddUniversity(@, row, snap)]
           led == AddManager(open, row, snap)
<1>1. DOMAIN acc = {"universities", "managers", "instructors", "errors"}
  BY DEF PlansFit, NothingPlanned
<1>2. /\ DOMAIN open = DOMAIN acc /\ open.instructors = acc.instructors
      /\ [acc EXCEPT !.errors = @ + 1].instructors = acc.instructors
  BY <1>1
<1>3. DOMAIN led = DOMAIN acc /\ led.instructors = acc.instructors
  <2>1. \/ led = open
        \/ led = [open EXCEPT !.errors = @ + 1]
        \/ led = [open EXCEPT !.managers = Merge(@, PersonPlan(ManagerOf(row), None, snap))]
    BY Zenon DEF AddManager
  <2> HIDE DEF led, open
  <2> QED
    BY <1>1, <1>2, <2>1
<1>4. \/ AddRow(acc, row, snap) = [acc EXCEPT !.errors = @ + 1]
      \/ AddRow(acc, row, snap) = AddInstructor(led, row, snap)
  BY Zenon DEF AddRow
<1> HIDE DEF open, led
<1>5. \/ AddInstructor(led, row, snap).instructors = led.instructors
      \/ row \in Spoken(snap) /\ AddInstructor(led, row, snap).instructors = m
  <2>1. \/ AddInstructor(led, row, snap) = led
        \/ AddInstructor(led, row, snap) = [led EXCEPT !.errors = @ + 1]
        \/ /\ Names(c) /\ ~Refused(c, snap)
           /\ AddInstructor(led, row, snap)
                = [led EXCEPT !.instructors = Merge(@, PersonPlan(c, row.mcode, snap))]
    BY Zenon DEF AddInstructor
  <2>2. /\ [led EXCEPT !.errors = @ + 1].instructors = led.instructors
        /\ [led EXCEPT !.instructors = Merge(@, PersonPlan(c, row.mcode, snap))].instructors = m
    BY <1>1, <1>3
  <2> QED
    BY <2>1, <2>2, Zenon DEF Spoken
<1>6. row \in Spoken(snap) => \A i \in 1..Len(m) : Tells(m[i], R, snap)
  BY MergeTells DEF PlansFit
<1> HIDE DEF m
<1> QED
  BY <1>2, <1>3, <1>4, <1>5, <1>6

LEMMA ResolveTells ==
  ASSUME NEW snap, None \notin DOMAIN snap.profiles, Len(file) \in Nat,
         \A i \in 1..Len(file) : file[i] \in ToSet(file), NEW R, Tied(R, snap)
  PROVE  LET plans == Resolve(file, snap).instructors
         IN \A i \in 1..Len(plans) : Tells(plans[i], R, snap)
<1>1. PICK F : /\ Resolve(file, snap) = F[Len(file)] /\ F[0] = NothingPlanned
               /\ \A i \in 1..Len(file) : F[i] = AddRow(F[i - 1], file[i], snap)
  BY ResolveSteps
<1> DEFINE Good(a) == /\ PlansFit(a, snap)
                      /\ \A i \in 1..Len(a.instructors) : Tells(a.instructors[i], R, snap)
           T == {n \in Nat : n <= Len(file) => Good(F[n])}
<1>2. 0 \in T
  <2>1. IsList(<<>>) /\ Len(<<>>) = 0
    BY EmptyIsPlans DEF IsPlans
  <2>2. Good(NothingPlanned)
    BY <2>1 DEF PlansFit, NothingPlanned, UniversitiesPlanned, PeoplePlanned, Apart
  <2> QED
    BY <1>1, <2>2
<1>3. ASSUME NEW n \in T PROVE n + 1 \in T
  <2> SUFFICES ASSUME n + 1 <= Len(file) PROVE Good(F[n + 1])
    OBVIOUS
  <2>1. n + 1 \in 1..Len(file) /\ (n + 1) - 1 = n /\ n <= Len(file)
    OBVIOUS
  <2>2. F[n + 1] = AddRow(F[n], file[n + 1], snap)
    BY <1>1, <2>1
  <2> QED
    BY <2>1, <2>2, AddRowFits, AddRowTells
<1>4. T = Nat
  <2> HIDE DEF Good
  <2> QED
    BY <1>2, <1>3, InductionOnSets
<1> QED
  BY <1>1, <1>4

-----------------------------------------------------------------------------
(* What an execution has in hand, step by step.                            *)

LEMMA ListMembers ==
  ASSUME NEW s, IsList(s)
  PROVE  /\ DOMAIN s = 1..Len(s) /\ Len(s) \in Nat
         /\ ToSet(s) = {s[i] : i \in 1..Len(s)}
         /\ s # <<>> => /\ Head(s) \in ToSet(s) /\ ToSet(Tail(s)) \subseteq ToSet(s)
                        /\ ToSet(s) \subseteq {Head(s)} \cup ToSet(Tail(s))
<1>1. PICK S : s \in Seq(S)
  BY DEF IsList
<1>2. DOMAIN s = 1..Len(s) /\ Len(s) \in Nat /\ ToSet(s) = {s[i] : i \in 1..Len(s)}
  BY <1>1 DEF ToSet
<1>3. ASSUME s # <<>>
      PROVE  /\ Head(s) \in ToSet(s) /\ ToSet(Tail(s)) \subseteq ToSet(s)
             /\ ToSet(s) \subseteq {Head(s)} \cup ToSet(Tail(s))
  <2>1. /\ Tail(s) \in Seq(S) /\ Len(Tail(s)) = Len(s) - 1 /\ Head(s) = s[1] /\ 1 \in 1..Len(s)
        /\ \A i \in 1..Len(Tail(s)) : Tail(s)[i] = s[i + 1] /\ i + 1 \in 1..Len(s)
    BY <1>1, <1>3
  <2>2. ToSet(Tail(s)) = {Tail(s)[i] : i \in 1..Len(Tail(s))}
    <3>1. \A t \in Seq(S) : ToSet(t) = {t[i] : i \in 1..Len(t)}
      BY DEF ToSet
    <3> QED
      BY <2>1, <3>1
  <2>3. ASSUME NEW i \in 1..Len(s) PROVE s[i] = Head(s) \/ s[i] \in ToSet(Tail(s))
    <3>1. i = 1 \/ (i - 1 \in 1..Len(Tail(s)) /\ (i - 1) + 1 = i)
      BY <1>2, <2>1
    <3> QED
      BY <2>1, <2>2, <3>1
  <2> QED
    BY <1>2, <2>1, <2>2, <2>3
<1> QED
  BY <1>2, <1>3

LEMMA AmongMembers ==
  ASSUME NEW s, IsList(s), NEW A
  PROVE  IsList(Among(s, A)) /\ ToSet(Among(s, A)) = ToSet(s) \cap A
<1>1. PICK S : s \in Seq(S)
  BY DEF IsList
<1>2. Len(s) \in Nat /\ ToSet(s) = {s[i] : i \in 1..Len(s)} /\ \A i \in 1..Len(s) : s[i] \in S
  BY <1>1, ListMembers
<1>3. PICK f : Filters(f, s, A, Len(s)) /\ Among(s, A) = f[Len(s)]
  BY <1>2, AmongFilters
<1>4. /\ f[0] = <<>>
      /\ \A i \in 1..Len(s) :
           f[i] = IF s[i] \in A THEN Append(f[i - 1], s[i]) ELSE f[i - 1]
  <2>1. 0 \in 0..Len(s) /\ \A i \in 1..Len(s) : i \in 0..Len(s) /\ i # 0
    BY <1>2
  <2> QED
    BY <1>3, <2>1 DEF Filters
<1> DEFINE First(n) == {s[i] : i \in 1..n} \cap A
           Good(n) == f[n] \in Seq(S) /\ ToSet(f[n]) = First(n)
           T == {n \in Nat : n <= Len(s) => Good(n)}
<1>5. Good(0)
  <2>1. <<>> \in Seq(S) /\ ToSet(<<>>) = {}
    BY DEF ToSet
  <2> QED
    BY <1>4, <2>1
<1>6. ASSUME NEW n \in Nat, Good(n), n + 1 <= Len(s) PROVE Good(n + 1)
  <2> DEFINE x == s[n + 1]
             g == f[n]
  <2>1. n + 1 \in 1..Len(s) /\ (n + 1) - 1 = n
    BY <1>2, <1>6
  <2>2. f[n + 1] = IF x \in A THEN Append(g, x) ELSE g
    BY <1>4, <2>1
  <2>3. First(n + 1) = First(n) \cup ({x} \cap A)
    <3>1. \A i \in 1..(n + 1) : i \in 1..n \/ i = n + 1
      OBVIOUS
    <3>2. (n + 1 \in 1..(n + 1)) /\ \A i \in 1..n : i \in 1..(n + 1)
      OBVIOUS
    <3> QED
      BY <3>1, <3>2
  <2>4. x \in S
    BY <1>2, <2>1
  <2>5. g \in Seq(S) /\ ToSet(g) = First(n)
    BY <1>6
  <2> HIDE DEF x, g, First
  <2>6. Append(g, x) \in Seq(S) /\ ToSet(Append(g, x)) = ToSet(g) \cup {x}
    <3>1. /\ Append(g, x) \in Seq(S) /\ Len(Append(g, x)) = Len(g) + 1 /\ Len(g) \in Nat
          /\ \A i \in 1..Len(g) : Append(g, x)[i] = g[i]
          /\ Append(g, x)[Len(g) + 1] = x
      BY <2>4, <2>5
    <3>2. /\ ToSet(Append(g, x)) = {Append(g, x)[i] : i \in 1..(Len(g) + 1)}
          /\ ToSet(g) = {g[i] : i \in 1..Len(g)}
      BY <2>5, <3>1 DEF ToSet
    <3>3. \A i \in 1..(Len(g) + 1) : i \in 1..Len(g) \/ i = Len(g) + 1
      BY <3>1
    <3>4. Len(g) + 1 \in 1..(Len(g) + 1) /\ \A i \in 1..Len(g) : i \in 1..(Len(g) + 1)
      BY <3>1
    <3> QED
      BY <3>1, <3>2, <3>3, <3>4
  <2>7. CASE x \in A
    BY <2>2, <2>3, <2>5, <2>6, <2>7
  <2>8. CASE x \notin A
    BY <2>2, <2>3, <2>5, <2>8
  <2> QED
    BY <2>7, <2>8
<1> HIDE DEF Good
<1>7. \A n \in T : n + 1 \in T
  BY <1>2, <1>6
<1>8. T = Nat
  BY <1>5, <1>7, InductionOnSets
<1>9. Good(Len(s))
  BY <1>2, <1>8
<1> QED
  BY <1>2, <1>3, <1>9 DEF Good, IsList

\* The people of one phase.
Here(s) == IF s.pc = "MANAGER" THEN ToSet(s.plan.managers) ELSE ToSet(s.plan.instructors)

PlansOf(plans, action) == {p \in plans : p.action = action}

\* What is still to be written is of the phase, and is what was planned.
InHand(s) ==
  /\ s.pc \notin {"MANAGER", "INSTRUCTOR"} => Written(s)
  /\ ToSet(s.creates) \cup ToSet(s.retry) \subseteq PlansOf(Here(s), "create")
  /\ ToSet(s.updates) \subseteq PlansOf(Here(s), "update")

\* Whoever a plan retires is somebody of whom the file says so.
Retires(p, snap) ==
  p.action = "update" /\ p.status # None /\ p.status = "inactive" => SaidInactive(p.id, snap)

Plans(s) ==
  /\ PlansFit(s.plan, s.snap) /\ InHand(s) /\ DOMAIN s.snap = DOMAIN NothingRead
  /\ s.pc = "users" => s.plan = NothingPlanned
  /\ \A p \in ToSet(s.plan.instructors) : Retires(p, s.snap)

LEMMA PlanRetires ==
  ASSUME NEW snap, None \notin DOMAIN snap.profiles, Len(file) \in Nat,
         \A i \in 1..Len(file) : file[i] \in ToSet(file),
         NEW p \in ToSet(Resolve(file, snap).instructors)
  PROVE  Retires(p, snap)
<1> DEFINE plans == Resolve(file, snap).instructors
<1>1. PeoplePlanned(plans, "INSTRUCTOR", snap, UnisOf(Resolve(file, snap).universities))
  BY ResolveFits DEF PlansFit
<1>2. PICK i \in 1..Len(plans) : p = plans[i]
  BY <1>1, ListMembers DEF PeoplePlanned
<1>3. \A R : Tied(R, snap) => Tells(p, R, snap)
  BY <1>2, ResolveTells
<1> SUFFICES ASSUME p.action = "update", p.status = "inactive" PROVE SaidInactive(p.id, snap)
  BY DEF Retires
<1> DEFINE k == <<p.uni, "ID", p.id>>
<1>4. k \in p.keys
  BY <1>1, <1>2 DEF PeoplePlanned, Sound
<1>5. Tied(Spoken(snap), snap)
  BY DEF Tied
<1>6. PICK found \in Spoken(snap) : k \in NamesBy(found, snap)
  BY <1>3, <1>4, <1>5 DEF Tells, NamesIn
<1>7. k = <<found.uni, "ID", p.id>>
  <2>1. PersonPlan(InstructorOf(found), None, snap).uni = found.uni
    BY DEF PersonPlan, InstructorOf
  <2> QED
    BY <1>6, <2>1, NamesAreThree DEF NamesBy
<1>8. ASSUME NEW R \in SUBSET Spoken(snap), found \in R, Tied(R, snap) PROVE SaysInactive(R)
  <2>1. k \in NamesIn(R, snap)
    BY <1>6, <1>8 DEF NamesIn
  <2> HIDE DEF k
  <2> QED
    BY <1>3, <1>4, <1>8, <2>1 DEF Tells
<1> HIDE DEF k
<1> QED
  BY <1>6, <1>7, <1>8 DEF SaidInactive, Tied, SaysInactive

LEMMA CutMembers ==
  ASSUME NEW q, IsList(q), NEW n \in Nat, n <= Len(q)
  PROVE  /\ IsList(SubSeq(q, 1, n)) /\ IsList(SubSeq(q, n + 1, Len(q)))
         /\ ToSet(q) = ToSet(SubSeq(q, 1, n)) \cup ToSet(SubSeq(q, n + 1, Len(q)))
<1>1. PICK S : q \in Seq(S)
  BY DEF IsList
<1>2. Len(q) \in Nat /\ \A i \in 1..Len(q) : q[i] \in S
  BY <1>1
<1> DEFINE f == SubSeq(q, 1, n)
           g == SubSeq(q, n + 1, Len(q))
<1>3. f \in Seq(S) /\ Len(f) = n /\ \A i \in 1..n : f[i] = q[i]
  <2>1. \A i \in 1..n : q[i] \in S
    BY <1>2
  <2>2. f \in Seq(S) /\ Len(f) = n - 1 + 1 /\ \A i \in 1..(n - 1 + 1) : f[i] = q[1 + i - 1]
    BY <1>2, <2>1, SubSeqProperties
  <2> HIDE DEF f
  <2> QED
    BY <2>2
<1>4. g \in Seq(S) /\ Len(g) = Len(q) - n /\ \A i \in 1..(Len(q) - n) : g[i] = q[n + i]
  <2>1. \A i \in (n + 1)..Len(q) : q[i] \in S
    BY <1>2
  <2>2. /\ g \in Seq(S) /\ Len(g) = Len(q) - (n + 1) + 1
        /\ \A i \in 1..(Len(q) - (n + 1) + 1) : g[i] = q[(n + 1) + i - 1]
    BY <1>2, <2>1, SubSeqProperties
  <2> HIDE DEF g
  <2>3. Len(q) - (n + 1) + 1 = Len(q) - n /\ \A i \in Nat : (n + 1) + i - 1 = n + i
    BY <1>2
  <2> QED
    BY <2>2, <2>3
<1> HIDE DEF f, g
<1>5. IsList(f) /\ IsList(g)
  BY <1>3, <1>4 DEF IsList
<1>6. /\ ToSet(f) = {f[i] : i \in 1..n} /\ ToSet(g) = {g[i] : i \in 1..(Len(q) - n)}
      /\ ToSet(q) = {q[i] : i \in 1..Len(q)}
  <2>1. \A t : IsList(t) => ToSet(t) = {t[i] : i \in 1..Len(t)}
    BY ListMembers
  <2>2. IsList(q)
    BY DEF IsList
  <2>3. ToSet(f) = {f[i] : i \in 1..Len(f)} /\ ToSet(g) = {g[i] : i \in 1..Len(g)}
    BY <1>5, <2>1
  <2> QED
    BY <1>3, <1>4, <2>1, <2>2, <2>3
<1>7. ASSUME NEW i \in 1..Len(q) PROVE q[i] \in ToSet(f) \cup ToSet(g)
  <2>1. CASE i <= n
    BY <1>3, <1>6, <2>1
  <2>2. CASE ~(i <= n)
    <3>1. i - n \in 1..(Len(q) - n) /\ n + (i - n) = i
      BY <1>2, <2>2
    <3> QED
      BY <1>4, <1>6, <3>1
  <2> QED
    BY <2>1, <2>2
<1>8. /\ \A i \in 1..n : i \in 1..Len(q)
      /\ \A i \in 1..(Len(q) - n) : n + i \in 1..Len(q)
  BY <1>2
<1>9. ToSet(f) \subseteq ToSet(q) /\ ToSet(g) \subseteq ToSet(q)
  BY <1>3, <1>4, <1>6, <1>8
<1> QED
  BY <1>5, <1>6, <1>7, <1>9 DEF f, g

\* A step of one execution, on which the others wait.
Moved(r) == run' = [run EXCEPT ![r] = run'[r]] /\ UNCHANGED file

\* What a step that writes people leaves as it is.
Onward(x, s) ==
  /\ DOMAIN x = DOMAIN s /\ x.pc = s.pc /\ x.snap = s.snap /\ x.plan = s.plan
  /\ x.todo = s.todo /\ x.leads = s.leads /\ x.linked = s.linked /\ x.heir = s.heir

LEMMA ChunkIsWritten ==
  ASSUME Accounts, NEW r \in Runs, WritesChunk(r)
  PROVE  LET s == run[r]
             x == run'[r]
         IN /\ Moved(r) /\ Onward(x, s) /\ x.updates = s.updates /\ UNCHANGED universities
            /\ s.pc \in {"MANAGER", "INSTRUCTOR"} /\ s.retry = <<>>
            /\ x.tally.failed = 0 => s.tally.failed = 0
            /\ IsList(x.creates)
            /\ \E chunk, usable :
                 /\ IsList(usable) /\ ToSet(s.creates) = ToSet(chunk) \cup ToSet(x.creates)
                 /\ ToSet(usable) = {p \in ToSet(chunk) : p.uni \in s.linked}
                 /\ \/ CanCreate(usable) /\ Creates(usable, s.leads) /\ x.retry = <<>>
                    \/ x.retry = usable /\ UNCHANGED people
<1> DEFINE s == run[r]
           size == IF Len(s.creates) < Chunk THEN Len(s.creates) ELSE Chunk
           chunk == SubSeq(s.creates, 1, size)
           usable == Usable(chunk, s.linked)
           creates == SubSeq(s.creates, size + 1, Len(s.creates))
           tally == Counted(s.tally, "failed", size - Len(usable))
           rest == [s EXCEPT !.creates = creates, !.tally = tally]
           x == [rest EXCEPT !.tally = Counted(tally, "created", Len(usable))]
           y == [rest EXCEPT !.retry = usable]
<1>1. /\ Accounted(s) /\ HasLists(s) /\ UNCHANGED <<file, universities>>
      /\ s.pc \in {"MANAGER", "INSTRUCTOR"} /\ s.retry = <<>> /\ DOMAIN run = Runs
  BY DEF Accounts, Accounted, WritesChunk
<1>2. \/ /\ run' = [run EXCEPT ![r] = x]
         /\ CanCreate(usable) /\ Creates(usable, s.leads)
      \/ run' = [run EXCEPT ![r] = y] /\ UNCHANGED people
  <2>1. DOMAIN s = DOMAIN Idle /\ rest.tally = tally
    BY <1>1 DEF HasLists, Idle
  <2>2. \/ /\ run' = [run EXCEPT ![r] =
                       [rest EXCEPT !.tally = Counted(@, "created", Len(usable))]]
           /\ CanCreate(usable) /\ Creates(usable, s.leads)
        \/ run' = [run EXCEPT ![r] = y] /\ UNCHANGED people
    BY Zenon DEF WritesChunk
  <2> HIDE DEF rest, tally, usable
  <2> QED
    BY <2>1, <2>2
<1>3. /\ size \in Nat /\ size <= Len(s.creates) /\ IsList(s.creates) /\ IsList(s.retry)
  BY <1>1, SizesAreNat, ExecuteAssumption DEF HasLists, Size
<1> HIDE DEF size
<1>4. /\ IsList(chunk) /\ IsList(creates)
      /\ ToSet(s.creates) = ToSet(chunk) \cup ToSet(creates)
  BY <1>3, CutMembers
<1>5. Len(chunk) = size
  BY <1>3, CutInTwo, SizesAreNat DEF Size
<1> HIDE DEF chunk, creates
<1>6. /\ IsList(usable) /\ ToSet(usable) = {p \in ToSet(chunk) : p.uni \in s.linked}
      /\ Len(usable) \in 0..Len(chunk)
  <2> DEFINE A == {p \in ToSet(chunk) : p.uni \in s.linked}
  <2>1. usable = Among(chunk, A)
    BY DEF Usable
  <2>2. A = ToSet(chunk) \cap A
    OBVIOUS
  <2>3. Len(usable) \in 0..Len(chunk)
    BY <1>4, UsableIsList
  <2> HIDE DEF usable, A
  <2>4. IsList(usable) /\ ToSet(usable) = ToSet(chunk) \cap A
    BY <1>4, <2>1, AmongMembers
  <2>5. ToSet(usable) = A
    BY <2>2, <2>4
  <2> QED
    BY <2>3, <2>4, <2>5 DEF A
<1> HIDE DEF usable
<1>7. /\ DOMAIN s = DOMAIN Idle
      /\ s.tally \in [created : Nat, updated : Nat, skipped : Nat, failed : Nat]
  BY <1>1 DEF HasLists
<1>8. /\ tally.failed = s.tally.failed + (size - Len(usable))
      /\ Counted(tally, "created", Len(usable)).failed = tally.failed
  BY <1>7 DEF Counted
<1>9. tally.failed = 0 => s.tally.failed = 0
  BY <1>3, <1>5, <1>6, <1>7, <1>8
<1> HIDE DEF tally
<1>10. \A z \in {x, y} : /\ Onward(z, s) /\ z.updates = s.updates /\ z.creates = creates
                         /\ z.tally.failed = 0 => s.tally.failed = 0
  BY <1>7, <1>8, <1>9 DEF Idle, Onward
<1>11. x.retry = <<>> /\ y.retry = usable
  BY <1>1, <1>7 DEF Idle
<1> HIDE DEF x, y
<1>12. run'[r] \in {x, y} /\ Moved(r)
  BY <1>1, <1>2 DEF Moved
<1>13. \/ run'[r] = x /\ CanCreate(usable) /\ Creates(usable, s.leads)
       \/ run'[r] = y /\ UNCHANGED people
  BY <1>1, <1>2
<1> QED
  BY <1>1, <1>4, <1>6, <1>10, <1>11, <1>12, <1>13

LEMMA OneIsRetried ==
  ASSUME Accounts, NEW r \in Runs, RetriesOne(r)
  PROVE  LET s == run[r]
             x == run'[r]
             one == <<Head(s.retry)>>
         IN /\ Moved(r) /\ Onward(x, s) /\ UNCHANGED universities
            /\ s.pc \in {"MANAGER", "INSTRUCTOR"} /\ s.retry # <<>> /\ IsList(s.retry)
            /\ x.retry = Tail(s.retry) /\ x.creates = s.creates /\ x.updates = s.updates
            /\ \/ /\ CanCreate(one) /\ Creates(one, s.leads)
                  /\ x.tally.failed = s.tally.failed
               \/ UNCHANGED people /\ x.tally.failed = s.tally.failed + 1
            /\ s.tally.failed \in Nat
<1> DEFINE s == run[r]
           one == <<Head(s.retry)>>
           X(field) == [s EXCEPT !.retry = Tail(s.retry), !.tally = Counted(s.tally, field, 1)]
<1>1. /\ Accounted(s) /\ HasLists(s) /\ UNCHANGED <<file, universities>> /\ s.retry # <<>>
      /\ DOMAIN run = Runs /\ IsList(s.retry) /\ DOMAIN s = DOMAIN Idle
      /\ s.tally \in [created : Nat, updated : Nat, skipped : Nat, failed : Nat]
  BY DEF Accounts, Accounted, HasLists, RetriesOne
<1>2. s.pc \in {"MANAGER", "INSTRUCTOR"}
  <2>1. Size(s.retry) # 0 /\ Size(s.creates) \in Nat /\ Size(s.retry) \in Nat
           /\ Size(s.updates) \in Nat
    BY <1>1, SizesAreNat DEF HasLists
  <2>2. Left(s) # 0
    BY <2>1 DEF Left
  <2> QED
    BY <1>1, <2>2 DEF Accounted
<1>3. \A field : [run EXCEPT ![r].retry = Tail(@), ![r].tally = Counted(@, field, 1)]
                   = [run EXCEPT ![r] = X(field)]
  BY <1>1 DEF Idle
<1>4. \/ /\ run' = [run EXCEPT ![r] = X("created")]
         /\ CanCreate(one) /\ Creates(one, s.leads)
      \/ run' = [run EXCEPT ![r] = X("failed")] /\ UNCHANGED people
  BY <1>3 DEF RetriesOne
<1>5. \A field : /\ Onward(X(field), s) /\ X(field).retry = Tail(s.retry)
                 /\ X(field).creates = s.creates /\ X(field).updates = s.updates
  BY <1>1 DEF Onward, Idle
<1>6. /\ X("created").tally.failed = s.tally.failed
      /\ X("failed").tally.failed = s.tally.failed + 1
  BY <1>1 DEF Counted, Idle
<1> HIDE DEF X
<1>7. Moved(r)
  BY <1>1, <1>4 DEF Moved
<1>8. \/ run'[r] = X("created") /\ CanCreate(one) /\ Creates(one, s.leads)
      \/ run'[r] = X("failed") /\ UNCHANGED people
  BY <1>1, <1>4
<1> QED
  BY <1>1, <1>2, <1>5, <1>6, <1>7, <1>8

LEMMA OneIsUpdated ==
  ASSUME Accounts, NEW r \in Runs, UpdatesOne(r)
  PROVE  LET s == run[r]
             x == run'[r]
             p == Head(s.updates)
         IN /\ Moved(r) /\ Onward(x, s) /\ UNCHANGED universities
            /\ s.pc \in {"MANAGER", "INSTRUCTOR"} /\ s.updates # <<>> /\ IsList(s.updates)
            /\ x.updates = Tail(s.updates) /\ x.creates = s.creates /\ x.retry = s.retry
            /\ \/ /\ CanUpdate(p, s.leads)
                  /\ people' = [people EXCEPT ![p.id] = Updated(p, s.leads)]
                  /\ x.tally.failed = s.tally.failed
               \/ UNCHANGED people /\ x.tally.failed = s.tally.failed + 1
            /\ s.tally.failed \in Nat
<1> DEFINE s == run[r]
           p == Head(s.updates)
           X(field) == [s EXCEPT !.updates = Tail(s.updates),
                                 !.tally = Counted(s.tally, field, 1)]
<1>1. /\ Accounted(s) /\ HasLists(s) /\ UNCHANGED <<file, universities>> /\ s.updates # <<>>
      /\ DOMAIN run = Runs /\ IsList(s.updates) /\ DOMAIN s = DOMAIN Idle
      /\ s.tally \in [created : Nat, updated : Nat, skipped : Nat, failed : Nat]
  BY DEF Accounts, Accounted, HasLists, UpdatesOne
<1>2. s.pc \in {"MANAGER", "INSTRUCTOR"}
  <2>1. Size(s.updates) # 0 /\ Size(s.creates) \in Nat /\ Size(s.retry) \in Nat
           /\ Size(s.updates) \in Nat
    BY <1>1, SizesAreNat DEF HasLists
  <2>2. Left(s) # 0
    BY <2>1 DEF Left
  <2> QED
    BY <1>1, <2>2 DEF Accounted
<1>3. \A field : [run EXCEPT ![r].updates = Tail(@), ![r].tally = Counted(@, field, 1)]
                   = [run EXCEPT ![r] = X(field)]
  BY <1>1 DEF Idle
<1>4. \/ /\ run' = [run EXCEPT ![r] = X("updated")] /\ CanUpdate(p, s.leads)
         /\ people' = [people EXCEPT ![p.id] = Updated(p, s.leads)]
      \/ run' = [run EXCEPT ![r] = X("failed")] /\ UNCHANGED people
  BY <1>3 DEF UpdatesOne
<1>5. \A field : /\ Onward(X(field), s) /\ X(field).updates = Tail(s.updates)
                 /\ X(field).creates = s.creates /\ X(field).retry = s.retry
  BY <1>1 DEF Onward, Idle
<1>6. /\ X("updated").tally.failed = s.tally.failed
      /\ X("failed").tally.failed = s.tally.failed + 1
  BY <1>1 DEF Counted, Idle
<1> HIDE DEF X
<1>7. Moved(r)
  BY <1>1, <1>4 DEF Moved
<1>8. \/ /\ run'[r] = X("updated") /\ CanUpdate(p, s.leads)
         /\ people' = [people EXCEPT ![p.id] = Updated(p, s.leads)]
      \/ run'[r] = X("failed") /\ UNCHANGED people
  BY <1>1, <1>4
<1> QED
  BY <1>1, <1>2, <1>5, <1>6, <1>7, <1>8

LEMMA UniversityIsWritten ==
  ASSUME Accounts, NEW r \in Runs, WritesUniversity(r)
  PROVE  LET s == run[r]
             x == run'[r]
             u == Head(s.todo)
             renames == u.known /\ u.action = "update" /\ u.name # None
         IN /\ Moved(r) /\ UNCHANGED people
            /\ s.pc = "universities" /\ s.todo # <<>> /\ IsList(s.todo)
            /\ DOMAIN x = DOMAIN s /\ x.pc = s.pc /\ x.snap = s.snap /\ x.plan = s.plan
            /\ x.leads = s.leads /\ x.heir = s.heir /\ x.creates = s.creates
            /\ x.retry = s.retry /\ x.updates = s.updates /\ x.todo = Tail(s.todo)
            /\ s.tally.failed \in Nat
            /\ \/ /\ x.tally.failed = s.tally.failed /\ x.linked = s.linked \cup {u.uni}
                  /\ \/ u.known /\ ~renames /\ UNCHANGED universities
                     \/ renames /\ universities' = [universities EXCEPT ![u.uni].name = u.name]
                     \/ /\ ~u.known /\ u.uni \notin DOMAIN universities
                        /\ universities' = Opened(u.uni, u.name)
               \/ x.tally.failed = s.tally.failed + 1 /\ UNCHANGED universities
<1> DEFINE s == run[r]
           u == Head(s.todo)
           renames == u.known /\ u.action = "update" /\ u.name # None
           both == s.linked \cup {u.uni}
           X(links, field) == [s EXCEPT !.todo = Tail(s.todo), !.linked = links,
                                        !.tally = Counted(s.tally, field, 1)]
<1>1. /\ Accounted(s) /\ HasLists(s) /\ UNCHANGED <<file, people>> /\ s.pc = "universities"
      /\ s.todo # <<>> /\ IsList(s.todo) /\ DOMAIN run = Runs /\ DOMAIN s = DOMAIN Idle
      /\ s.tally \in [created : Nat, updated : Nat, skipped : Nat, failed : Nat]
  BY DEF Accounts, Accounted, HasLists, WritesUniversity
<1>2. \/ /\ \E field \in {"created", "updated", "skipped"} :
              run' = [run EXCEPT ![r] = X(both, field)]
         /\ \/ u.known /\ ~renames /\ UNCHANGED universities
            \/ renames /\ universities' = [universities EXCEPT ![u.uni].name = u.name]
            \/ /\ ~u.known /\ u.uni \notin DOMAIN universities
               /\ universities' = Opened(u.uni, u.name)
      \/ /\ \E links : run' = [run EXCEPT ![r] = X(links, "failed")]
         /\ UNCHANGED universities
  <2>1. {"todo", "linked", "tally"} \subseteq DOMAIN s
    BY <1>1 DEF Idle
  <2> QED
    BY <2>1 DEF WritesUniversity
<1>3. \A links, field :
        LET x == X(links, field)
        IN /\ DOMAIN x = DOMAIN s /\ x.pc = s.pc /\ x.snap = s.snap /\ x.plan = s.plan
           /\ x.leads = s.leads /\ x.heir = s.heir /\ x.creates = s.creates
           /\ x.retry = s.retry /\ x.updates = s.updates /\ x.todo = Tail(s.todo)
           /\ x.linked = links /\ x.tally = Counted(s.tally, field, 1)
  BY <1>1 DEF Idle
<1>4. /\ \A field \in {"created", "updated", "skipped"} :
           Counted(s.tally, field, 1).failed = s.tally.failed
      /\ Counted(s.tally, "failed", 1).failed = s.tally.failed + 1 /\ s.tally.failed \in Nat
  BY <1>1 DEF Counted
<1> HIDE DEF X, u
<1>5. \A y : run' = [run EXCEPT ![r] = y] => run'[r] = y /\ Moved(r)
  BY <1>1 DEF Moved
<1>6. CASE /\ \E field \in {"created", "updated", "skipped"} :
                run' = [run EXCEPT ![r] = X(both, field)]
           /\ \/ u.known /\ ~renames /\ UNCHANGED universities
              \/ renames /\ universities' = [universities EXCEPT ![u.uni].name = u.name]
              \/ /\ ~u.known /\ u.uni \notin DOMAIN universities
                 /\ universities' = Opened(u.uni, u.name)
  <2>1. PICK field \in {"created", "updated", "skipped"} :
          run'[r] = X(both, field) /\ Moved(r)
    BY <1>5, <1>6
  <2> HIDE DEF renames, both
  <2>2. LET x == run'[r]
        IN /\ DOMAIN x = DOMAIN s /\ x.pc = s.pc /\ x.snap = s.snap /\ x.plan = s.plan
           /\ x.leads = s.leads /\ x.heir = s.heir /\ x.creates = s.creates
           /\ x.retry = s.retry /\ x.updates = s.updates /\ x.todo = Tail(s.todo)
           /\ x.tally.failed = s.tally.failed /\ x.linked = both
    BY <1>3, <1>4, <2>1
  <2> QED
    BY <1>1, <1>4, <1>6, <2>1, <2>2 DEF u, renames, both
<1>7. CASE /\ \E links : run' = [run EXCEPT ![r] = X(links, "failed")]
           /\ UNCHANGED universities
  <2>1. PICK links : run'[r] = X(links, "failed") /\ Moved(r)
    BY <1>5, <1>7
  <2> QED
    BY <1>1, <1>3, <1>4, <1>7, <2>1
<1> QED
  BY <1>2, <1>6, <1>7

LEMMA PhaseStarts ==
  ASSUME Accounts, NEW r \in Runs, ReadsManagers(r) \/ RereadsManagers(r)
  PROVE  LET s == run[r]
             x == run'[r]
         IN /\ Moved(r) /\ UNCHANGED <<universities, people>>
            /\ \/ s.pc = "universities" /\ s.todo = <<>> /\ x.pc = "MANAGER"
               \/ s.pc = "MANAGER" /\ Written(s) /\ x.pc = "INSTRUCTOR"
            /\ DOMAIN x = DOMAIN s /\ x.snap = s.snap /\ x.plan = s.plan /\ x.todo = s.todo
            /\ x.linked = s.linked /\ x.heir = s.heir /\ x.retry = s.retry
            /\ x.leads = With(LeadsRead(s.linked), s.leads)
            /\ ToSet(x.creates) = PlansOf(Here(x), "create")
            /\ ToSet(x.updates) = PlansOf(Here(x), "update")
            /\ x.tally.failed = s.tally.failed
<1> DEFINE s == run[r]
<1>1. /\ Accounted(s) /\ HasLists(s) /\ UNCHANGED <<file, universities, people>>
      /\ DOMAIN run = Runs /\ DOMAIN s = DOMAIN Idle /\ IsPlan(s.plan)
      /\ s.tally \in [created : Nat, updated : Nat, skipped : Nat, failed : Nat]
  BY DEF Accounts, Accounted, HasLists, ReadsManagers, RereadsManagers
<1>2. PICK kind, plans :
        /\ run' = [run EXCEPT ![r] = StartsPeople(s, kind, plans)]
        /\ \/ /\ s.pc = "universities" /\ s.todo = <<>> /\ kind = "MANAGER"
              /\ plans = s.plan.managers
           \/ /\ s.pc = "MANAGER" /\ Written(s) /\ kind = "INSTRUCTOR"
              /\ plans = s.plan.instructors
  BY DEF ReadsManagers, RereadsManagers
<1> DEFINE x == StartsPeople(s, kind, plans)
<1>3. /\ DOMAIN x = DOMAIN s /\ x.pc = kind /\ x.snap = s.snap /\ x.plan = s.plan
      /\ x.todo = s.todo /\ x.linked = s.linked /\ x.heir = s.heir /\ x.retry = s.retry
      /\ x.leads = With(LeadsRead(s.linked), s.leads)
      /\ x.creates = Planned(plans, "create") /\ x.updates = Planned(plans, "update")
      /\ x.tally = Counted(s.tally, "skipped", Len(Planned(plans, "unchanged")))
  BY <1>1 DEF StartsPeople, Idle
<1> HIDE DEF x
<1>4. x.tally.failed = s.tally.failed
  BY <1>1, <1>3 DEF Counted
<1>5. ASSUME NEW action PROVE ToSet(Planned(plans, action)) = PlansOf(ToSet(plans), action)
  <2>1. IsList(plans)
    BY <1>1, <1>2 DEF IsPlan, IsPlans
  <2> DEFINE A == {p \in ToSet(plans) : p.action = action}
  <2>2. Planned(plans, action) = Among(plans, A)
    BY DEF Planned
  <2>3. A \subseteq ToSet(plans)
    OBVIOUS
  <2> HIDE DEF A
  <2>4. ToSet(Planned(plans, action)) = A
    BY <2>1, <2>2, <2>3, AmongMembers
  <2> QED
    BY <2>4 DEF A, PlansOf
<1>6. run'[r] = x /\ Moved(r)
  BY <1>1, <1>2 DEF x, Moved
<1>7. Here(x) = ToSet(plans)
  BY <1>2, <1>3 DEF Here
<1> QED
  BY <1>1, <1>2, <1>3, <1>4, <1>5, <1>6, <1>7

\* The end of an execution, and of its promotions, touches nothing but owners.
LEMMA OwnersAreFound ==
  ASSUME Accounts, NEW r \in Runs, FindsHeir(r) \/ Promotes(r) \/ Ends(r)
  PROVE  LET s == run[r]
             x == run'[r]
         IN /\ Moved(r) /\ UNCHANGED people
            /\ DOMAIN x = DOMAIN s /\ x.snap = s.snap /\ x.plan = s.plan /\ x.todo = s.todo
            /\ x.leads = s.leads /\ x.tally = s.tally
            /\ x.creates = s.creates /\ x.retry = s.retry /\ x.updates = s.updates
            /\ x.pc = s.pc \/ (s.pc = "INSTRUCTOR" /\ Written(s) /\ x.pc = "ended")
            /\ x.linked = s.linked \/ (s.pc = "INSTRUCTOR" /\ Written(s))
            /\ \/ UNCHANGED universities
               \/ \E u, h : universities' = [universities EXCEPT ![u].primary = h]
<1> DEFINE s == run[r]
<1>1. DOMAIN s = DOMAIN Idle /\ DOMAIN run = Runs
  BY DEF Accounts, Accounted, HasLists
<1>2. PICK links, heir, pc :
        /\ run' = [run EXCEPT ![r] = [s EXCEPT !.linked = links, !.heir = heir, !.pc = pc]]
        /\ pc = s.pc \/ (s.pc = "INSTRUCTOR" /\ Written(s) /\ pc = "ended")
        /\ links = s.linked \/ (s.pc = "INSTRUCTOR" /\ Written(s))
  <2> DEFINE X(l, h, q) == [s EXCEPT !.linked = l, !.heir = h, !.pc = q]
  <2>1. CASE FindsHeir(r)
    <3>1. PICK u :
            \/ run' = [run EXCEPT ![r].linked = @ \ {u}]
            \/ \E y : run' = [run EXCEPT ![r].linked = @ \ {u},
                                         ![r].heir = [uni |-> u, id |-> y]]
      BY <2>1 DEF FindsHeir
    <3>2. [run EXCEPT ![r].linked = @ \ {u}] = [run EXCEPT ![r] = X(s.linked \ {u}, s.heir, s.pc)]
      BY <1>1 DEF Idle
    <3>3. \A y : [run EXCEPT ![r].linked = @ \ {u}, ![r].heir = [uni |-> u, id |-> y]]
                   = [run EXCEPT ![r] = X(s.linked \ {u}, [uni |-> u, id |-> y], s.pc)]
      BY <1>1 DEF Idle
    <3>4. s.pc = "INSTRUCTOR" /\ Written(s)
      BY <2>1 DEF FindsHeir
    <3> HIDE DEF X
    <3>5. \E l, h : run' = [run EXCEPT ![r] = X(l, h, s.pc)]
      BY <3>1, <3>2, <3>3
    <3> QED
      BY <3>4, <3>5 DEF X
  <2>2. CASE Promotes(r)
    <3>1. run' = [run EXCEPT ![r] = X(s.linked, None, s.pc)]
      BY <1>1, <2>2 DEF Promotes, Idle
    <3> QED
      BY <3>1
  <2>3. CASE Ends(r)
    <3>1. run' = [run EXCEPT ![r] = X(s.linked, s.heir, "ended")]
      BY <1>1, <2>3 DEF Ends, Idle
    <3>2. s.pc = "INSTRUCTOR" /\ Written(s)
      BY <2>3 DEF Ends
    <3> QED
      BY <3>1, <3>2
  <2> QED
    BY <2>1, <2>2, <2>3
<1> DEFINE x == [s EXCEPT !.linked = links, !.heir = heir, !.pc = pc]
<1>3. /\ DOMAIN x = DOMAIN s /\ x.snap = s.snap /\ x.plan = s.plan /\ x.todo = s.todo
      /\ x.leads = s.leads /\ x.tally = s.tally /\ x.pc = pc /\ x.linked = links
      /\ x.creates = s.creates /\ x.retry = s.retry /\ x.updates = s.updates
  BY <1>1 DEF Idle
<1> HIDE DEF x
<1>4. run'[r] = x /\ run' = [run EXCEPT ![r] = x]
  BY <1>1, <1>2 DEF x
<1>5. UNCHANGED <<file, people>>
  BY DEF FindsHeir, Promotes, Ends
<1>6. \/ UNCHANGED universities
      \/ \E u, h : universities' = [universities EXCEPT ![u].primary = h]
  BY DEF FindsHeir, Promotes, Ends
<1>7. Moved(r)
  BY <1>4, <1>5 DEF Moved
<1> QED
  BY <1>2, <1>3, <1>4, <1>5, <1>6, <1>7

LEMMA IdlePlans ==
  ASSUME NEW x, x.plan = NothingPlanned, Written(x), x.pc \notin {"MANAGER", "INSTRUCTOR"},
         DOMAIN x.snap = DOMAIN NothingRead
  PROVE  Plans(x)
<1>1. ToSet(<<>>) = {} /\ ToSet(x.plan.instructors) = {}
  BY DEF ToSet, NothingPlanned
<1> QED
  BY <1>1, NothingFits DEF Plans, InHand, Written

\* An execution that goes on to less of the same plan.
LEMMA PlansOnward ==
  ASSUME NEW s, Plans(s), NEW x, x.plan = s.plan, x.snap = s.snap, InHand(x), x.pc # "users"
  PROVE  Plans(x)
  BY DEF Plans

LEMMA InHandOnward ==
  ASSUME NEW s, InHand(s), NEW x, x.plan = s.plan, x.pc = s.pc,
         s.pc \in {"MANAGER", "INSTRUCTOR"},
         ToSet(x.creates) \cup ToSet(x.retry) \subseteq ToSet(s.creates) \cup ToSet(s.retry),
         ToSet(x.updates) \subseteq ToSet(s.updates)
  PROVE  InHand(x)
  BY DEF InHand, Here

Planning == \A r \in Runs : Plans(run[r])

Addressed == None \notin DOMAIN people

LEMMA AllPlans ==
  ASSUME UNCHANGED file, \A t \in Runs : Plans(run'[t]) PROVE Planning'
<1>1. ASSUME NEW t \in Runs PROVE Plans(run[t])'
  <2>1. ASSUME NEW p PROVE Retires(p, run[t].snap)' <=> Retires(p, run'[t].snap)
    <3>1. Spoken(run[t].snap)' = Spoken(run'[t].snap)
      BY DEF Spoken
    <3>2. SaidInactive(p.id, run[t].snap)' <=> SaidInactive(p.id, run'[t].snap)
      BY <3>1 DEF SaidInactive
    <3> QED
      BY <3>2 DEF Retires
  <2>2. Plans(run'[t])
    OBVIOUS
  <2> QED
    BY <2>1, <2>2 DEF Plans
<1> QED
  BY <1>1 DEF Planning

LEMMA OnePlans ==
  ASSUME Accounts, Planning, NEW r \in Runs, Moved(r), Plans(run'[r]) PROVE Planning'
<1>1. /\ DOMAIN run = Runs /\ UNCHANGED file
      /\ \A t \in Runs : run'[t] = IF t = r THEN run'[r] ELSE run[t]
  BY DEF Accounts, Moved
<1>2. \A t \in Runs : Plans(run'[t])
  BY <1>1 DEF Planning
<1> QED
  BY <1>1, <1>2, AllPlans

\* What a step writes of a person: nothing they had, unless a plan updates them.
LEMMA CreatesAddresses ==
  ASSUME NEW list, NEW leads, Creates(list, leads), DOMAIN list = 1..Len(list)
  PROVE  /\ DOMAIN people' = DOMAIN people \cup {p.email : p \in ToSet(list)}
         /\ \A x \in DOMAIN people : people'[x] = people[x]
<1>1. DOMAIN Rows(list, leads) = {list[i].email : i \in DOMAIN list}
  BY DEF Rows
<1>2. people' = With(people, Rows(list, leads))
  BY DEF Creates
<1>3. {p.email : p \in ToSet(list)} = {list[i].email : i \in DOMAIN list}
  BY DEF ToSet
<1>4. /\ DOMAIN With(people, Rows(list, leads)) = DOMAIN people \cup DOMAIN Rows(list, leads)
      /\ \A x \in DOMAIN people : With(people, Rows(list, leads))[x] = people[x]
  BY WithIsBoth
<1> QED
  BY <1>1, <1>2, <1>3, <1>4

LEMMA PlansHave ==
  ASSUME NEW s, Plans(s)
  PROVE  /\ \A p \in ToSet(s.plan.managers) : Sound(p, "MANAGER", s.snap)
         /\ \A p \in ToSet(s.plan.instructors) : Sound(p, "INSTRUCTOR", s.snap)
<1>1. ASSUME NEW q, NEW kind, NEW us, PeoplePlanned(q, kind, s.snap, us)
      PROVE  \A p \in ToSet(q) : Sound(p, kind, s.snap)
  <2>1. ToSet(q) = {q[i] : i \in 1..Len(q)}
    BY <1>1, ListMembers DEF PeoplePlanned
  <2> QED
    BY <1>1, <2>1 DEF PeoplePlanned
<1> QED
  BY <1>1 DEF Plans, PlansFit

\* Nobody is retired but who the plans of some execution retire.
Retired ==
  \A x \in DOMAIN people \cap DOMAIN people' :
    people[x].status = "active" /\ people'[x].status = "inactive"
      => \E r \in Runs : SaidInactive(x, run[r].snap)

LEMMA ReadsKeepPlans ==
  ASSUME Accounts, Planning, Addressed, NEW r \in Runs,
         Starts(r) \/ ReadsUsers(r) \/ ReadsProfiles(r) \/ Dies(r)
  PROVE  Moved(r) /\ Plans(run'[r])
<1> DEFINE s == run[r]
<1>0. DOMAIN s = DOMAIN Idle /\ DOMAIN run = Runs /\ Plans(s)
  BY DEF Accounts, Accounted, HasLists, Planning
<1>1. CASE Starts(r) \/ Dies(r)
  <2>1. PICK x : /\ run' = [run EXCEPT ![r] = x] /\ UNCHANGED file
                 /\ x.plan = NothingPlanned /\ Written(x)
                 /\ x.pc \notin {"MANAGER", "INSTRUCTOR"}
                 /\ DOMAIN x.snap = DOMAIN NothingRead
    <3> DEFINE x == [Idle EXCEPT !.pc = "users",
                       !.snap.universities = UniversitiesRead(file, universities)]
               y == [Idle EXCEPT !.pc = "dead"]
    <3>1. \A z \in {x, y} : /\ z.plan = NothingPlanned /\ Written(z)
                            /\ z.pc \notin {"MANAGER", "INSTRUCTOR"}
                            /\ DOMAIN z.snap = DOMAIN NothingRead
      <4>1. /\ x.plan = NothingPlanned /\ Written(x) /\ x.pc = "users"
            /\ DOMAIN x.snap = DOMAIN NothingRead
        BY DEF Idle, Written
      <4>2. /\ y.plan = NothingPlanned /\ Written(y) /\ y.pc = "dead"
            /\ DOMAIN y.snap = DOMAIN NothingRead
        BY DEF Idle, Written
      <4> HIDE DEF x, y
      <4> QED
        BY <4>1, <4>2
    <3>2. UNCHANGED file /\ \E z \in {x, y} : run' = [run EXCEPT ![r] = z]
      BY <1>1 DEF Starts, Dies
    <3> HIDE DEF x, y
    <3> QED
      BY <3>1, <3>2
  <2> QED
    BY <1>0, <2>1, IdlePlans DEF Moved
<1>2. CASE ReadsUsers(r)
  <2> DEFINE x == [s EXCEPT !.pc = "profiles", !.snap.users = UsersRead(file, people)]
  <2>1. run' = [run EXCEPT ![r] = x] /\ UNCHANGED file /\ s.pc = "users"
    BY <1>0, <1>2 DEF ReadsUsers
  <2>2. /\ x.pc = "profiles" /\ x.plan = s.plan /\ x.creates = s.creates
        /\ x.retry = s.retry /\ x.updates = s.updates
        /\ DOMAIN x.snap = DOMAIN s.snap
    BY <1>0 DEF Idle
  <2> HIDE DEF x
  <2>3. /\ s.plan = NothingPlanned /\ Written(s)
        /\ DOMAIN s.snap = DOMAIN NothingRead
    BY <1>0, <2>1 DEF Plans, InHand
  <2> QED
    BY <1>0, <2>1, <2>2, <2>3, IdlePlans DEF Moved, Written
<1>3. CASE ReadsProfiles(r)
  <2> DEFINE snap == [s.snap EXCEPT
                        !.profiles = ProfilesRead(s.snap.universities, people),
                        !.holders = CodesHeld(people)]
             plan == Resolve(file, snap)
             x == [Idle EXCEPT !.pc = "universities", !.snap = snap, !.plan = plan,
                               !.todo = plan.universities]
  <2>1. run' = [run EXCEPT ![r] = x] /\ UNCHANGED file
    BY <1>3 DEF ReadsProfiles
  <2>2. None \notin DOMAIN snap.profiles
    <3>1. /\ None \notin DOMAIN NothingRead.profiles
          /\ None \notin DOMAIN ProfilesRead(s.snap.universities, people)
      BY DEF ProfilesRead, NothingRead, Addressed
    <3>2. "profiles" \in DOMAIN s.snap
      BY <1>0 DEF Plans, NothingRead
    <3> QED
      BY <3>1, <3>2
  <2>3. Len(file) \in Nat /\ \A i \in 1..Len(file) : file[i] \in ToSet(file)
    BY FilesAssumption DEF Accounts, ToSet
  <2>7. DOMAIN snap = DOMAIN NothingRead
    BY <1>0 DEF Plans
  <2> HIDE DEF snap
  <2>4. PlansFit(plan, snap) /\ \A p \in ToSet(plan.instructors) : Retires(p, snap)
    BY <2>2, <2>3, ResolveFits, PlanRetires
  <2> HIDE DEF plan
  <2>5. x.pc = "universities" /\ x.snap = snap /\ x.plan = plan /\ Written(x)
    BY DEF Idle, Written
  <2> HIDE DEF x
  <2>6. InHand(x)
    <3>1. ToSet(<<>>) = {}
      BY DEF ToSet
    <3> QED
      BY <2>5, <3>1 DEF InHand, Written
  <2> QED
    BY <1>0, <2>1, <2>4, <2>5, <2>6, <2>7 DEF Moved, Plans
<1> QED
  BY <1>1, <1>2, <1>3

LEMMA StepPlans ==
  ASSUME IInv, Accounts, Planning, Addressed, NEW r \in Runs, Step(r)
  PROVE  Planning' /\ Addressed' /\ Retired
<1> DEFINE s == run[r]
           x == run'[r]
<1>0. Plans(s)
  BY DEF Planning
<1> SUFFICES Moved(r) /\ Plans(x) /\ Addressed' /\ Retired
  BY OnePlans
<1>1. ASSUME UNCHANGED people PROVE Addressed' /\ Retired
  BY <1>1 DEF Addressed, Retired
<1>2. CASE Starts(r) \/ ReadsUsers(r) \/ ReadsProfiles(r) \/ Dies(r)
  <2>1. UNCHANGED people
    BY <1>2 DEF Starts, ReadsUsers, ReadsProfiles, Dies
  <2> QED
    BY <1>1, <1>2, <2>1, ReadsKeepPlans
<1>3. CASE WritesUniversity(r)
  <2>1. /\ Moved(r) /\ UNCHANGED people /\ s.pc = "universities" /\ x.pc = s.pc
        /\ x.snap = s.snap /\ x.plan = s.plan
        /\ x.creates = s.creates /\ x.retry = s.retry /\ x.updates = s.updates
    BY <1>3, UniversityIsWritten
  <2> HIDE DEF x
  <2>2. InHand(x)
    BY <1>0, <2>1 DEF Plans, InHand, Here, Written
  <2> QED
    BY <1>0, <1>1, <2>1, <2>2, PlansOnward
<1>4. CASE ReadsManagers(r) \/ RereadsManagers(r)
  <2>1. /\ Moved(r) /\ UNCHANGED people /\ x.pc \in {"MANAGER", "INSTRUCTOR"}
        /\ x.snap = s.snap /\ x.plan = s.plan /\ x.retry = s.retry
        /\ ToSet(x.creates) = PlansOf(Here(x), "create")
        /\ ToSet(x.updates) = PlansOf(Here(x), "update")
        /\ \/ s.pc = "universities"
           \/ s.pc = "MANAGER" /\ Written(s)
    BY <1>4, PhaseStarts
  <2> HIDE DEF x
  <2>2. ToSet(s.retry) = {}
    <3>1. ToSet(<<>>) = {}
      BY DEF ToSet
    <3> QED
      BY <1>0, <2>1, <3>1 DEF Plans, InHand, Written
  <2>3. InHand(x)
    BY <2>1, <2>2 DEF InHand
  <2> QED
    BY <1>0, <1>1, <2>1, <2>3, PlansOnward
<1>5. CASE FindsHeir(r) \/ Promotes(r) \/ Ends(r)
  <2>1. /\ Moved(r) /\ UNCHANGED people
        /\ x.snap = s.snap /\ x.plan = s.plan
        /\ x.creates = s.creates /\ x.retry = s.retry /\ x.updates = s.updates
        /\ x.pc = s.pc \/ (s.pc = "INSTRUCTOR" /\ Written(s) /\ x.pc = "ended")
    BY <1>5, OwnersAreFound
  <2> HIDE DEF x
  <2>2. InHand(x) /\ (x.pc = "users" => s.pc = "users")
    BY <1>0, <2>1 DEF Plans, InHand, Here, Written
  <2> QED
    BY <1>0, <1>1, <2>1, <2>2 DEF Plans
<1>6. ASSUME NEW list, IsList(list), Creates(list, s.leads),
             ToSet(list) \subseteq ToSet(s.creates) \cup ToSet(s.retry)
      PROVE  Addressed' /\ Retired
  <2>1. /\ DOMAIN people' = DOMAIN people \cup {p.email : p \in ToSet(list)}
        /\ \A y \in DOMAIN people : people'[y] = people[y]
    BY <1>6, ListMembers, CreatesAddresses
  <2>2. ASSUME NEW p \in ToSet(list) PROVE p.email # None
    <3>1. p \in Here(s) /\ p.action = "create"
      BY <1>0, <1>6 DEF Plans, InHand, PlansOf
    <3>2. \E kind : Sound(p, kind, s.snap)
      BY <1>0, <3>1, PlansHave DEF Here
    <3> QED
      BY <3>1, <3>2, ResolveAssumption DEF Sound
  <2> QED
    BY <2>1, <2>2 DEF Addressed, Retired
<1>7. CASE WritesChunk(r)
  <2>1. /\ Moved(r) /\ Onward(x, s) /\ x.updates = s.updates
        /\ s.pc \in {"MANAGER", "INSTRUCTOR"} /\ s.retry = <<>>
        /\ \E chunk, usable :
             /\ IsList(usable) /\ ToSet(s.creates) = ToSet(chunk) \cup ToSet(x.creates)
             /\ ToSet(usable) = {p \in ToSet(chunk) : p.uni \in s.linked}
             /\ \/ CanCreate(usable) /\ Creates(usable, s.leads) /\ x.retry = <<>>
                \/ x.retry = usable /\ UNCHANGED people
    BY <1>7, ChunkIsWritten
  <2>2. PICK chunk, usable :
             /\ IsList(usable) /\ ToSet(s.creates) = ToSet(chunk) \cup ToSet(x.creates)
             /\ ToSet(usable) = {p \in ToSet(chunk) : p.uni \in s.linked}
             /\ \/ CanCreate(usable) /\ Creates(usable, s.leads) /\ x.retry = <<>>
                \/ x.retry = usable /\ UNCHANGED people
    BY <2>1
  <2> HIDE DEF x
  <2>3. InHand(x)
    <3>1. ToSet(<<>>) = {}
      BY DEF ToSet
    <3>2. ToSet(usable) \subseteq ToSet(s.creates)
      BY <2>2
    <3> QED
      BY <1>0, <2>1, <2>2, <3>1, <3>2, InHandOnward DEF Plans, Onward
  <2>4. Addressed' /\ Retired
    BY <1>1, <1>6, <2>2
  <2> QED
    BY <1>0, <2>1, <2>3, <2>4, PlansOnward DEF Onward
<1>8. CASE RetriesOne(r)
  <2> DEFINE one == <<Head(s.retry)>>
  <2>1. /\ Moved(r) /\ Onward(x, s) /\ s.pc \in {"MANAGER", "INSTRUCTOR"}
        /\ s.retry # <<>> /\ IsList(s.retry)
        /\ x.retry = Tail(s.retry) /\ x.creates = s.creates /\ x.updates = s.updates
        /\ \/ Creates(one, s.leads)
           \/ UNCHANGED people
    BY <1>8, OneIsRetried
  <2>2. Head(s.retry) \in ToSet(s.retry) /\ ToSet(Tail(s.retry)) \subseteq ToSet(s.retry)
    BY <2>1, ListMembers
  <2>3. IsList(one) /\ ToSet(one) = {Head(s.retry)}
    <3>1. one \in Seq({Head(s.retry)})
      OBVIOUS
    <3>2. \A y : ToSet(<<y>>) = {y}
      BY DEF ToSet
    <3> QED
      BY <3>1, <3>2 DEF IsList
  <2> HIDE DEF x, one
  <2>4. InHand(x)
    BY <1>0, <2>1, <2>2, InHandOnward DEF Plans, Onward
  <2>5. Addressed' /\ Retired
    BY <1>1, <1>6, <2>1, <2>2, <2>3
  <2> QED
    BY <1>0, <2>1, <2>4, <2>5, PlansOnward DEF Onward
<1>9. CASE UpdatesOne(r)
  <2> DEFINE p == Head(s.updates)
  <2>1. /\ Moved(r) /\ Onward(x, s) /\ s.pc \in {"MANAGER", "INSTRUCTOR"}
        /\ s.updates # <<>> /\ IsList(s.updates)
        /\ x.updates = Tail(s.updates) /\ x.creates = s.creates /\ x.retry = s.retry
        /\ \/ people' = [people EXCEPT ![p.id] = Updated(p, s.leads)]
           \/ UNCHANGED people
    BY <1>9, OneIsUpdated
  <2>2. p \in ToSet(s.updates) /\ ToSet(Tail(s.updates)) \subseteq ToSet(s.updates)
    BY <2>1, ListMembers
  <2> HIDE DEF x, p
  <2>3. InHand(x)
    BY <1>0, <2>1, <2>2, InHandOnward DEF Plans, Onward
  <2>4. CASE people' = [people EXCEPT ![p.id] = Updated(p, s.leads)]
    <3>1. Addressed'
      BY <2>4 DEF Addressed
    <3>2. SUFFICES ASSUME NEW y \in DOMAIN people, people[y].status = "active",
                          people'[y].status = "inactive"
                   PROVE  SaidInactive(y, s.snap)
      BY <2>1, <2>3, <1>0, <3>1, PlansOnward DEF Retired, Onward
    <3>3. y = p.id
      BY <2>4, <3>2
    <3>4. people'[y].status = Or(p.status, people[y].status)
      <4>1. "status" \in DOMAIN people[y]
        BY DEF IInv, Stored, Columns
      <4> QED
        BY <2>4, <3>3, <4>1 DEF Updated
    <3>5. p.status = "inactive" /\ p.status # None
      BY <3>2, <3>4 DEF Or
    <3>6. p.action = "update" /\ p \in Here(s)
      BY <1>0, <2>1, <2>2 DEF Plans, InHand, PlansOf
    <3>7. p \in ToSet(s.plan.instructors)
      BY <1>0, <2>1, <3>5, <3>6, PlansHave DEF Here, Sound
    <3> QED
      BY <1>0, <3>3, <3>5, <3>6, <3>7 DEF Plans, Retires
  <2> QED
    BY <1>0, <1>1, <2>1, <2>3, <2>4, PlansOnward DEF Onward
<1> QED
  BY <1>2, <1>3, <1>4, <1>5, <1>7, <1>8, <1>9 DEF Step

LEMMA InitPlans == Init => Planning /\ Addressed
<1> SUFFICES ASSUME Init PROVE Planning /\ Addressed
  OBVIOUS
<1>1. Plans(Idle)
  <2>1. /\ Idle.plan = NothingPlanned /\ Written(Idle) /\ Idle.pc = "idle"
        /\ Idle.snap = NothingRead
    BY DEF Idle, Written
  <2> QED
    BY <2>1, IdlePlans
<1>2. Planning
  BY <1>1 DEF Init, Planning
<1>3. Addressed
  <2>1. PICK db \in Databases : people = db.people
    BY DEF Init
  <2> QED
    BY <2>1, DatabasesAssumption DEF Addressed
<1> QED
  BY <1>2, <1>3

LEMMA NextPlans ==
  ASSUME IInv, Accounts, Planning, Addressed, [Next]_vars
  PROVE  Planning' /\ Addressed' /\ (Retired \/ UNCHANGED vars)
<1>1. ASSUME UNCHANGED <<file, run>> PROVE Planning'
  BY <1>1, AllPlans DEF Planning
<1>2. CASE OpensAccount
  <2>1. PICK a \in Elsewhere : Creates(<<a>>, <<>>)
    BY <1>2 DEF OpensAccount
  <2>2. DOMAIN <<a>> = 1..Len(<<a>>) /\ ToSet(<<a>>) = {a}
    BY DEF ToSet
  <2>3. /\ DOMAIN people' = DOMAIN people \cup {a.email}
        /\ \A x \in DOMAIN people : people'[x] = people[x]
    <3>1. {p.email : p \in {a}} = {a.email}
      OBVIOUS
    <3>2. /\ DOMAIN people' = DOMAIN people \cup {p.email : p \in ToSet(<<a>>)}
          /\ \A x \in DOMAIN people : people'[x] = people[x]
      BY <2>1, <2>2, CreatesAddresses
    <3> QED
      BY <2>2, <3>1, <3>2
  <2>4. Addressed' /\ Retired
    BY <2>3, ElsewhereAssumption DEF Addressed, Retired
  <2> QED
    BY <1>1, <1>2, <2>4 DEF OpensAccount
<1>3. CASE OpensUniversity
  BY <1>1, <1>3 DEF OpensUniversity, Addressed, Retired
<1>4. ASSUME NEW r \in Runs, Step(r) PROVE Planning' /\ Addressed' /\ Retired
  BY <1>4, StepPlans
<1>5. CASE UNCHANGED vars
  BY <1>1, <1>5 DEF vars, Addressed
<1> QED
  BY <1>2, <1>3, <1>4, <1>5 DEF Next

(* An import deactivates nobody but an instructor its file found and calls *)
(* inactive, whatever the file and however many executions overlap.        *)
THEOREM ImportRetiresOnlyTheNamed == Spec => OnlyTheNamedAreRetired
<1>1. Init => IInv /\ Accounts /\ Planning /\ Addressed
  BY InitIInv, InitAccounts, InitPlans
<1>2. IInv /\ Accounts /\ Planning /\ Addressed /\ [Next]_vars
        => (IInv /\ Accounts /\ Planning /\ Addressed)'
  BY NextKeeps, NextAccounts, NextPlans
<1>3. IInv /\ Accounts /\ Planning /\ Addressed /\ [Next]_vars
        => [\A x \in DOMAIN people \cap DOMAIN people' :
              people[x].status = "active" /\ people'[x].status = "inactive"
                => \E r \in Runs : SaidInactive(x, run[r].snap)]_vars
  BY NextPlans DEF Retired
<1> QED
  BY <1>1, <1>2, <1>3, PTL DEF Spec, OnlyTheNamedAreRetired

-----------------------------------------------------------------------------
(* A run that reports no failure has imported its file, when executions    *)
(* take turns.  Of every plan the invariant says where its writing stands: *)
(* it is still in hand, or the tables say what it says; and of everybody   *)
(* the file found, that only a plan to update them has changed them.       *)

CodesUnique(ps) ==
  \A x, y \in DOMAIN ps :
    /\ ps[x].code # None /\ ps[x].code = ps[y].code
    /\ ps[x].kind = ps[y].kind /\ ps[x].uni = ps[y].uni
    => x = y

\* While it reads, nothing that it has read changes.
Reading(s, us, ps) ==
  /\ s.pc \in {"users", "profiles"} =>
       \A u \in DOMAIN s.snap.universities :
         u \in DOMAIN us /\ us[u].name = s.snap.universities[u]
  /\ s.pc = "profiles" =>
       \A x \in DOMAIN s.snap.users : x \in DOMAIN ps /\ ps[x] = s.snap.users[x]

\* The universities are linked until the promotions take them one by one.
Linking(s) ==
  s.pc \in {"universities", "MANAGER"} \/ (s.pc = "INSTRUCTOR" /\ ~Written(s))

AwaitsOpening(u, s, us) ==
  /\ u \in ToSet(s.todo)
  /\ u.known => u.uni \in DOMAIN us /\ us[u.uni].name = s.snap.universities[u.uni]

IsOpen(u, s, us) ==
  /\ u.uni \in DOMAIN us
  /\ u.name # None => us[u.uni].name = u.name
  /\ Linking(s) => u.uni \in s.linked

Opening(s, us) ==
  /\ s.pc # "universities" => s.todo = <<>>
  /\ ToSet(s.todo) \subseteq ToSet(s.plan.universities)
  /\ s.tally.failed = 0 =>
       \A u \in ToSet(s.plan.universities) : AwaitsOpening(u, s, us) \/ IsOpen(u, s, us)

\* Whoever the file found is there, and as they were found unless a plan is to
\* update them.
Remains(s, ps) ==
  /\ Snapshot(s.snap)
  /\ \A x \in DOMAIN s.snap.profiles :
       /\ x \in DOMAIN ps
       /\ ps[x].kind = s.snap.profiles[x].kind /\ ps[x].uni = s.snap.profiles[x].uni
       /\ \/ ps[x] = s.snap.profiles[x]
          \/ \E q \in People(s.plan) : q.action = "update" /\ q.id = x

\* Imported, of any people.
Is(p, plan, snap, ps) ==
  LET x == AccountOf(p)
  IN /\ x \in DOMAIN ps /\ ps[x].kind = p.kind
     /\ p.name # None => ps[x].name = p.name
     /\ p.code # None => ps[x].code = p.code
     /\ p.action # "unchanged" => ps[x].status = Or(p.status, ps[x].status)
     /\ p.action = "create" => ps[x].uni = p.uni
     /\ p.action # "unchanged" =>
          \A m \in LeadAskedFor(plan, p) : Settled(m, snap) => ps[x].lead = AccountOf(m)

Done(p, s, ps) ==
  /\ Is(p, s.plan, s.snap, ps)
  /\ p.action = "create" => p.email \notin DOMAIN s.snap.profiles

\* The people whose writing has begun.
Begun(s) ==
  CASE s.pc = "MANAGER" -> ToSet(s.plan.managers)
    [] s.pc \in {"INSTRUCTOR", "ended"} -> People(s.plan)
    [] OTHER -> {}

Untroubled(s) == s.tally.failed = 0 /\ InPlace(s.plan, s.snap)

Tended(s, ps) ==
  Untroubled(s) =>
    \A p \in Begun(s) :
      \/ p.action = "unchanged"
      \/ p \in ToSet(s.creates) \cup ToSet(s.retry) \cup ToSet(s.updates)
      \/ Done(p, s, ps)

\* The manager map leads instructors to the managers their file gives them.
Leading(s) ==
  s.pc = "INSTRUCTOR" /\ Untroubled(s) =>
    \A m \in ToSet(s.plan.managers) :
      Settled(m, s.snap) /\ m.code # None =>
        /\ <<m.uni, m.code>> \in DOMAIN s.leads
        /\ s.leads[<<m.uni, m.code>>] = AccountOf(m)

Importing(s, us, ps) ==
  /\ Reading(s, us, ps)
  /\ s.pc \in {"universities", "MANAGER", "INSTRUCTOR", "ended"} =>
       Opening(s, us) /\ Remains(s, ps) /\ Tended(s, ps) /\ Leading(s)

CInv == CodesUnique(people) /\ \A r \in Runs : Importing(run[r], universities, people)

\* What is known of every plan for a person.
LEMMA PlannedPeople ==
  ASSUME NEW plan, NEW snap, PlansFit(plan, snap)
  PROVE  /\ \A p \in ToSet(plan.managers) : Sound(p, "MANAGER", snap)
         /\ \A p \in ToSet(plan.instructors) : Sound(p, "INSTRUCTOR", snap)
         /\ \A p \in People(plan) :
              /\ \E u \in ToSet(plan.universities) : u.uni = p.uni
              /\ Snapshot(snap) => Settles(p, snap)
         /\ IsList(plan.universities)
<1>1. ASSUME NEW plans, NEW kind, PeoplePlanned(plans, kind, snap, UnisOf(plan.universities)),
             NEW p \in ToSet(plans)
      PROVE  /\ Sound(p, kind, snap) /\ p.uni \in UnisOf(plan.universities)
             /\ Snapshot(snap) => Settles(p, snap)
  <2>1. ToSet(plans) = {plans[i] : i \in 1..Len(plans)}
    BY <1>1, ListMembers DEF PeoplePlanned
  <2> QED
    BY <1>1, <2>1 DEF PeoplePlanned
<1>2. IsList(plan.universities)
  BY DEF PlansFit, UniversitiesPlanned
<1>3. \A y \in UnisOf(plan.universities) : \E u \in ToSet(plan.universities) : u.uni = y
  <2>1. ToSet(plan.universities)
          = {plan.universities[i] : i \in 1..Len(plan.universities)}
    BY <1>2, ListMembers
  <2> QED
    BY <2>1 DEF UnisOf
<1> QED
  BY <1>1, <1>2, <1>3 DEF PlansFit, People

\* Two plans never find the same person, if everybody is found where the rows say.
LEMMA OnePlanEach ==
  ASSUME NEW plan, NEW snap, PlansFit(plan, snap), InPlace(plan, snap),
         None \notin DOMAIN snap.profiles,
         NEW p \in People(plan), NEW q \in People(plan),
         p.action # "create", q.action # "create", p.id = q.id
  PROVE  p = q
<1>0. /\ \A z \in ToSet(plan.managers) : Sound(z, "MANAGER", snap)
      /\ \A z \in ToSet(plan.instructors) : Sound(z, "INSTRUCTOR", snap)
  BY PlannedPeople
<1>1. \A z \in People(plan) : z.action # "create" =>
        /\ z.id \in DOMAIN snap.profiles /\ snap.profiles[z.id].uni = z.uni
        /\ <<z.uni, "ID", z.id>> \in z.keys
  BY <1>0 DEF People, Sound, InPlace
<1>2. /\ \A z \in ToSet(plan.managers) : z.action # "create" =>
           snap.profiles[z.id].kind = "MANAGER"
      /\ \A z \in ToSet(plan.instructors) : z.action # "create" =>
           snap.profiles[z.id].kind = "INSTRUCTOR"
  BY <1>0 DEF Sound
<1>3. p.keys \cap q.keys # {}
  BY <1>1
<1>4. ASSUME NEW plans, NEW kind, NEW us, PeoplePlanned(plans, kind, snap, us),
             p \in ToSet(plans), q \in ToSet(plans)
      PROVE  p = q
  <2>1. ToSet(plans) = {plans[i] : i \in 1..Len(plans)}
    BY <1>4, ListMembers DEF PeoplePlanned
  <2>2. PICK i \in 1..Len(plans), j \in 1..Len(plans) : p = plans[i] /\ q = plans[j]
    BY <1>4, <2>1
  <2> QED
    BY <1>3, <1>4, <2>2 DEF PeoplePlanned, Apart
<1>5. \/ p \in ToSet(plan.managers) /\ q \in ToSet(plan.managers)
      \/ p \in ToSet(plan.instructors) /\ q \in ToSet(plan.instructors)
  BY <1>2 DEF People
<1> QED
  BY <1>4, <1>5 DEF PlansFit

LEMMA IsAccount ==
  ASSUME NEW plan, NEW snap, PlansFit(plan, snap), None \notin DOMAIN snap.profiles,
         NEW p \in People(plan)
  PROVE  /\ p.action = "create" => AccountOf(p) = p.email /\ p.email # None
         /\ p.action # "create" => AccountOf(p) = p.id /\ p.id \in DOMAIN snap.profiles
<1>1. \E kind : Sound(p, kind, snap)
  BY PlannedPeople DEF People
<1> QED
  BY <1>1, ResolveAssumption DEF Sound, AccountOf

\* What has been done of a plan stays, while its account does.
LEMMA DoneStays ==
  ASSUME NEW p, NEW s, NEW ps, Done(p, s, ps), NEW x, x.plan = s.plan, x.snap = s.snap,
         NEW qs, AccountOf(p) \in DOMAIN ps =>
           AccountOf(p) \in DOMAIN qs /\ qs[AccountOf(p)] = ps[AccountOf(p)]
  PROVE  Done(p, x, qs)
<1>1. AccountOf(p) \in DOMAIN qs /\ qs[AccountOf(p)] = ps[AccountOf(p)]
  BY DEF Done, Is
<1> QED
  BY <1>1 DEF Done, Is

Grows(ps, qs) == \A x \in DOMAIN ps : x \in DOMAIN qs /\ qs[x] = ps[x]

KeepsNames(us, vs) == \A u \in DOMAIN us : u \in DOMAIN vs /\ vs[u].name = us[u].name

\* An execution that has moved on, at most, to its promotions.
Resting(x, s) ==
  /\ x.snap = s.snap /\ x.plan = s.plan /\ x.todo = s.todo
  /\ x.leads = s.leads /\ x.tally = s.tally
  /\ x.creates = s.creates /\ x.retry = s.retry /\ x.updates = s.updates
  /\ x.pc = s.pc \/ (s.pc = "INSTRUCTOR" /\ Written(s) /\ x.pc = "ended")
  /\ x.linked = s.linked \/ (s.pc = "INSTRUCTOR" /\ Written(s))

LEMMA RestingImports ==
  ASSUME NEW s, NEW us, NEW ps, Importing(s, us, ps), NEW x, Resting(x, s),
         NEW vs, KeepsNames(us, vs), NEW qs, Grows(ps, qs)
  PROVE  Importing(x, vs, qs)
<1>1. Reading(x, vs, qs)
  BY DEF Importing, Reading, Resting, KeepsNames, Grows
<1> SUFFICES ASSUME x.pc \in {"universities", "MANAGER", "INSTRUCTOR", "ended"}
             PROVE  Opening(x, vs) /\ Remains(x, qs) /\ Tended(x, qs) /\ Leading(x)
  BY <1>1 DEF Importing
<1>2. Opening(s, us) /\ Remains(s, ps) /\ Tended(s, ps) /\ Leading(s)
  BY DEF Importing, Resting
<1>3. Linking(x) => Linking(s) /\ x.linked = s.linked
  BY DEF Linking, Resting, Written
<1>4. Opening(x, vs)
  <2>1. \A u : /\ AwaitsOpening(u, s, us) => AwaitsOpening(u, x, vs)
               /\ IsOpen(u, s, us) => IsOpen(u, x, vs)
    BY <1>3 DEF AwaitsOpening, IsOpen, Resting, KeepsNames
  <2> QED
    BY <1>2, <2>1 DEF Opening, Resting
<1>5. Remains(x, qs)
  BY <1>2 DEF Remains, Resting, Grows
<1>6. Tended(x, qs)
  <2>1. Begun(x) = Begun(s) /\ (Untroubled(x) <=> Untroubled(s))
    BY DEF Begun, Untroubled, Resting
  <2>2. \A p : Done(p, s, ps) => Done(p, x, qs)
    BY DoneStays DEF Resting, Grows
  <2> QED
    BY <1>2, <2>1, <2>2 DEF Tended, Resting
<1>7. Leading(x)
  BY <1>2 DEF Leading, Resting, Untroubled
<1> QED
  BY <1>4, <1>5, <1>6, <1>7

\* Reading, and what it leads to.
LEMMA ReadsImport ==
  ASSUME Accounts, Planning, Addressed, CInv, NEW r \in Runs,
         Starts(r) \/ ReadsUsers(r) \/ ReadsProfiles(r) \/ Dies(r)
  PROVE  Importing(run'[r], universities', people')
<1> DEFINE s == run[r]
<1>0. /\ DOMAIN s = DOMAIN Idle /\ DOMAIN run = Runs /\ Plans(s)
      /\ Importing(s, universities, people) /\ CodesUnique(people)
      /\ UNCHANGED <<universities, people>>
  BY DEF Accounts, Accounted, HasLists, Planning, CInv, Starts, ReadsUsers, ReadsProfiles, Dies
<1> SUFFICES Importing(run'[r], universities, people)
  BY <1>0
<1>1. CASE Dies(r)
  <2> DEFINE x == [Idle EXCEPT !.pc = "dead"]
  <2>1. run'[r] = x
    BY <1>0, <1>1 DEF Dies
  <2>2. x.pc = "dead"
    BY DEF Idle
  <2> HIDE DEF x
  <2> QED
    BY <2>1, <2>2 DEF Importing, Reading
<1>2. CASE Starts(r)
  <2> DEFINE read == UniversitiesRead(file, universities)
             x == [Idle EXCEPT !.pc = "users", !.snap.universities = read]
  <2>1. run'[r] = x
    BY <1>0, <1>2 DEF Starts
  <2>2. x.pc = "users" /\ x.snap.universities = read
    BY DEF Idle, NothingRead
  <2>3. \A u \in DOMAIN read : u \in DOMAIN universities /\ read[u] = universities[u].name
    BY DEF UniversitiesRead
  <2> HIDE DEF x, read
  <2> QED
    BY <2>1, <2>2, <2>3 DEF Importing, Reading
<1>3. CASE ReadsUsers(r)
  <2> DEFINE read == UsersRead(file, people)
             x == [s EXCEPT !.pc = "profiles", !.snap.users = read]
  <2>1. run' = [run EXCEPT ![r] = x] /\ s.pc = "users"
    BY <1>0, <1>3 DEF ReadsUsers
  <2>2. x.pc = "profiles" /\ x.snap.users = read /\ x.snap.universities = s.snap.universities
    BY <1>0 DEF Idle, Plans, NothingRead
  <2>3. \A y \in DOMAIN read : y \in DOMAIN people /\ read[y] = people[y]
    <3> DEFINE S == UNION {{row.memail, row.iemail} : row \in ToSet(file)}
    <3>1. read = [y \in S \cap DOMAIN people |-> people[y]]
      BY DEF UsersRead
    <3> HIDE DEF read, S
    <3> QED
      BY <3>1
  <2>4. run'[r] = x
    BY <1>0, <2>1
  <2> HIDE DEF x, read
  <2> QED
    BY <1>0, <2>1, <2>2, <2>3, <2>4 DEF Importing, Reading
<1>4. CASE ReadsProfiles(r)
  <2> DEFINE profiles == ProfilesRead(s.snap.universities, people)
             snap == [s.snap EXCEPT !.profiles = profiles, !.holders = CodesHeld(people)]
             plan == Resolve(file, snap)
             x == [Idle EXCEPT !.pc = "universities", !.snap = snap, !.plan = plan,
                               !.todo = plan.universities]
  <2>1. run'[r] = x /\ s.pc = "profiles"
    BY <1>0, <1>4 DEF ReadsProfiles
  <2>2. /\ snap.profiles = profiles /\ snap.users = s.snap.users
        /\ snap.universities = s.snap.universities
    BY <1>0 DEF Plans, NothingRead
  <2>3. x.pc = "universities" /\ x.snap = snap /\ x.plan = plan /\ x.todo = plan.universities
    BY DEF Idle
  <2>4. Plans(x)
    BY <1>4, <2>1, ReadsKeepPlans
  <2>5. \A y : /\ y \in DOMAIN profiles <=>
                    y \in DOMAIN people /\ people[y].uni \in DOMAIN s.snap.universities
               /\ y \in DOMAIN profiles => profiles[y] = people[y]
    BY DEF ProfilesRead
  <2>6. /\ \A u \in DOMAIN s.snap.universities :
             u \in DOMAIN universities /\ universities[u].name = s.snap.universities[u]
        /\ \A y \in DOMAIN s.snap.users : y \in DOMAIN people /\ people[y] = s.snap.users[y]
    BY <1>0, <2>1 DEF Importing, Reading
  <2> HIDE DEF x, plan, snap, profiles
  <2>7. Snapshot(snap)
    <3>1. None \notin DOMAIN snap.profiles
      BY <2>2, <2>5 DEF Addressed
    <3>2. \A y \in DOMAIN snap.profiles : snap.profiles[y].uni \in DOMAIN snap.universities
      BY <2>2, <2>5
    <3>3. \A y \in DOMAIN snap.users :
            /\ snap.users[y].uni \in DOMAIN snap.universities => y \in DOMAIN snap.profiles
            /\ y \in DOMAIN snap.profiles => snap.profiles[y] = snap.users[y]
      BY <2>2, <2>5, <2>6
    <3>4. CodesUnique(snap.profiles)
      BY <1>0, <2>2, <2>5 DEF CodesUnique
    <3> QED
      BY <3>1, <3>2, <3>3, <3>4 DEF Snapshot, CodesUnique
  <2>8. Remains(x, people)
    BY <2>2, <2>3, <2>5, <2>7 DEF Remains
  <2>9. Opening(x, universities)
    <3>1. ASSUME NEW u \in ToSet(plan.universities) PROVE AwaitsOpening(u, x, universities)
      <4>1. ToSet(plan.universities)
              = {plan.universities[i] : i \in 1..Len(plan.universities)}
        BY <2>3, <2>4, ListMembers DEF Plans, PlansFit, UniversitiesPlanned
      <4>2. u.known => u.uni \in DOMAIN snap.universities
        BY <2>3, <2>4, <3>1, <4>1 DEF Plans, PlansFit, UniversitiesPlanned
      <4> QED
        BY <2>2, <2>3, <2>6, <3>1, <4>2 DEF AwaitsOpening
    <3> QED
      BY <2>3, <3>1 DEF Opening
  <2>10. Tended(x, people) /\ Leading(x) /\ Reading(x, universities, people)
    BY <2>3 DEF Tended, Begun, Leading, Reading
  <2> QED
    BY <2>1, <2>8, <2>9, <2>10 DEF Importing
<1> QED
  BY <1>1, <1>2, <1>3, <1>4

LEMMA UniversitiesImport ==
  ASSUME IInv, Accounts, Planning, CInv, NEW r \in Runs, WritesUniversity(r)
  PROVE  Importing(run'[r], universities', people')
<1> DEFINE s == run[r]
           x == run'[r]
           h == Head(s.todo)
           renames == h.known /\ h.action = "update" /\ h.name # None
<1>1. /\ UNCHANGED people
      /\ s.pc = "universities" /\ s.todo # <<>> /\ IsList(s.todo)
      /\ x.pc = s.pc /\ x.snap = s.snap /\ x.plan = s.plan
      /\ x.todo = Tail(s.todo) /\ s.tally.failed \in Nat
      /\ \/ /\ x.tally.failed = s.tally.failed /\ x.linked = s.linked \cup {h.uni}
            /\ \/ h.known /\ ~renames /\ UNCHANGED universities
               \/ renames /\ universities' = [universities EXCEPT ![h.uni].name = h.name]
               \/ /\ ~h.known /\ h.uni \notin DOMAIN universities
                  /\ universities' = Opened(h.uni, h.name)
         \/ x.tally.failed = s.tally.failed + 1 /\ UNCHANGED universities
  BY UniversityIsWritten
<1>2. /\ Opening(s, universities) /\ Remains(s, people) /\ Plans(s)
      /\ \A u \in DOMAIN universities : "name" \in DOMAIN universities[u]
  BY <1>1 DEF CInv, Importing, Planning, IInv, Stored
<1>3. /\ h \in ToSet(s.todo) /\ ToSet(Tail(s.todo)) \subseteq ToSet(s.todo)
      /\ ToSet(s.todo) \subseteq {h} \cup ToSet(Tail(s.todo))
  BY <1>1, ListMembers
<1> HIDE DEF x, h
<1>4. Remains(x, people) /\ Tended(x, people) /\ Leading(x) /\ Reading(x, universities', people)
  BY <1>1, <1>2 DEF Remains, Tended, Begun, Leading, Reading
<1>5. ASSUME x.tally.failed = 0, NEW u \in ToSet(s.plan.universities)
      PROVE  AwaitsOpening(u, x, universities') \/ IsOpen(u, x, universities')
  <2>1. /\ s.tally.failed = 0 /\ x.linked = s.linked \cup {h.uni}
        /\ \/ h.known /\ ~renames /\ UNCHANGED universities
           \/ renames /\ universities' = [universities EXCEPT ![h.uni].name = h.name]
           \/ /\ ~h.known /\ h.uni \notin DOMAIN universities
              /\ universities' = Opened(h.uni, h.name)
    BY <1>1, <1>5
  <2>2. h \in ToSet(s.plan.universities)
    BY <1>2, <1>3 DEF Opening
  <2>3. \A v \in ToSet(s.plan.universities) :
          AwaitsOpening(v, s, universities) \/ IsOpen(v, s, universities)
    BY <1>2, <2>1 DEF Opening
  <2>4. /\ u.uni = h.uni => u = h
        /\ h.known /\ h.name # None =>
             h.action = "update" \/ h.name = s.snap.universities[h.uni]
    <3>1. /\ UniversitiesPlanned(s.plan.universities, s.snap)
          /\ ToSet(s.plan.universities)
               = {s.plan.universities[i] : i \in 1..Len(s.plan.universities)}
      BY <1>2, ListMembers DEF Plans, PlansFit, UniversitiesPlanned
    <3>2. PICK i \in 1..Len(s.plan.universities), j \in 1..Len(s.plan.universities) :
            u = s.plan.universities[i] /\ h = s.plan.universities[j]
      BY <1>5, <2>2, <3>1
    <3> QED
      BY <3>1, <3>2 DEF UniversitiesPlanned
  <2>5. /\ DOMAIN universities \subseteq DOMAIN universities'
        /\ \A v \in DOMAIN universities :
             v # h.uni => universities'[v].name = universities[v].name
    BY <2>1 DEF Opened, With
  <2>6. Linking(s) /\ Linking(x)
    BY <1>1 DEF Linking
  <2>7. CASE u.uni # h.uni
    BY <1>1, <1>3, <2>1, <2>3, <2>5, <2>6, <2>7 DEF AwaitsOpening, IsOpen
  <2>8. CASE u = h
    <3>1. CASE h.known /\ ~renames /\ UNCHANGED universities
      <4>1. h.uni \in DOMAIN universities /\ (h.name # None => universities[h.uni].name = h.name)
        BY <2>2, <2>3, <2>4, <3>1 DEF AwaitsOpening, IsOpen
      <4> QED
        BY <2>1, <2>8, <3>1, <4>1 DEF IsOpen
    <3>2. CASE renames /\ universities' = [universities EXCEPT ![h.uni].name = h.name]
      <4>1. h.uni \in DOMAIN universities
        BY <2>2, <2>3, <3>2 DEF AwaitsOpening, IsOpen
      <4>2. h.uni \in DOMAIN universities' /\ universities'[h.uni].name = h.name
        BY <1>2, <3>2, <4>1
      <4> QED
        BY <2>1, <2>8, <4>2 DEF IsOpen
    <3>3. CASE /\ ~h.known /\ h.uni \notin DOMAIN universities
               /\ universities' = Opened(h.uni, h.name)
      <4>1. h.uni \in DOMAIN universities' /\ universities'[h.uni].name = h.name
        BY <3>3 DEF Opened, With
      <4> QED
        BY <2>1, <2>8, <4>1 DEF IsOpen
    <3> QED
      BY <2>1, <3>1, <3>2, <3>3
  <2> QED
    BY <2>4, <2>7, <2>8
<1>6. Opening(x, universities')
  BY <1>1, <1>2, <1>3, <1>5 DEF Opening
<1> QED
  BY <1>1, <1>4, <1>6 DEF Importing, x

\* What a plan to skip says is what is there.
LEMMA UnchangedIs ==
  ASSUME NEW s, Plans(s), InPlace(s.plan, s.snap), NEW ps, Remains(s, ps),
         NEW p \in People(s.plan), p.action = "unchanged", Settled(p, s.snap)
  PROVE  Is(p, s.plan, s.snap, ps)
<1> DEFINE P == s.snap.profiles
<1>1. PlansFit(s.plan, s.snap) /\ Snapshot(s.snap) /\ None \notin DOMAIN P
  BY DEF Plans, Remains, Snapshot
<1>2. AccountOf(p) = p.id /\ p.id \in DOMAIN P /\ p.id # None
  BY <1>1, IsAccount
<1>3. P[p.id].kind = p.kind
  <2>1. \E kind : Sound(p, kind, s.snap)
    BY <1>1, PlannedPeople DEF People
  <2> QED
    BY <2>1 DEF Sound
<1>4. P[p.id].uni = p.uni
  BY <1>2 DEF InPlace
<1>5. /\ p.name # None => P[p.id].name = p.name
      /\ p.code # None => P[p.id].code = p.code
  <2>1. Settles(p, s.snap)
    BY <1>1, PlannedPeople
  <2> QED
    BY <1>4, <2>1 DEF Settles, Settled
<1>6. p.id \in DOMAIN ps /\ ps[p.id] = P[p.id]
  <2>1. ASSUME NEW q \in People(s.plan), q.action = "update", q.id = p.id PROVE FALSE
    <3>1. p = q
      BY <1>1, <2>1, OnePlanEach
    <3> QED
      BY <2>1, <3>1
  <2> QED
    BY <1>2, <2>1 DEF Remains
<1> QED
  BY <1>2, <1>3, <1>5, <1>6 DEF Is

\* The map that is read again leads to every manager of the file.
LEMMA LeadsFollow ==
  ASSUME NEW s, Plans(s), Untroubled(s), s.pc = "MANAGER", Opening(s, universities),
         Remains(s, people), CodesUnique(people), Written(s), Tended(s, people),
         NEW m \in ToSet(s.plan.managers), Settled(m, s.snap), m.code # None
  PROVE  LET leads == With(LeadsRead(s.linked), s.leads)
         IN <<m.uni, m.code>> \in DOMAIN leads /\ leads[<<m.uni, m.code>>] = AccountOf(m)
<1> DEFINE a == AccountOf(m)
           P == s.snap.profiles
           coded == {x \in DOMAIN people : /\ people[x].kind = "MANAGER"
                                          /\ people[x].uni \in s.linked
                                          /\ people[x].code # None}
           Key(x) == <<people[x].uni, people[x].code>>
           read == LeadsRead(s.linked)
<1>1. /\ PlansFit(s.plan, s.snap) /\ None \notin DOMAIN P /\ m \in People(s.plan)
      /\ InPlace(s.plan, s.snap) /\ s.tally.failed = 0 /\ s.todo = <<>>
  BY DEF Plans, Remains, Snapshot, People, Untroubled, Opening
<1>2. m.kind = "MANAGER"
  BY <1>1, PlannedPeople DEF Sound
<1>3. Is(m, s.plan, s.snap, people)
  <2>1. m.action = "unchanged" \/ Done(m, s, people)
    <3>1. ToSet(<<>>) = {}
      BY DEF ToSet
    <3> QED
      BY <3>1 DEF Tended, Begun, Written
  <2> QED
    BY <1>1, <2>1, UnchangedIs DEF Done
<1>4. a \in DOMAIN people /\ people[a].kind = "MANAGER" /\ people[a].code = m.code
  BY <1>2, <1>3 DEF Is
<1>5. people[a].uni = m.uni
  <2>1. CASE m.action = "create"
    BY <1>3, <2>1 DEF Is
  <2>2. CASE m.action # "create"
    <3>1. a = m.id /\ m.id \in DOMAIN P /\ m.id # None
      BY <1>1, <2>2, IsAccount
    <3>2. P[m.id].uni = m.uni
      BY <1>1, <3>1 DEF InPlace
    <3> QED
      BY <3>1, <3>2 DEF Remains
  <2> QED
    BY <2>1, <2>2
<1>6. m.uni \in s.linked
  <2>1. PICK u \in ToSet(s.plan.universities) : u.uni = m.uni
    BY <1>1, PlannedPeople
  <2>2. u \notin ToSet(s.todo)
    BY <1>1 DEF ToSet
  <2> QED
    BY <1>1, <2>1, <2>2 DEF Opening, AwaitsOpening, IsOpen, Linking
<1>7. read = [k \in {Key(x) : x \in coded} |-> CHOOSE x \in coded : Key(x) = k]
  BY DEF LeadsRead
<1>8. a \in coded /\ Key(a) = <<m.uni, m.code>>
  BY <1>4, <1>5, <1>6
<1>9. ASSUME NEW x \in coded, Key(x) = Key(a) PROVE x = a
  BY <1>8, <1>9 DEF CodesUnique
<1> HIDE DEF coded, Key, read, a
<1>10. <<m.uni, m.code>> \in DOMAIN read /\ read[<<m.uni, m.code>>] = a
  <2>1. LET x == CHOOSE x \in coded : Key(x) = <<m.uni, m.code>>
        IN x \in coded /\ Key(x) = <<m.uni, m.code>>
    BY <1>8
  <2> QED
    BY <1>7, <1>8, <1>9, <2>1
<1>11. /\ <<m.uni, m.code>> \in DOMAIN With(read, s.leads)
       /\ With(read, s.leads)[<<m.uni, m.code>>] = a
  <2>1. /\ DOMAIN With(read, s.leads) = DOMAIN read \cup DOMAIN s.leads
        /\ \A k \in DOMAIN read : With(read, s.leads)[k] = read[k]
    BY WithIsBoth
  <2> QED
    BY <1>10, <2>1
<1> QED
  BY <1>11 DEF read, a

LEMMA PhasesImport ==
  ASSUME Accounts, Planning, CInv, NEW r \in Runs, ReadsManagers(r) \/ RereadsManagers(r)
  PROVE  Importing(run'[r], universities', people')
<1> DEFINE s == run[r]
           x == run'[r]
<1>1. /\ UNCHANGED <<universities, people>>
      /\ \/ s.pc = "universities" /\ s.todo = <<>> /\ x.pc = "MANAGER"
         \/ s.pc = "MANAGER" /\ Written(s) /\ x.pc = "INSTRUCTOR"
      /\ x.snap = s.snap /\ x.plan = s.plan /\ x.todo = s.todo
      /\ x.linked = s.linked /\ x.leads = With(LeadsRead(s.linked), s.leads)
      /\ ToSet(x.creates) = PlansOf(Here(x), "create")
      /\ ToSet(x.updates) = PlansOf(Here(x), "update")
      /\ x.tally.failed = s.tally.failed
  BY PhaseStarts
<1>2. /\ Plans(s) /\ CodesUnique(people) /\ Opening(s, universities)
      /\ Remains(s, people) /\ Tended(s, people)
  BY <1>1 DEF Planning, CInv, Importing
<1> HIDE DEF x
<1>3. Opening(x, universities)
  <2>1. Linking(s)
    BY <1>1 DEF Linking
  <2>2. \A u : /\ AwaitsOpening(u, s, universities) => AwaitsOpening(u, x, universities)
               /\ IsOpen(u, s, universities) => IsOpen(u, x, universities)
    BY <1>1, <2>1 DEF AwaitsOpening, IsOpen
  <2>3. s.todo = <<>> /\ x.pc # "universities"
    BY <1>1, <1>2 DEF Opening
  <2> QED
    BY <1>1, <1>2, <2>2, <2>3 DEF Opening
<1>4. Remains(x, people) /\ Reading(x, universities, people)
  BY <1>1, <1>2 DEF Remains, Reading
<1>5. Untroubled(x) => Untroubled(s)
  BY <1>1 DEF Untroubled
<1>6. Tended(x, people)
  <2> SUFFICES ASSUME Untroubled(x), NEW p \in Begun(x), p.action # "unchanged"
               PROVE  p \in ToSet(x.creates) \cup ToSet(x.updates) \/ Done(p, x, people)
    BY DEF Tended
  <2>1. CASE p \in Here(x)
    <3>1. p \in People(s.plan) /\ PlansFit(s.plan, s.snap)
      BY <1>1, <1>2, <2>1 DEF Here, People, Plans
    <3>2. \E kind : Sound(p, kind, s.snap)
      BY <3>1, PlannedPeople DEF People
    <3>3. p.action \in {"create", "update"}
      BY <3>2 DEF Sound, Actions
    <3> QED
      BY <1>1, <2>1, <3>3 DEF PlansOf
  <2>2. CASE p \notin Here(x)
    <3>1. s.pc = "MANAGER" /\ Written(s) /\ p \in Begun(s)
      BY <1>1, <2>2 DEF Begun, Here, People
    <3>2. ToSet(<<>>) = {}
      BY DEF ToSet
    <3>3. Done(p, s, people)
      BY <1>2, <1>5, <3>1, <3>2 DEF Tended, Written
    <3> QED
      BY <1>1, <3>3, DoneStays
  <2> QED
    BY <2>1, <2>2
<1>7. Leading(x)
  <2> SUFFICES ASSUME x.pc = "INSTRUCTOR", Untroubled(x), NEW m \in ToSet(x.plan.managers),
                      Settled(m, x.snap), m.code # None
               PROVE  /\ <<m.uni, m.code>> \in DOMAIN x.leads
                      /\ x.leads[<<m.uni, m.code>>] = AccountOf(m)
    BY DEF Leading
  <2>1. s.pc = "MANAGER" /\ Written(s)
    BY <1>1
  <2> QED
    BY <1>1, <1>2, <1>5, <2>1, LeadsFollow
<1> QED
  BY <1>1, <1>3, <1>4, <1>6, <1>7 DEF Importing, x

\* People being written: whatever was in hand still is, or is done.
LEMMA WritingImports ==
  ASSUME NEW s, NEW us, NEW ps, Importing(s, us, ps),
         s.pc \in {"MANAGER", "INSTRUCTOR"}, ~Written(s),
         NEW x, Onward(x, s), x.tally.failed = 0 => s.tally.failed = 0,
         NEW qs, Remains(s, qs),
         Untroubled(x) =>
           /\ \A p \in ToSet(s.creates) \cup ToSet(s.retry) \cup ToSet(s.updates) :
                \/ p \in ToSet(x.creates) \cup ToSet(x.retry) \cup ToSet(x.updates)
                \/ Done(p, s, qs)
           /\ \A p \in Begun(s) : Done(p, s, ps) => Done(p, s, qs)
  PROVE  Importing(x, us, qs)
<1>1. /\ x.pc = s.pc /\ x.snap = s.snap /\ x.plan = s.plan /\ x.todo = s.todo
      /\ x.leads = s.leads /\ x.linked = s.linked
      /\ Opening(s, us) /\ Tended(s, ps) /\ Leading(s)
  BY DEF Onward, Importing
<1>2. Untroubled(x) => Untroubled(s)
  BY <1>1 DEF Untroubled
<1>3. Opening(x, us)
  <2>1. Linking(s)
    BY DEF Linking
  <2>2. \A u : /\ AwaitsOpening(u, s, us) => AwaitsOpening(u, x, us)
               /\ IsOpen(u, s, us) => IsOpen(u, x, us)
    BY <1>1, <2>1 DEF AwaitsOpening, IsOpen
  <2> QED
    BY <1>1, <2>2 DEF Opening
<1>4. Remains(x, qs) /\ Reading(x, us, qs)
  BY <1>1 DEF Remains, Reading
<1>5. Tended(x, qs)
  <2> SUFFICES ASSUME Untroubled(x), NEW p \in Begun(x), p.action # "unchanged"
               PROVE  \/ p \in ToSet(x.creates) \cup ToSet(x.retry) \cup ToSet(x.updates)
                      \/ Done(p, x, qs)
    BY DEF Tended
  <2>1. p \in Begun(s)
    BY <1>1 DEF Begun
  <2>2. \/ p \in ToSet(x.creates) \cup ToSet(x.retry) \cup ToSet(x.updates)
        \/ Done(p, s, qs)
    BY <1>1, <1>2, <2>1 DEF Tended
  <2>3. Done(p, s, qs) => Done(p, x, qs)
    BY <1>1, DoneStays
  <2> QED
    BY <2>2, <2>3
<1>6. Leading(x)
  BY <1>1, <1>2 DEF Leading
<1> QED
  BY <1>3, <1>4, <1>5, <1>6 DEF Importing

\* What a chunk writes, and that no code is written twice.
LEMMA CreatesRows ==
  ASSUME NEW list, IsList(list), NEW leads, CanCreate(list), Creates(list, leads)
  PROVE  /\ \A x \in DOMAIN people : x \in DOMAIN people' /\ people'[x] = people[x]
         /\ \A p \in ToSet(list) :
              /\ p.email \notin DOMAIN people /\ p.email \in DOMAIN people'
              /\ people'[p.email] = Created(p, leads) /\ CodeIsFree(p, DOMAIN people)
         /\ \A x \in DOMAIN people' \ DOMAIN people : \E p \in ToSet(list) : x = p.email
         /\ \A p, q \in ToSet(list) : p # q =>
              \/ p.code # q.code
              \/ p.code = None
              \/ p.uni # q.uni
<1>1. DOMAIN list = 1..Len(list) /\ ToSet(list) = {list[i] : i \in 1..Len(list)}
  BY ListMembers
<1>2. /\ \A p \in ToSet(list) : p.email \notin DOMAIN people /\ CodeIsFree(p, DOMAIN people)
      /\ \A p, q \in ToSet(list) : p # q =>
           /\ p.email # q.email
           /\ \/ p.code # q.code
              \/ p.code = None
              \/ p.uni # q.uni
  BY <1>1 DEF CanCreate
<1>3. \A p \in ToSet(list) : PlanFor(list, p.email) = p
  BY <1>2 DEF PlanFor
<1> DEFINE rows == Rows(list, leads)
<1>4. /\ \A p \in ToSet(list) : p.email \in DOMAIN rows /\ rows[p.email] = Created(p, leads)
      /\ \A x \in DOMAIN rows : \E p \in ToSet(list) : x = p.email
  <2>1. rows = [x \in {list[i].email : i \in 1..Len(list)} |-> Created(PlanFor(list, x), leads)]
    BY <1>1 DEF Rows
  <2> HIDE DEF rows
  <2> QED
    BY <1>1, <1>3, <2>1
<1>5. people' = With(people, rows)
  BY DEF Creates
<1> HIDE DEF rows
<1>6. /\ DOMAIN With(people, rows) = DOMAIN people \cup DOMAIN rows
      /\ \A x \in DOMAIN people : With(people, rows)[x] = people[x]
      /\ \A x \in DOMAIN rows \ DOMAIN people : With(people, rows)[x] = rows[x]
  BY WithIsBoth
<1> QED
  BY <1>2, <1>4, <1>5, <1>6

LEMMA CreatesUnique ==
  ASSUME NEW list, IsList(list), NEW leads, CanCreate(list), Creates(list, leads),
         CodesUnique(people)
  PROVE  CodesUnique(people')
<1> SUFFICES ASSUME NEW x \in DOMAIN people', NEW y \in DOMAIN people', x # y,
                    people'[x].code # None, people'[x].code = people'[y].code,
                    people'[x].kind = people'[y].kind, people'[x].uni = people'[y].uni
             PROVE  FALSE
  BY DEF CodesUnique
<1>1. /\ \A z \in DOMAIN people : z \in DOMAIN people' /\ people'[z] = people[z]
      /\ \A p \in ToSet(list) :
           /\ p.email \notin DOMAIN people /\ p.email \in DOMAIN people'
           /\ people'[p.email] = Created(p, leads) /\ CodeIsFree(p, DOMAIN people)
      /\ \A z \in DOMAIN people' \ DOMAIN people : \E p \in ToSet(list) : z = p.email
      /\ \A p, q \in ToSet(list) : p # q =>
           \/ p.code # q.code
           \/ p.code = None
           \/ p.uni # q.uni
  BY CreatesRows
<1>2. \A p : /\ Created(p, leads).kind = p.kind /\ Created(p, leads).uni = p.uni
             /\ Created(p, leads).code = p.code
  BY DEF Created
<1>3. ASSUME NEW u \in DOMAIN people, NEW p \in ToSet(list),
             people'[u].kind = people'[p.email].kind, people'[u].uni = people'[p.email].uni,
             people'[u].code = people'[p.email].code, people'[u].code # None
      PROVE  FALSE
  BY <1>1, <1>2, <1>3 DEF CodeIsFree
<1>4. CASE x \in DOMAIN people /\ y \in DOMAIN people
  BY <1>1, <1>4 DEF CodesUnique
<1>5. CASE x \in DOMAIN people /\ y \notin DOMAIN people
  BY <1>1, <1>3, <1>5
<1>6. CASE x \notin DOMAIN people /\ y \in DOMAIN people
  BY <1>1, <1>3, <1>6
<1>7. CASE x \notin DOMAIN people /\ y \notin DOMAIN people
  BY <1>1, <1>2, <1>7
<1> QED
  BY <1>4, <1>5, <1>6, <1>7

\* Whom the manager map gives as the manager a plan asks for.
LEMMA LeadIsAsked ==
  ASSUME NEW s, Plans(s), Untroubled(s), Leading(s), Remains(s, people),
         s.pc \in {"MANAGER", "INSTRUCTOR"}, NEW p \in Here(s), NEW m \in LeadAskedFor(s.plan, p), Settled(m, s.snap)
  PROVE  LeadOf(p, s.leads) = AccountOf(m) /\ AccountOf(m) # None
<1>1. /\ m \in ToSet(s.plan.managers) /\ m.uni = p.uni /\ m.code = p.lead /\ p.lead # None
  BY DEF LeadAskedFor
<1>2. PlansFit(s.plan, s.snap) /\ None \notin DOMAIN s.snap.profiles
  BY DEF Plans, Remains, Snapshot
<1>3. s.pc = "INSTRUCTOR"
  <2>1. CASE s.pc = "MANAGER"
    <3>1. Sound(p, "MANAGER", s.snap)
      BY <1>2, <2>1, PlannedPeople DEF Here
    <3> QED
      BY <1>1, <3>1 DEF Sound
  <2> QED
    BY <2>1
<1>4. /\ <<m.uni, m.code>> \in DOMAIN s.leads
      /\ s.leads[<<m.uni, m.code>>] = AccountOf(m)
  BY <1>1, <1>3 DEF Leading
<1>5. AccountOf(m) # None
  BY <1>1, <1>2, IsAccount DEF People
<1> QED
  BY <1>1, <1>4, <1>5 DEF LeadOf

\* Whoever a chunk creates is as their plan says.
LEMMA CreatedIsDone ==
  ASSUME NEW s, Plans(s), Untroubled(s), Leading(s), Remains(s, people),
         s.pc \in {"MANAGER", "INSTRUCTOR"}, NEW list, IsList(list), CanCreate(list),
         Creates(list, s.leads), ToSet(list) \subseteq PlansOf(Here(s), "create"),
         NEW p \in ToSet(list)
  PROVE  Done(p, s, people')
<1> DEFINE new == Created(p, s.leads)
<1>1. p.email \in DOMAIN people' /\ people'[p.email] = new /\ p.email \notin DOMAIN people
  BY CreatesRows
<1>2. /\ p.action = "create" /\ p \in Here(s) /\ p \in People(s.plan)
      /\ PlansFit(s.plan, s.snap) /\ None \notin DOMAIN s.snap.profiles
  BY DEF PlansOf, Here, People, Plans, Remains, Snapshot
<1>3. AccountOf(p) = p.email
  BY <1>2, IsAccount
<1>4. /\ new.kind = p.kind /\ new.uni = p.uni /\ new.name = p.name /\ new.code = p.code
      /\ new.status = Or(p.status, "active") /\ new.lead = LeadOf(p, s.leads)
  BY DEF Created
<1>5. Or(p.status, new.status) = new.status
  BY <1>4 DEF Or
<1>6. ASSUME NEW m \in LeadAskedFor(s.plan, p), Settled(m, s.snap)
      PROVE  new.lead = AccountOf(m)
  BY <1>2, <1>4, <1>6, LeadIsAsked
<1> HIDE DEF new
<1>7. Is(p, s.plan, s.snap, people')
  BY <1>1, <1>3, <1>4, <1>5, <1>6 DEF Is
<1> QED
  BY <1>1, <1>7 DEF Done, Remains

\* ... and so is whoever is updated, who is somebody the file found.
LEMMA UpdatedRow ==
  ASSUME IInv, NEW s, Plans(s), Remains(s, people),
         NEW p \in People(s.plan), p.action = "update",
         people' = [people EXCEPT ![p.id] = Updated(p, s.leads)]
  PROVE  LET old == people[p.id]
             new == people'[p.id]
         IN /\ p.id \in DOMAIN s.snap.profiles /\ p.id \in DOMAIN people
            /\ AccountOf(p) = p.id /\ DOMAIN p = PlanColumns
            /\ old.kind = p.kind /\ new.kind = old.kind /\ new.uni = old.uni
            /\ new.name = Or(p.name, old.name) /\ new.code = Or(p.code, old.code)
            /\ new.status = Or(p.status, old.status)
            /\ new.lead = Or(LeadOf(p, s.leads), old.lead)
            /\ DOMAIN people' = DOMAIN people
            /\ \A x \in DOMAIN people \ {p.id} : people'[x] = people[x]
            /\ Remains(s, people')
<1> DEFINE old == people[p.id]
           new == Updated(p, s.leads)
<1>1. PlansFit(s.plan, s.snap) /\ None \notin DOMAIN s.snap.profiles
  BY DEF Plans, Remains, Snapshot
<1>2. AccountOf(p) = p.id /\ p.id \in DOMAIN s.snap.profiles /\ p.id \in DOMAIN people
  BY <1>1, IsAccount DEF Remains
<1>3. Columns \subseteq DOMAIN old
  BY <1>2 DEF IInv, Stored
<1>4. /\ DOMAIN people' = DOMAIN people /\ people'[p.id] = new
      /\ \A x \in DOMAIN people \ {p.id} : people'[x] = people[x]
  BY <1>2
<1>5. /\ new.kind = old.kind /\ new.uni = old.uni /\ new.name = Or(p.name, old.name)
      /\ new.code = Or(p.code, old.code) /\ new.status = Or(p.status, old.status)
      /\ new.lead = Or(LeadOf(p, s.leads), old.lead)
  BY <1>3 DEF Updated, Columns
<1>6. old.kind = p.kind /\ DOMAIN p = PlanColumns
  <2>1. \E kind : Sound(p, kind, s.snap)
    BY <1>1, PlannedPeople DEF People
  <2> QED
    BY <1>2, <2>1 DEF Sound, Remains
<1> HIDE DEF new, old
<1>7. Remains(s, people')
  BY <1>2, <1>4, <1>5 DEF Remains, old
<1> QED
  BY <1>2, <1>4, <1>5, <1>6, <1>7 DEF old

LEMMA UpdatedIsDone ==
  ASSUME IInv, NEW s, Plans(s), Untroubled(s), Leading(s), Remains(s, people),
         s.pc \in {"MANAGER", "INSTRUCTOR"}, NEW p \in Here(s), p.action = "update",
         people' = [people EXCEPT ![p.id] = Updated(p, s.leads)]
  PROVE  /\ Done(p, s, people')
         /\ \A q \in People(s.plan) : Done(q, s, people) => Done(q, s, people')
<1> DEFINE old == people[p.id]
           new == people'[p.id]
<1>1. /\ p \in People(s.plan)
      /\ PlansFit(s.plan, s.snap) /\ None \notin DOMAIN s.snap.profiles
  BY DEF Here, People, Plans, Remains, Snapshot
<1>2. /\ p.id \in DOMAIN s.snap.profiles /\ p.id \in DOMAIN people /\ AccountOf(p) = p.id
      /\ old.kind = p.kind /\ new.kind = old.kind
      /\ new.name = Or(p.name, old.name) /\ new.code = Or(p.code, old.code)
      /\ new.status = Or(p.status, old.status)
      /\ new.lead = Or(LeadOf(p, s.leads), old.lead)
      /\ DOMAIN people' = DOMAIN people
      /\ \A x \in DOMAIN people \ {p.id} : people'[x] = people[x]
  BY <1>1, UpdatedRow
<1> HIDE DEF new, old
<1>3. Or(p.status, new.status) = new.status
  BY <1>2 DEF Or
<1>6. ASSUME NEW m \in LeadAskedFor(s.plan, p), Settled(m, s.snap)
      PROVE  new.lead = AccountOf(m)
  <2>1. LeadOf(p, s.leads) = AccountOf(m) /\ AccountOf(m) # None
    BY <1>6, LeadIsAsked
  <2> QED
    BY <1>2, <2>1 DEF Or
<1>4. Done(p, s, people')
  BY <1>2, <1>3, <1>6 DEF Done, Is, Or, new
<1>5. ASSUME NEW q \in People(s.plan), Done(q, s, people) PROVE Done(q, s, people')
  <2>1. CASE AccountOf(q) # p.id
    BY <1>2, <1>5, <2>1, DoneStays DEF Done, Is
  <2>2. CASE AccountOf(q) = p.id
    <3>1. q.action # "create"
      <4>1. ASSUME q.action = "create" PROVE FALSE
        <5>1. AccountOf(q) = q.email /\ q.email \notin DOMAIN s.snap.profiles
          BY <1>1, <1>5, <4>1, IsAccount DEF Done
        <5> QED
          BY <1>2, <2>2, <5>1
      <4> QED
        BY <4>1
    <3>2. q = p
      <4>1. AccountOf(q) = q.id
        BY <1>1, <3>1, IsAccount
      <4> QED
        <5>1. /\ PlansFit(s.plan, s.snap) /\ InPlace(s.plan, s.snap)
              /\ None \notin DOMAIN s.snap.profiles /\ p \in People(s.plan)
          BY <1>1 DEF Untroubled
        <5>2. p.id = q.id /\ p.action # "create"
          BY <2>2, <4>1
        <5> QED
          BY <3>1, <5>1, <5>2, OnePlanEach
    <3> QED
      BY <1>4, <3>2
  <2> QED
    BY <2>1, <2>2
<1> QED
  BY <1>4, <1>5

LEMMA UpdatedUnique ==
  ASSUME IInv, CodesUnique(people), NEW p, NEW leads, DOMAIN p = PlanColumns,
         p.id \in DOMAIN people, people[p.id].kind = p.kind, CanUpdate(p, leads),
         people' = [people EXCEPT ![p.id] = Updated(p, leads)]
  PROVE  CodesUnique(people')
<1> DEFINE old == people[p.id]
           new == Updated(p, leads)
<1>1. Columns \subseteq DOMAIN old
  BY DEF IInv, Stored
<1>2. /\ DOMAIN people' = DOMAIN people /\ people'[p.id] = new
      /\ \A x \in DOMAIN people \ {p.id} : people'[x] = people[x]
  OBVIOUS
<1>3. new.kind = old.kind /\ new.uni = old.uni /\ new.code = Or(p.code, old.code)
  BY <1>1 DEF Updated, Columns
<1>4. \A x \in DOMAIN people \ {p.id} :
        p.code # None /\ people[x].kind = old.kind /\ people[x].uni = old.uni
          => people[x].code # p.code
  <2> DEFINE c == [p EXCEPT !.uni = old.uni]
  <2>1. c.kind = p.kind /\ c.uni = old.uni /\ c.code = p.code
    BY DEF PlanColumns
  <2>2. CodeIsFree(c, DOMAIN people \ {p.id})
    BY DEF CanUpdate
  <2> HIDE DEF c
  <2> QED
    BY <2>1, <2>2 DEF CodeIsFree
<1> HIDE DEF old, new
<1>5. ASSUME NEW x \in DOMAIN people, x # p.id, new.code # None,
             people[x].code = new.code, people[x].kind = new.kind, people[x].uni = new.uni
      PROVE  FALSE
  BY <1>3, <1>4, <1>5 DEF CodesUnique, Or, old
<1> QED
  BY <1>2, <1>5 DEF CodesUnique

LEMMA ChunksImport ==
  ASSUME IInv, Accounts, Planning, CInv, NEW r \in Runs,
         WritesChunk(r) \/ RetriesOne(r) \/ UpdatesOne(r)
  PROVE  Importing(run'[r], universities', people') /\ CodesUnique(people')
<1> DEFINE s == run[r]
           x == run'[r]
           InHandNow(t) == ToSet(t.creates) \cup ToSet(t.retry) \cup ToSet(t.updates)
<1>0. ToSet(<<>>) = {} /\ \A y : IsList(<<y>>) /\ ToSet(<<y>>) = {y}
  <2>1. \A y : <<y>> \in Seq({y}) /\ ToSet(<<y>>) = {y}
    BY DEF ToSet
  <2>2. ToSet(<<>>) = {}
    BY DEF ToSet
  <2>3. \A y : IsList(<<y>>)
    BY <2>1 DEF IsList
  <2> QED
    BY <2>1, <2>2, <2>3
<1>1. /\ Plans(s) /\ Importing(s, universities, people) /\ CodesUnique(people)
  BY DEF Planning, CInv
<1>2. ASSUME s.pc \in {"MANAGER", "INSTRUCTOR"}
      PROVE  /\ Opening(s, universities) /\ Remains(s, people) /\ Leading(s)
             /\ PlansFit(s.plan, s.snap) /\ InHand(s) /\ s.todo = <<>>
  BY <1>1, <1>2 DEF Importing, Plans, Opening
<1>3. ASSUME NEW list, IsList(list), CanCreate(list), Creates(list, s.leads),
             s.pc \in {"MANAGER", "INSTRUCTOR"},
             ToSet(list) \subseteq ToSet(s.creates) \cup ToSet(s.retry)
      PROVE  /\ CodesUnique(people') /\ Remains(s, people')
             /\ Untroubled(s) => \A p \in ToSet(list) : Done(p, s, people')
             /\ \A p : Done(p, s, people) => Done(p, s, people')
  <2>1. \A y \in DOMAIN people : y \in DOMAIN people' /\ people'[y] = people[y]
    BY <1>3, CreatesRows
  <2>2. Remains(s, people')
    BY <1>2, <1>3, <2>1 DEF Remains
  <2>3. CodesUnique(people')
    BY <1>1, <1>3, CreatesUnique
  <2>4. \A p : Done(p, s, people) => Done(p, s, people')
    BY <2>1, DoneStays
  <2>5. ToSet(list) \subseteq PlansOf(Here(s), "create")
    BY <1>2, <1>3 DEF InHand
  <2>6. Untroubled(s) => \A p \in ToSet(list) : Done(p, s, people')
    BY <1>1, <1>2, <1>3, <2>5, CreatedIsDone
  <2> QED
    BY <2>2, <2>3, <2>4, <2>6
<1>4. ASSUME UNCHANGED people
      PROVE  /\ CodesUnique(people')
             /\ s.pc \in {"MANAGER", "INSTRUCTOR"} => Remains(s, people')
             /\ \A p : Done(p, s, people) => Done(p, s, people')
  BY <1>1, <1>2, <1>4
<1>5. CASE WritesChunk(r)
  <2>1. /\ Onward(x, s) /\ x.updates = s.updates /\ UNCHANGED universities
        /\ s.pc \in {"MANAGER", "INSTRUCTOR"} /\ s.retry = <<>>
        /\ x.tally.failed = 0 => s.tally.failed = 0
        /\ \E chunk, usable :
             /\ IsList(usable) /\ ToSet(s.creates) = ToSet(chunk) \cup ToSet(x.creates)
             /\ ToSet(usable) = {p \in ToSet(chunk) : p.uni \in s.linked}
             /\ \/ CanCreate(usable) /\ Creates(usable, s.leads) /\ x.retry = <<>>
                \/ x.retry = usable /\ UNCHANGED people
    BY <1>5, ChunkIsWritten
  <2>2. PICK chunk, usable :
             /\ IsList(usable) /\ ToSet(s.creates) = ToSet(chunk) \cup ToSet(x.creates)
             /\ ToSet(usable) = {p \in ToSet(chunk) : p.uni \in s.linked}
             /\ \/ CanCreate(usable) /\ Creates(usable, s.leads) /\ x.retry = <<>>
                \/ x.retry = usable /\ UNCHANGED people
    BY <2>1
  <2>3. ~Written(s)
    BY <1>5 DEF WritesChunk, Written
  <2> HIDE DEF x
  <2>4. Untroubled(x) => Untroubled(s)
    BY <2>1 DEF Untroubled, Onward
  <2>5. x.tally.failed = 0 => \A p \in ToSet(chunk) : p \in ToSet(usable)
    <3> SUFFICES ASSUME x.tally.failed = 0, NEW p \in ToSet(chunk) PROVE p.uni \in s.linked
      BY <2>2
    <3>1. p \in People(s.plan)
      BY <1>2, <2>1, <2>2 DEF InHand, PlansOf, Here, People
    <3>2. PICK u \in ToSet(s.plan.universities) : u.uni = p.uni
      BY <1>2, <2>1, <3>1, PlannedPeople
    <3>3. u \notin ToSet(s.todo) /\ Linking(s)
      BY <1>0, <1>2, <2>1, <2>3 DEF Linking
    <3> QED
      BY <1>2, <2>1, <3>2, <3>3 DEF Opening, AwaitsOpening, IsOpen
  <2>6. /\ CodesUnique(people') /\ Remains(s, people')
        /\ \A p : Done(p, s, people) => Done(p, s, people')
        /\ Untroubled(s) => \A p \in ToSet(usable) : p \in ToSet(x.retry) \/ Done(p, s, people')
    BY <1>3, <1>4, <2>1, <2>2
  <2>7. Untroubled(x) =>
          \A p \in InHandNow(s) : p \in InHandNow(x) \/ Done(p, s, people')
    BY <1>0, <2>1, <2>2, <2>4, <2>5, <2>6 DEF Untroubled
  <2>8. Importing(x, universities, people')
    BY <1>1, <2>1, <2>3, <2>6, <2>7, WritingImports
  <2> QED
    BY <2>1, <2>6, <2>8 DEF x
<1>6. CASE RetriesOne(r)
  <2> DEFINE one == <<Head(s.retry)>>
  <2>1. /\ Onward(x, s) /\ UNCHANGED universities
        /\ s.pc \in {"MANAGER", "INSTRUCTOR"} /\ s.retry # <<>> /\ IsList(s.retry)
        /\ x.retry = Tail(s.retry) /\ x.creates = s.creates /\ x.updates = s.updates
        /\ \/ /\ CanCreate(one) /\ Creates(one, s.leads)
              /\ x.tally.failed = s.tally.failed
           \/ UNCHANGED people /\ x.tally.failed = s.tally.failed + 1
        /\ s.tally.failed \in Nat
    BY <1>6, OneIsRetried
  <2>2. /\ Head(s.retry) \in ToSet(s.retry)
        /\ ToSet(s.retry) \subseteq {Head(s.retry)} \cup ToSet(Tail(s.retry))
    BY <2>1, ListMembers
  <2>3. IsList(one) /\ ToSet(one) = {Head(s.retry)}
    BY <1>0
  <2> HIDE DEF x, one
  <2>4. ~Written(s) /\ (x.tally.failed = 0 => s.tally.failed = 0)
    BY <2>1 DEF Written
  <2>5. /\ CodesUnique(people') /\ Remains(s, people')
        /\ \A p : Done(p, s, people) => Done(p, s, people')
        /\ Untroubled(s) /\ x.tally.failed = 0 => Done(Head(s.retry), s, people')
    <3>1. CASE CanCreate(one) /\ Creates(one, s.leads)
      BY <1>3, <2>1, <2>2, <2>3, <3>1
    <3>2. CASE UNCHANGED people /\ x.tally.failed = s.tally.failed + 1
      BY <1>4, <2>1, <3>2
    <3> QED
      BY <2>1, <3>1, <3>2
  <2>6. Untroubled(x) =>
          \A p \in InHandNow(s) : p \in InHandNow(x) \/ Done(p, s, people')
    BY <2>1, <2>2, <2>4, <2>5 DEF Untroubled, Onward
  <2>7. Importing(x, universities, people')
    BY <1>1, <2>1, <2>4, <2>5, <2>6, WritingImports
  <2> QED
    BY <2>1, <2>5, <2>7 DEF x
<1>7. CASE UpdatesOne(r)
  <2> DEFINE p == Head(s.updates)
  <2>1. /\ Onward(x, s) /\ UNCHANGED universities
        /\ s.pc \in {"MANAGER", "INSTRUCTOR"} /\ s.updates # <<>> /\ IsList(s.updates)
        /\ x.updates = Tail(s.updates) /\ x.creates = s.creates /\ x.retry = s.retry
        /\ \/ /\ CanUpdate(p, s.leads)
              /\ people' = [people EXCEPT ![p.id] = Updated(p, s.leads)]
              /\ x.tally.failed = s.tally.failed
           \/ UNCHANGED people /\ x.tally.failed = s.tally.failed + 1
        /\ s.tally.failed \in Nat
    BY <1>7, OneIsUpdated
  <2>2. p \in ToSet(s.updates) /\ ToSet(s.updates) \subseteq {p} \cup ToSet(Tail(s.updates))
    BY <2>1, ListMembers
  <2> HIDE DEF x, p
  <2>3. ~Written(s) /\ (x.tally.failed = 0 => s.tally.failed = 0)
    BY <2>1 DEF Written
  <2>4. p \in Here(s) /\ p \in People(s.plan) /\ p.action = "update"
    BY <1>2, <2>1, <2>2 DEF InHand, PlansOf, Here, People
  <2>5. /\ CodesUnique(people') /\ Remains(s, people')
        /\ Untroubled(s) =>
             \A q \in People(s.plan) : Done(q, s, people) => Done(q, s, people')
        /\ Untroubled(s) /\ x.tally.failed = 0 => Done(p, s, people')
    <3>1. CASE CanUpdate(p, s.leads) /\ people' = [people EXCEPT ![p.id] = Updated(p, s.leads)]
      <4>1. /\ p.id \in DOMAIN people /\ DOMAIN p = PlanColumns
            /\ people[p.id].kind = p.kind /\ Remains(s, people')
        BY <1>1, <1>2, <2>1, <2>4, <3>1, UpdatedRow
      <4>2. CodesUnique(people')
        BY <1>1, <3>1, <4>1, UpdatedUnique
      <4>3. ASSUME Untroubled(s)
            PROVE  /\ Done(p, s, people')
                   /\ \A q \in People(s.plan) : Done(q, s, people) => Done(q, s, people')
        BY <1>1, <1>2, <2>1, <2>4, <3>1, <4>3, UpdatedIsDone DEF Untroubled
      <4> QED
        BY <4>1, <4>2, <4>3
    <3>2. CASE UNCHANGED people /\ x.tally.failed = s.tally.failed + 1
      BY <1>4, <2>1, <3>2
    <3> QED
      BY <2>1, <3>1, <3>2
  <2>6. Untroubled(x) =>
          \A q \in InHandNow(s) : q \in InHandNow(x) \/ Done(q, s, people')
    BY <2>1, <2>2, <2>3, <2>5 DEF Untroubled, Onward
  <2>7. Begun(s) \subseteq People(s.plan)
    BY DEF Begun, People
  <2>8. Untroubled(x) =>
          \A q \in Begun(s) : Done(q, s, people) => Done(q, s, people')
    BY <2>1, <2>3, <2>5, <2>7 DEF Untroubled, Onward
  <2>9. Importing(x, universities, people')
    BY <1>1, <2>1, <2>3, <2>5, <2>6, <2>8, WritingImports
  <2> QED
    BY <2>1, <2>5, <2>9 DEF x
<1> QED
  BY <1>5, <1>6, <1>7

\* What administrators do, and promotions, write nothing an import has to say of.
LEMMA GrowthImports ==
  ASSUME CInv, KeepsNames(universities, universities'), Grows(people, people'),
         CodesUnique(people'), \A r \in Runs : Resting(run'[r], run[r])
  PROVE  CInv'
<1>1. \A r \in Runs : Importing(run'[r], universities', people')
  BY RestingImports DEF CInv
<1> QED
  BY <1>1 DEF CInv

LEMMA NextImports ==
  ASSUME IInv, Accounts, Planning, Addressed, CInv, NEW r, Runs = {r}, [Next]_vars
  PROVE  CInv'
<1>1. Stored(universities, people)
  BY DEF IInv
<1>2. /\ Grows(people, people) /\ KeepsNames(universities, universities)
      /\ \A t : Resting(t, t) /\ CodesUnique(people)
  BY DEF Grows, KeepsNames, Resting, CInv
<1>3. ASSUME NEW u, NEW h, universities' = [universities EXCEPT ![u].primary = h]
      PROVE  KeepsNames(universities, universities')
  BY <1>1, <1>3 DEF KeepsNames, Stored
<1>4. CASE OpensAccount
  <2>1. PICK a \in Elsewhere :
          /\ a.email \notin DOMAIN people /\ CodeIsFree(a, DOMAIN people)
          /\ Creates(<<a>>, <<>>)
          /\ \/ UNCHANGED universities
             \/ universities' = [universities EXCEPT ![a.uni].primary = a.email]
    BY <1>4 DEF OpensAccount
  <2>2. IsList(<<a>>) /\ CanCreate(<<a>>)
    <3>1. <<a>> \in Seq({a}) /\ DOMAIN <<a>> = {1} /\ <<a>>[1] = a
      OBVIOUS
    <3> QED
      BY <2>1, <3>1 DEF IsList, CanCreate
  <2>3. CodesUnique(people') /\ Grows(people, people')
    BY <1>2, <2>1, <2>2, CreatesUnique, CreatesRows DEF Grows
  <2>4. KeepsNames(universities, universities')
    BY <1>2, <1>3, <2>1
  <2>5. UNCHANGED run
    BY <1>4 DEF OpensAccount
  <2> QED
    BY <1>2, <2>3, <2>4, <2>5, GrowthImports
<1>5. CASE OpensUniversity
  <2>1. UNCHANGED <<people, run>> /\ \E u : universities' = Opened(u, "elsewhere")
    BY <1>5 DEF OpensUniversity
  <2>2. KeepsNames(universities, universities')
    BY <2>1 DEF KeepsNames, Opened, With
  <2> QED
    BY <1>2, <2>1, <2>2, GrowthImports
<1>6. ASSUME NEW q \in Runs, FindsHeir(q) \/ Promotes(q) \/ Ends(q) PROVE CInv'
  <2>1. /\ UNCHANGED people /\ Resting(run'[q], run[q])
        /\ \/ UNCHANGED universities
           \/ \E u, h : universities' = [universities EXCEPT ![u].primary = h]
    BY <1>6, OwnersAreFound DEF Resting
  <2>2. KeepsNames(universities, universities')
    BY <1>2, <1>3, <2>1
  <2>3. \A t \in Runs : Resting(run'[t], run[t])
    BY <2>1
  <2> QED
    BY <1>2, <2>1, <2>2, <2>3, GrowthImports
<1>7. ASSUME NEW q \in Runs, Step(q) PROVE CInv'
  <2>1. CASE FindsHeir(q) \/ Promotes(q) \/ Ends(q)
    BY <1>6, <2>1
  <2>2. CASE ~(FindsHeir(q) \/ Promotes(q) \/ Ends(q))
    <3>1. Importing(run'[q], universities', people') /\ CodesUnique(people')
      <4>1. CASE Starts(q) \/ ReadsUsers(q) \/ ReadsProfiles(q) \/ Dies(q)
        <5>1. UNCHANGED people
          BY <4>1 DEF Starts, ReadsUsers, ReadsProfiles, Dies
        <5> QED
          BY <1>2, <4>1, <5>1, ReadsImport
      <4>2. CASE WritesUniversity(q)
        <5>1. UNCHANGED people
          BY <4>2 DEF WritesUniversity
        <5> QED
          BY <1>2, <4>2, <5>1, UniversitiesImport
      <4>3. CASE ReadsManagers(q) \/ RereadsManagers(q)
        <5>1. UNCHANGED people
          BY <4>3 DEF ReadsManagers, RereadsManagers
        <5> QED
          BY <1>2, <4>3, <5>1, PhasesImport
      <4>4. CASE WritesChunk(q) \/ RetriesOne(q) \/ UpdatesOne(q)
        BY <4>4, ChunksImport
      <4> QED
        BY <1>7, <2>2, <4>1, <4>2, <4>3, <4>4 DEF Step
    <3> QED
      BY <3>1 DEF CInv
  <2> QED
    BY <2>1, <2>2
<1>8. CASE UNCHANGED vars
  <2>1. UNCHANGED <<universities, people, run>>
    BY <1>8 DEF vars
  <2> QED
    BY <1>2, <2>1, GrowthImports
<1> QED
  BY <1>4, <1>5, <1>7, <1>8 DEF Next

LEMMA InitImports == Init => CInv
<1> SUFFICES ASSUME Init PROVE CInv
  OBVIOUS
<1>1. CodesUnique(people)
  <2>1. PICK db \in Databases : people = db.people
    BY DEF Init
  <2> QED
    BY <2>1, DatabasesAssumption DEF CodesUnique
<1>2. Importing(Idle, universities, people)
  <2>1. Idle.pc = "idle"
    BY DEF Idle
  <2> QED
    BY <2>1 DEF Importing, Reading
<1> QED
  BY <1>1, <1>2 DEF Init, CInv

LEMMA ImportsClean ==
  ASSUME Planning, CInv PROVE CleanRunImports
<1> SUFFICES ASSUME NEW r \in Runs, Clean(r)
             PROVE  /\ \A u \in ToSet(run[r].plan.universities) :
                         /\ u.uni \in DOMAIN universities
                         /\ u.name # None => universities[u.uni].name = u.name
                    /\ InPlace(run[r].plan, run[r].snap) =>
                         \A p \in People(run[r].plan) :
                           Settled(p, run[r].snap) => Imported(run[r], p)
  BY DEF CleanRunImports
<1> DEFINE s == run[r]
<1>1. /\ s.pc = "ended" /\ s.tally.failed = 0 /\ Plans(s) /\ Written(s)
      /\ Opening(s, universities) /\ Remains(s, people) /\ Tended(s, people)
  BY DEF Clean, CInv, Importing, Planning, Plans, InHand
<1>2. ToSet(<<>>) = {}
  BY DEF ToSet
<1>3. \A u \in ToSet(s.plan.universities) :
        /\ u.uni \in DOMAIN universities
        /\ u.name # None => universities[u.uni].name = u.name
  BY <1>1, <1>2 DEF Opening, AwaitsOpening, IsOpen
<1>4. ASSUME InPlace(s.plan, s.snap), NEW p \in People(s.plan), Settled(p, s.snap)
      PROVE  Imported(s, p)
  <2>1. Is(p, s.plan, s.snap, people)
    <3>1. CASE p.action = "unchanged"
      BY <1>1, <1>4, <3>1, UnchangedIs
    <3>2. CASE p.action # "unchanged"
      BY <1>1, <1>2, <1>4, <3>2 DEF Tended, Untroubled, Begun, Written, Done
    <3> QED
      BY <3>1, <3>2
  <2> QED
    BY <2>1 DEF Is, Imported
<1> QED
  BY <1>3, <1>4

(* When executions take turns, a run that reports no failure has imported  *)
(* its file, whatever ran or died before it and whatever administrators    *)
(* did meanwhile.                                                          *)
THEOREM ImportCleanRunImports ==
  ASSUME NEW r, Runs = {r} PROVE Spec => []CleanRunImports
<1>1. Init => IInv /\ Accounts /\ Planning /\ Addressed /\ CInv
  BY InitIInv, InitAccounts, InitPlans, InitImports
<1>2. IInv /\ Accounts /\ Planning /\ Addressed /\ CInv /\ [Next]_vars
        => (IInv /\ Accounts /\ Planning /\ Addressed /\ CInv)'
  BY NextKeeps, NextAccounts, NextPlans, NextImports
<1>3. Planning /\ CInv => CleanRunImports
  BY ImportsClean
<1> QED
  BY <1>1, <1>2, <1>3, PTL DEF Spec

-----------------------------------------------------------------------------
(* A second import of a file.  Both times the rows about one account, and  *)
(* no others, share a name; so both times they make one plan, which says   *)
(* what the first of them to say anything said.                            *)

\* own is who each row is about, p what each row says.
RowsAbout(own, x, n) == {m \in DOMAIN own : m <= n /\ own[m] = x}

Said == {"name", "email", "code", "status", "lead"}

FirstSaid(v, p, f, R) ==
  \/ v = None /\ \A m \in R : p[m][f] = None
  \/ v # None /\ \E m \in R : p[m][f] = v /\ \A l \in R : l < m => p[l][f] = None

LEMMA FirstSaidOnce ==
  ASSUME NEW p, NEW f, NEW R, R \subseteq Nat, NEW v, NEW w,
         FirstSaid(v, p, f, R), FirstSaid(w, p, f, R)
  PROVE  v = w
<1>1. CASE v = None \/ w = None
  BY <1>1 DEF FirstSaid
<1>2. CASE v # None /\ w # None
  <2>1. PICK m \in R : p[m][f] = v /\ \A l \in R : l < m => p[l][f] = None
    BY <1>2 DEF FirstSaid
  <2>2. PICK n \in R : p[n][f] = w /\ \A l \in R : l < n => p[l][f] = None
    BY <1>2 DEF FirstSaid
  <2>3. ~(m < n) /\ ~(n < m)
    BY <1>2, <2>1, <2>2
  <2>4. m = n
    BY <2>3
  <2> QED
    BY <2>1, <2>2, <2>4
<1> QED
  BY <1>1, <1>2

LEMMA FirstSaidMore ==
  ASSUME NEW p, NEW f, NEW R, R \subseteq Nat, NEW v, FirstSaid(v, p, f, R),
         NEW n \in Nat, \A m \in R : m < n
  PROVE  FirstSaid(Or(v, p[n][f]), p, f, R \cup {n})
<1>1. CASE v # None
  <2>1. Or(v, p[n][f]) = v
    BY <1>1 DEF Or
  <2>2. PICK m \in R : p[m][f] = v /\ \A l \in R : l < m => p[l][f] = None
    BY <1>1 DEF FirstSaid
  <2>3. ~(n < m)
    BY <2>2
  <2> QED
    BY <1>1, <2>1, <2>2, <2>3 DEF FirstSaid
<1>2. CASE v = None
  <2>1. Or(v, p[n][f]) = p[n][f] /\ \A m \in R : p[m][f] = None
    BY <1>2 DEF Or, FirstSaid
  <2> QED
    BY <2>1 DEF FirstSaid
<1> QED
  BY <1>1, <1>2

LEMMA FirstSaidAlone ==
  ASSUME NEW p, NEW f, NEW n \in Nat PROVE FirstSaid(p[n][f], p, f, {n})
BY DEF FirstSaid

\* The plan that the rows of R make.
PlanOf(q, p, R) ==
  /\ DOMAIN q = PlanColumns /\ R # {} /\ q.action \in Actions
  /\ q.keys = UNION {NamesOf(p[m]) : m \in R}
  /\ \A f \in Said : FirstSaid(q[f], p, f, R)
  /\ \E m \in R : q.id = p[m].id /\ q.uni = p[m].uni /\ q.kind = p[m].kind
  /\ q.action = "unchanged" => \A m \in R : p[m].action # "update"
  /\ q.action # "unchanged" => \E m \in R : p[m].action = q.action

SharesNames(own, p) ==
  \A l, m \in DOMAIN own : own[l] = own[m] <=> NamesOf(p[l]) \cap NamesOf(p[m]) # {}

\* One plan for everybody whom the first n rows are about.
PlanEach(plans, own, p, n) ==
  /\ IsList(plans) /\ Apart(plans)
  /\ \A i \in 1..Len(plans) : \E x : PlanOf(plans[i], p, RowsAbout(own, x, n))
  /\ \A m \in DOMAIN own : m <= n =>
       \E i \in 1..Len(plans) : PlanOf(plans[i], p, RowsAbout(own, own[m], n))

LEMMA MorePlanEach ==
  ASSUME NEW own, DOMAIN own \subseteq Nat, NEW p, NEW n \in Nat, NEW plans,
         PlanEach(plans, own, p, n), n + 1 \notin DOMAIN own
  PROVE  PlanEach(plans, own, p, n + 1)
<1>1. \A m \in DOMAIN own : m <= n + 1 <=> m <= n
  <2> TAKE m \in DOMAIN own
  <2>1. m \in Nat /\ m # n + 1
    OBVIOUS
  <2> QED
    BY <2>1
<1>2. \A x : RowsAbout(own, x, n + 1) = RowsAbout(own, x, n)
  BY <1>1 DEF RowsAbout
<1> QED
  BY <1>1, <1>2 DEF PlanEach

LEMMA RowsAboutMore ==
  ASSUME NEW own, DOMAIN own \subseteq Nat, NEW n \in Nat, n + 1 \in DOMAIN own
  PROVE  /\ RowsAbout(own, own[n + 1], n + 1) = RowsAbout(own, own[n + 1], n) \cup {n + 1}
         /\ \A x : x # own[n + 1] => RowsAbout(own, x, n + 1) = RowsAbout(own, x, n)
         /\ \A x : /\ RowsAbout(own, x, n) \subseteq Nat
                   /\ \A m \in RowsAbout(own, x, n) : m < n + 1
<1>1. \A m \in DOMAIN own : (m <= n + 1 <=> (m <= n \/ m = n + 1)) /\ (m <= n => m < n + 1)
  OBVIOUS
<1> QED
  BY <1>1 DEF RowsAbout

\* The next row makes a plan of its own, ...
LEMMA AlonePlanOf ==
  ASSUME NEW p, NEW n \in Nat, DOMAIN p[n] = PlanColumns, p[n].action \in Actions
  PROVE  PlanOf(Alone(p[n]), p, {n})
<1> DEFINE e == Alone(p[n])
<1>1. /\ DOMAIN e = PlanColumns /\ e.keys = NamesOf(p[n])
      /\ \A f \in PlanColumns \ {"keys"} : e[f] = p[n][f]
  BY DEF Alone, PlanColumns
<1>2. /\ e.action = p[n].action /\ e.id = p[n].id /\ e.uni = p[n].uni /\ e.kind = p[n].kind
      /\ \A f \in Said : e[f] = p[n][f]
  BY <1>1 DEF PlanColumns, Said
<1>3. e.keys = UNION {NamesOf(p[m]) : m \in {n}}
  BY <1>1
<1> HIDE DEF e
<1>4. \A f \in Said : FirstSaid(e[f], p, f, {n})
  BY <1>2, FirstSaidAlone
<1> QED
  BY <1>1, <1>2, <1>3, <1>4 DEF PlanOf, e

\* ... or adds to the plan of the rows about the same account.
LEMMA AbsorbPlanOf ==
  ASSUME NEW p, NEW n \in Nat, DOMAIN p[n] = PlanColumns, p[n].action \in Actions,
         NEW plans, NEW i \in DOMAIN plans, NEW R, R \subseteq Nat, \A m \in R : m < n,
         PlanOf(plans[i], p, R), \A m \in R : p[m].uni = p[n].uni,
         \A k \in NamesOf(p[n]) : Holding(plans, k) \subseteq {i},
         Holding(plans, <<p[n].uni, "CODE", None>>) = {}
  PROVE  PlanOf(Absorb(plans, i, p[n]), p, R \cup {n})
<1> DEFINE q == plans[i]
           o == p[n]
           e == Absorb(plans, i, o)
<1>1. Holding(plans, <<o.uni, "CODE", o.code>>) \subseteq {i}
  <2>1. CASE o.code = None
    BY <2>1
  <2>2. CASE o.code # None
    BY <2>2, KeysAreThree DEF NamesOf
  <2> QED
    BY <2>1, <2>2
<1>2. /\ DOMAIN e = PlanColumns
      /\ e.kind = q.kind /\ e.uni = q.uni /\ e.id = q.id
      /\ e.name = Or(q.name, o.name) /\ e.email = Or(q.email, o.email)
      /\ e.code = Or(q.code, o.code)
      /\ e.lead = Or(q.lead, o.lead) /\ e.status = Or(q.status, o.status)
      /\ e.action = IF q.action = "unchanged" /\ o.action = "update"
                    THEN "update" ELSE q.action
      /\ e.keys = q.keys \cup {k \in NamesOf(o) : Holding(plans, k) = {}}
  BY <1>1 DEF Absorb, PlanColumns, PlanOf
<1>3. \A f \in Said : e[f] = Or(q[f], o[f])
  BY <1>2 DEF Said
<1>4. e.keys = q.keys \cup NamesOf(o)
  <2>1. \A k \in NamesOf(o) : Holding(plans, k) = {} \/ k \in q.keys
    BY DEF Holding
  <2> QED
    BY <1>2, <2>1
<1> HIDE DEF e
<1>5. \A f \in Said : FirstSaid(e[f], p, f, R \cup {n})
  <2> TAKE f \in Said
  <2>1. FirstSaid(q[f], p, f, R)
    BY DEF PlanOf
  <2>2. FirstSaid(Or(q[f], p[n][f]), p, f, R \cup {n})
    BY <2>1, FirstSaidMore
  <2> QED
    BY <1>3, <2>2
<1>6. e.keys = UNION {NamesOf(p[m]) : m \in R \cup {n}}
  BY <1>4 DEF PlanOf
<1>7. \E m \in R \cup {n} : e.id = p[m].id /\ e.uni = p[m].uni /\ e.kind = p[m].kind
  BY <1>2 DEF PlanOf
<1>8. /\ e.action \in Actions
      /\ e.action = "unchanged" => \A m \in R \cup {n} : p[m].action # "update"
      /\ e.action # "unchanged" => \E m \in R \cup {n} : p[m].action = e.action
  <2>1. CASE q.action = "unchanged" /\ o.action = "update"
    BY <1>2, <2>1 DEF Actions
  <2>2. CASE ~(q.action = "unchanged" /\ o.action = "update")
    BY <1>2, <2>2 DEF PlanOf
  <2> QED
    BY <2>1, <2>2
<1> QED
  BY <1>2, <1>5, <1>6, <1>7, <1>8 DEF PlanOf, e

LEMMA MergePlanEach ==
  ASSUME NEW own, DOMAIN own \subseteq Nat, NEW p, NEW n \in Nat, n + 1 \in DOMAIN own,
         \A m \in DOMAIN own : DOMAIN p[m] = PlanColumns /\ p[m].action \in Actions,
         SharesNames(own, p), NEW plans, PlanEach(plans, own, p, n)
  PROVE  PlanEach(Merge(plans, p[n + 1]), own, p, n + 1)
<1> DEFINE o == p[n + 1]
           x == own[n + 1]
           R == RowsAbout(own, x, n)
<1>0. /\ DOMAIN plans = 1..Len(plans) /\ Len(plans) \in Nat /\ IsList(plans) /\ Apart(plans)
      /\ n + 1 \in Nat /\ DOMAIN o = PlanColumns /\ o.action \in Actions
  BY DEF PlanEach, IsList
<1>1. /\ RowsAbout(own, x, n + 1) = R \cup {n + 1}
      /\ \A y : y # x => RowsAbout(own, y, n + 1) = RowsAbout(own, y, n)
      /\ \A y : /\ RowsAbout(own, y, n) \subseteq Nat
                /\ \A m \in RowsAbout(own, y, n) : m < n + 1
  BY RowsAboutMore
<1>2. \A y : \A m \in RowsAbout(own, y, n) : m \in DOMAIN own /\ own[m] = y /\ m <= n
  BY DEF RowsAbout
<1>3. ASSUME NEW i \in 1..Len(plans), NEW y, PlanOf(plans[i], p, RowsAbout(own, y, n)),
             NEW k \in plans[i].keys
      PROVE  /\ k[3] # None
             /\ \A m \in DOMAIN own : k \in NamesOf(p[m]) => own[m] = y
  <2>1. PICK l \in RowsAbout(own, y, n) : k \in NamesOf(p[l])
    BY <1>3 DEF PlanOf
  <2>2. l \in DOMAIN own /\ own[l] = y /\ k[3] # None
    BY <1>2, <2>1 DEF NamesOf
  <2> QED
    BY <2>1, <2>2 DEF SharesNames
<1>4. \A i \in 1..Len(plans) : \E y : PlanOf(plans[i], p, RowsAbout(own, y, n))
  BY DEF PlanEach
<1>5. \A m \in DOMAIN own : m <= n =>
        \E i \in 1..Len(plans) : PlanOf(plans[i], p, RowsAbout(own, own[m], n))
  BY DEF PlanEach
<1> HIDE DEF o, x
<1>6. ASSUME NEW i \in 1..Len(plans), NEW j \in 1..Len(plans), NEW y,
             PlanOf(plans[i], p, RowsAbout(own, y, n)),
             PlanOf(plans[j], p, RowsAbout(own, y, n))
      PROVE  i = j
  <2>1. plans[i].keys = plans[j].keys
    BY <1>6 DEF PlanOf
  <2>2. PICK m \in RowsAbout(own, y, n) : NamesOf(p[m]) # {}
    <3>1. PICK m \in RowsAbout(own, y, n) : TRUE
      BY <1>6 DEF PlanOf
    <3>2. NamesOf(p[m]) \cap NamesOf(p[m]) # {}
      BY <1>2, <3>1 DEF SharesNames
    <3> QED
      BY <3>1, <3>2
  <2>3. plans[i].keys # {}
    <3>1. plans[i].keys = UNION {NamesOf(p[l]) : l \in RowsAbout(own, y, n)}
      BY <1>6 DEF PlanOf
    <3> QED
      BY <2>2, <3>1
  <2> QED
    BY <1>0, <2>1, <2>3 DEF Apart
<1>7. IsList(Merge(plans, o)) /\ Apart(Merge(plans, o))
  BY <1>0, <1>4, MergeKeepsApart DEF PlanOf
<1>8. CASE /\ \A k \in NamesOf(o) : Holding(plans, k) = {}
           /\ Merge(plans, o) = Append(plans, [o EXCEPT !.keys = NamesOf(o)])
  <2> DEFINE g == Append(plans, Alone(o))
  <2>1. /\ Merge(plans, o) = g /\ Len(g) = Len(plans) + 1
        /\ \A i \in 1..Len(plans) : g[i] = plans[i]
        /\ g[Len(plans) + 1] = Alone(o)
    BY <1>0, <1>8, AppendIsList DEF Alone
  <2> HIDE DEF g
  <2>2. R = {}
    <3>1. ASSUME NEW m \in R PROVE FALSE
      <4>1. m \in DOMAIN own /\ own[m] = x /\ m <= n
        BY <1>2, <3>1
      <4>2. PICK i \in 1..Len(plans) : PlanOf(plans[i], p, R)
        BY <1>5, <4>1
      <4>3. PICK k \in NamesOf(p[m]) : k \in NamesOf(o)
        BY <4>1 DEF SharesNames, o, x
      <4>4. k \in plans[i].keys
        BY <3>1, <4>2, <4>3 DEF PlanOf
      <4> QED
        BY <1>0, <1>8, <4>3, <4>4 DEF Holding
    <3> QED
      BY <3>1
  <2>3. PlanOf(g[Len(plans) + 1], p, RowsAbout(own, x, n + 1))
    <3>1. PlanOf(Alone(o), p, {n + 1})
      BY <1>0, AlonePlanOf DEF o
    <3>2. RowsAbout(own, x, n + 1) = {n + 1}
      BY <1>1, <2>2
    <3> QED
      BY <2>1, <3>1, <3>2
  <2>4. ASSUME NEW i \in 1..Len(plans), NEW y, PlanOf(plans[i], p, RowsAbout(own, y, n))
        PROVE  PlanOf(g[i], p, RowsAbout(own, y, n + 1))
    <3>1. y # x
      BY <2>2, <2>4 DEF PlanOf
    <3> QED
      BY <1>1, <2>1, <2>4, <3>1
  <2>5. \A i \in 1..Len(plans) : i \in 1..Len(g)
    BY <1>0, <2>1
  <2>6. Len(plans) + 1 \in 1..Len(g)
    BY <1>0, <2>1
  <2>7. \A i \in 1..Len(g) : i \in 1..Len(plans) \/ i = Len(plans) + 1
    BY <1>0, <2>1
  <2>8. \A i \in 1..Len(g) : \E y : PlanOf(g[i], p, RowsAbout(own, y, n + 1))
    BY <1>4, <2>3, <2>4, <2>7
  <2>9. ASSUME NEW m \in DOMAIN own, m <= n + 1
        PROVE  \E i \in 1..Len(g) : PlanOf(g[i], p, RowsAbout(own, own[m], n + 1))
    <3>1. CASE m <= n
      BY <1>5, <2>4, <2>5, <3>1
    <3>2. CASE m = n + 1
      BY <2>3, <2>6, <3>2 DEF x
    <3> QED
      BY <2>9, <3>1, <3>2
  <2> QED
    BY <1>7, <2>1, <2>8, <2>9 DEF PlanEach, o
<1>9. CASE \E i \in 1..Len(plans) :
             /\ \E k \in ToSet(KeysOf(o)) : k \in plans[i].keys
             /\ Merge(plans, o) = Replaced(plans, i, Absorb(plans, i, o))
  <2>1. PICK i \in 1..Len(plans) :
          /\ \E k \in ToSet(KeysOf(o)) : k \in plans[i].keys
          /\ Merge(plans, o) = Replaced(plans, i, Absorb(plans, i, o))
    BY <1>9
  <2> DEFINE e == Absorb(plans, i, o)
             g == Replaced(plans, i, e)
  <2> HIDE DEF e
  <2>2. /\ Merge(plans, o) = g /\ Len(g) = Len(plans)
        /\ \A j \in 1..Len(plans) : g[j] = IF j = i THEN e ELSE plans[j]
    BY <1>0, <2>1, ReplacedIsList DEF e
  <2> HIDE DEF g
  <2>3. PICK k \in NamesOf(o) : k \in plans[i].keys
    <3>1. PICK k \in ToSet(KeysOf(o)) : k \in plans[i].keys
      BY <2>1
    <3>2. k[3] # None
      BY <1>3, <1>4, <3>1
    <3> QED
      BY <3>1, <3>2 DEF NamesOf
  <2>4. PlanOf(plans[i], p, R)
    BY <1>3, <1>4, <2>3 DEF o, x
  <2>5. \A j \in NamesOf(o) : Holding(plans, j) \subseteq {i}
    <3> SUFFICES ASSUME NEW j \in NamesOf(o), NEW h \in Holding(plans, j) PROVE h = i
      OBVIOUS
    <3>1. h \in 1..Len(plans) /\ j \in plans[h].keys
      BY <1>0 DEF Holding
    <3>2. PlanOf(plans[h], p, R)
      BY <1>3, <1>4, <3>1 DEF o, x
    <3> QED
      BY <1>6, <2>4, <3>1, <3>2
  <2>6. Holding(plans, <<o.uni, "CODE", None>>) = {}
    <3>1. ASSUME NEW h \in Holding(plans, <<o.uni, "CODE", None>>) PROVE FALSE
      <4>1. h \in 1..Len(plans) /\ <<o.uni, "CODE", None>> \in plans[h].keys
        BY <1>0 DEF Holding
      <4>2. \A j \in plans[h].keys : j[3] # None
        BY <1>3, <1>4, <4>1
      <4> QED
        BY <4>1, <4>2
    <3> QED
      BY <3>1
  <2>7. \A m \in R : p[m].uni = o.uni
    <3> TAKE m \in R
    <3>1. m \in DOMAIN own /\ own[m] = x
      BY <1>2
    <3>2. PICK j \in NamesOf(p[m]) : j \in NamesOf(o)
      BY <3>1 DEF SharesNames, o, x
    <3> QED
      BY <3>2, NamesAreThree
  <2>8. PlanOf(e, p, RowsAbout(own, x, n + 1))
    <3>1. R \subseteq Nat /\ \A m \in R : m < n + 1
      BY <1>1
    <3>2. i \in DOMAIN plans
      BY <1>0
    <3> HIDE DEF R
    <3>3. PlanOf(e, p, R \cup {n + 1})
      BY <1>0, <2>4, <2>5, <2>6, <2>7, <3>1, <3>2, AbsorbPlanOf DEF e, o
    <3> QED
      BY <1>1, <3>3 DEF R
  <2>9. ASSUME NEW j \in 1..Len(plans), NEW y, PlanOf(plans[j], p, RowsAbout(own, y, n))
        PROVE  PlanOf(g[j], p, RowsAbout(own, y, n + 1))
    <3>1. CASE y = x
      BY <1>6, <2>2, <2>4, <2>8, <2>9, <3>1
    <3>2. CASE y # x
      <4>1. j # i
        <5>1. ASSUME j = i PROVE FALSE
          <6>1. k \in plans[j].keys
            BY <2>3, <5>1
          <6> QED
            BY <1>3, <2>3, <2>9, <3>2, <6>1 DEF o, x
        <5> QED
          BY <5>1
      <4> QED
        BY <1>1, <2>2, <2>9, <3>2, <4>1
    <3> QED
      BY <3>1, <3>2
  <2>10. \A j \in 1..Len(g) : \E y : PlanOf(g[j], p, RowsAbout(own, y, n + 1))
    BY <1>4, <2>2, <2>9
  <2>11. ASSUME NEW m \in DOMAIN own, m <= n + 1
         PROVE  \E j \in 1..Len(g) : PlanOf(g[j], p, RowsAbout(own, own[m], n + 1))
    <3>1. CASE m <= n
      BY <1>5, <2>2, <2>9, <3>1
    <3>2. CASE m = n + 1
      BY <2>2, <2>8, <3>2 DEF x
    <3> QED
      BY <2>11, <3>1, <3>2
  <2> QED
    BY <1>7, <2>2, <2>10, <2>11 DEF PlanEach, o
<1> QED
  BY <1>0, <1>8, <1>9, MergeCases

\* ... so all of them make one plan for everybody they are about.
LEMMA FoldPlanEach ==
  ASSUME NEW N \in Nat, NEW own, DOMAIN own \subseteq 1..N, NEW p,
         \A m \in DOMAIN own : DOMAIN p[m] = PlanColumns /\ p[m].action \in Actions,
         SharesNames(own, p), NEW g, g[0] = <<>>,
         \A m \in 1..N : g[m] = IF m \in DOMAIN own THEN Merge(g[m - 1], p[m]) ELSE g[m - 1]
  PROVE  PlanEach(g[N], own, p, N)
<1> DEFINE T == {n \in Nat : n <= N => PlanEach(g[n], own, p, n)}
<1>1. 0 \in T
  <2>1. IsList(<<>>) /\ Len(<<>>) = 0
    BY EmptyIsPlans DEF IsPlans
  <2>2. \A m \in DOMAIN own : ~(m <= 0)
    OBVIOUS
  <2> QED
    BY <2>1, <2>2 DEF PlanEach, Apart
<1>2. ASSUME NEW n \in T PROVE n + 1 \in T
  <2> SUFFICES ASSUME n + 1 <= N PROVE PlanEach(g[n + 1], own, p, n + 1)
    OBVIOUS
  <2>0. n \in Nat
    OBVIOUS
  <2>1. /\ n + 1 \in 1..N /\ (n + 1) - 1 = n /\ PlanEach(g[n], own, p, n)
        /\ DOMAIN own \subseteq Nat
    <3>1. n + 1 \in 1..N /\ (n + 1) - 1 = n /\ n <= N
      BY <2>0
    <3> QED
      BY <3>1
  <2>2. g[n + 1] = IF n + 1 \in DOMAIN own THEN Merge(g[n], p[n + 1]) ELSE g[n]
    BY <2>1
  <2>3. CASE n + 1 \in DOMAIN own
    BY <2>1, <2>2, <2>3, MergePlanEach
  <2>4. CASE n + 1 \notin DOMAIN own
    BY <2>1, <2>2, <2>4, MorePlanEach
  <2> QED
    BY <2>3, <2>4
<1>3. T = Nat
  BY <1>1, <1>2, InductionOnSets
<1> QED
  BY <1>3

\* A row that is not refused adds what it says.
Merged(plans, c, lead, snap) ==
  IF Names(c) THEN Merge(plans, PersonPlan(c, lead, snap)) ELSE plans

Unrefused(c, snap) == Names(c) => ~Refused(c, snap)

Adds(acc, next, row, snap) ==
  /\ DOMAIN next = DOMAIN NothingPlanned
  /\ next.universities = AddUniversity(acc.universities, row, snap)
  /\ next.managers = Merged(acc.managers, ManagerOf(row), None, snap)
  /\ next.instructors = Merged(acc.instructors, InstructorOf(row), row.mcode, snap)

Allowed(acc, row, snap) ==
  /\ row.uni # None /\ ~UniversityRefused(acc.universities, row, snap)
  /\ Unrefused(ManagerOf(row), snap) /\ Unrefused(InstructorOf(row), snap)

LEMMA AddManagerCases ==
  ASSUME NEW acc, DOMAIN acc = DOMAIN NothingPlanned, NEW row, NEW snap
  PROVE  LET next == AddManager(acc, row, snap)
         IN /\ DOMAIN next = DOMAIN NothingPlanned
            /\ next.universities = acc.universities /\ next.instructors = acc.instructors
            /\ \/ /\ Unrefused(ManagerOf(row), snap) /\ next.errors = acc.errors
                  /\ next.managers = Merged(acc.managers, ManagerOf(row), None, snap)
               \/ next.errors = acc.errors + 1 /\ ~Unrefused(ManagerOf(row), snap)
<1> DEFINE c == ManagerOf(row)
           next == AddManager(acc, row, snap)
           m == Merge(acc.managers, PersonPlan(c, None, snap))
           more == [acc EXCEPT !.errors = @ + 1]
           led == [acc EXCEPT !.managers = m]
<1>1. \/ ~Names(c) /\ next = acc
      \/ Names(c) /\ Refused(c, snap) /\ next = more
      \/ Names(c) /\ ~Refused(c, snap) /\ next = led
  BY Zenon DEF AddManager
<1>2. /\ DOMAIN more = DOMAIN acc /\ DOMAIN led = DOMAIN acc
      /\ more.universities = acc.universities /\ more.instructors = acc.instructors
      /\ led.universities = acc.universities /\ led.instructors = acc.instructors
      /\ more.errors = acc.errors + 1 /\ led.errors = acc.errors /\ led.managers = m
  BY DEF NothingPlanned
<1> HIDE DEF c, next, more, led, m
<1> SUFFICES /\ DOMAIN next = DOMAIN NothingPlanned
             /\ next.universities = acc.universities /\ next.instructors = acc.instructors
             /\ \/ /\ Unrefused(c, snap) /\ next.errors = acc.errors
                   /\ next.managers = Merged(acc.managers, c, None, snap)
                \/ next.errors = acc.errors + 1 /\ ~Unrefused(c, snap)
  BY DEF next, c
<1> QED
  BY <1>1, <1>2 DEF Unrefused, Merged, m

LEMMA AddInstructorCases ==
  ASSUME NEW acc, DOMAIN acc = DOMAIN NothingPlanned, NEW row, NEW snap
  PROVE  LET next == AddInstructor(acc, row, snap)
         IN /\ DOMAIN next = DOMAIN NothingPlanned
            /\ next.universities = acc.universities /\ next.managers = acc.managers
            /\ \/ /\ Unrefused(InstructorOf(row), snap) /\ next.errors = acc.errors
                  /\ next.instructors
                       = Merged(acc.instructors, InstructorOf(row), row.mcode, snap)
               \/ /\ next.errors = acc.errors + 1
                  /\ ~Unrefused(InstructorOf(row), snap) \/ LeadRefused(acc.managers, row, snap)
<1> DEFINE c == InstructorOf(row)
           next == AddInstructor(acc, row, snap)
           m == Merge(acc.instructors, PersonPlan(c, row.mcode, snap))
           more == [acc EXCEPT !.errors = @ + 1]
           led == [acc EXCEPT !.instructors = m]
<1>1. \/ ~Names(c) /\ next = acc
      \/ /\ Names(c) /\ next = more
         /\ Refused(c, snap) \/ LeadRefused(acc.managers, row, snap)
      \/ Names(c) /\ ~Refused(c, snap) /\ next = led
  BY Zenon DEF AddInstructor
<1>2. /\ DOMAIN more = DOMAIN acc /\ DOMAIN led = DOMAIN acc
      /\ more.universities = acc.universities /\ more.managers = acc.managers
      /\ led.universities = acc.universities /\ led.managers = acc.managers
      /\ more.errors = acc.errors + 1 /\ led.errors = acc.errors /\ led.instructors = m
  BY DEF NothingPlanned
<1> HIDE DEF c, next, more, led, m
<1> SUFFICES /\ DOMAIN next = DOMAIN NothingPlanned
             /\ next.universities = acc.universities /\ next.managers = acc.managers
             /\ \/ /\ Unrefused(c, snap) /\ next.errors = acc.errors
                   /\ next.instructors = Merged(acc.instructors, c, row.mcode, snap)
                \/ /\ next.errors = acc.errors + 1
                   /\ ~Unrefused(c, snap) \/ LeadRefused(acc.managers, row, snap)
  BY DEF next, c
<1> QED
  BY <1>1, <1>2 DEF Unrefused, Merged, m

LEMMA AddRowCases ==
  ASSUME NEW acc, DOMAIN acc = DOMAIN NothingPlanned, acc.errors \in Nat, NEW row, NEW snap
  PROVE  LET next == AddRow(acc, row, snap)
         IN /\ DOMAIN next = DOMAIN NothingPlanned
            /\ next.errors \in Nat /\ next.errors >= acc.errors
            /\ \/ Adds(acc, next, row, snap) /\ Allowed(acc, row, snap)
               \/ /\ next.errors > acc.errors
                  /\ \/ ~Allowed(acc, row, snap)
                     \/ \E plans : LeadRefused(plans, row, snap)
<1> DEFINE open == [acc EXCEPT !.universities = AddUniversity(@, row, snap)]
           led == AddManager(open, row, snap)
           more == [acc EXCEPT !.errors = @ + 1]
           next == AddRow(acc, row, snap)
           may == row.uni # None /\ ~UniversityRefused(acc.universities, row, snap)
<1>1. \/ ~may /\ next = more
      \/ may /\ next = AddInstructor(led, row, snap)
  BY Zenon DEF AddRow
<1>2. /\ DOMAIN more = DOMAIN acc /\ DOMAIN open = DOMAIN acc
      /\ more.errors = acc.errors + 1 /\ open.errors = acc.errors
      /\ open.universities = AddUniversity(acc.universities, row, snap)
      /\ open.managers = acc.managers /\ open.instructors = acc.instructors
  BY DEF NothingPlanned
<1> HIDE DEF open, more
<1>3. /\ DOMAIN led = DOMAIN NothingPlanned
      /\ led.universities = open.universities /\ led.instructors = open.instructors
      /\ \/ /\ Unrefused(ManagerOf(row), snap) /\ led.errors = open.errors
            /\ led.managers = Merged(open.managers, ManagerOf(row), None, snap)
         \/ led.errors = open.errors + 1 /\ ~Unrefused(ManagerOf(row), snap)
  BY <1>2, AddManagerCases
<1> HIDE DEF led
<1> DEFINE last == AddInstructor(led, row, snap)
<1>4. /\ DOMAIN last = DOMAIN NothingPlanned
      /\ last.universities = led.universities /\ last.managers = led.managers
      /\ \/ /\ Unrefused(InstructorOf(row), snap) /\ last.errors = led.errors
            /\ last.instructors
                 = Merged(led.instructors, InstructorOf(row), row.mcode, snap)
         \/ /\ last.errors = led.errors + 1
            /\ ~Unrefused(InstructorOf(row), snap) \/ LeadRefused(led.managers, row, snap)
  BY <1>3, AddInstructorCases
<1> HIDE DEF last, next, may
<1>5. CASE ~may /\ next = more
  <2>1. ~Allowed(acc, row, snap)
    BY <1>5 DEF Allowed, may
  <2>2. next.errors = acc.errors + 1 /\ DOMAIN next = DOMAIN NothingPlanned
    BY <1>2, <1>5
  <2> QED
    BY <2>1, <2>2 DEF next
<1>6. CASE may /\ next = last
  <2>1. CASE last.errors = acc.errors
    <3>1. led.errors = open.errors /\ last.errors = led.errors
      BY <1>2, <1>3, <1>4, <2>1
    <3>2. /\ Unrefused(ManagerOf(row), snap) /\ Unrefused(InstructorOf(row), snap)
          /\ led.managers = Merged(acc.managers, ManagerOf(row), None, snap)
          /\ last.instructors
               = Merged(acc.instructors, InstructorOf(row), row.mcode, snap)
      BY <1>2, <1>3, <1>4, <3>1
    <3>3. Adds(acc, last, row, snap) /\ Allowed(acc, row, snap)
      BY <1>2, <1>3, <1>4, <1>6, <3>2 DEF Adds, Allowed, may
    <3> QED
      BY <1>4, <1>6, <2>1, <3>3 DEF next
  <2>2. CASE last.errors # acc.errors
    <3>1. last.errors \in Nat /\ last.errors > acc.errors
      BY <1>2, <1>3, <1>4, <2>2
    <3>2. \/ ~Unrefused(ManagerOf(row), snap)
          \/ ~Unrefused(InstructorOf(row), snap)
          \/ LeadRefused(led.managers, row, snap)
      BY <1>2, <1>3, <1>4, <2>2
    <3>3. ~Allowed(acc, row, snap) \/ LeadRefused(led.managers, row, snap)
      BY <3>2 DEF Allowed
    <3> QED
      BY <1>4, <1>6, <3>1, <3>3 DEF next
  <2> QED
    BY <2>1, <2>2
<1> QED
  BY <1>1, <1>5, <1>6 DEF last

\* A file of which no row is refused, F being what is made of its first rows.
NoneRefused(F, rows, snap) ==
  /\ F[0] = NothingPlanned
  /\ \A i \in 1..Len(rows) : /\ Adds(F[i - 1], F[i], rows[i], snap)
                             /\ Allowed(F[i - 1], rows[i], snap)

LEMMA CleanFold ==
  ASSUME NEW rows, Len(rows) \in Nat, NEW snap, Resolve(rows, snap).errors = 0
  PROVE  \E F : Resolve(rows, snap) = F[Len(rows)] /\ NoneRefused(F, rows, snap)
<1>1. PICK F : /\ Resolve(rows, snap) = F[Len(rows)] /\ F[0] = NothingPlanned
               /\ \A i \in 1..Len(rows) : F[i] = AddRow(F[i - 1], rows[i], snap)
  BY ResolveSteps
<1> DEFINE OneMore(m) == /\ Adds(F[m - 1], F[m], rows[m], snap)
                         /\ Allowed(F[m - 1], rows[m], snap)
           Good(n) == /\ DOMAIN F[n] = DOMAIN NothingPlanned /\ F[n].errors \in Nat
                      /\ F[n].errors = 0 => \A m \in 1..n : OneMore(m)
           T == {n \in Nat : n <= Len(rows) => Good(n)}
<1>2. 0 \in T
  <2>1. DOMAIN F[0] = DOMAIN NothingPlanned /\ F[0].errors = 0
    BY <1>1 DEF NothingPlanned
  <2> QED
    BY <2>1
<1>3. ASSUME NEW n \in T PROVE n + 1 \in T
  <2>0. n \in Nat
    OBVIOUS
  <2> SUFFICES ASSUME n + 1 <= Len(rows) PROVE Good(n + 1)
    BY <2>0
  <2>1. n + 1 \in 1..Len(rows) /\ (n + 1) - 1 = n /\ n <= Len(rows)
    BY <2>0
  <2>2. F[n + 1] = AddRow(F[n], rows[n + 1], snap)
    BY <1>1, <2>1
  <2>3. Good(n)
    BY <2>1
  <2>4. /\ DOMAIN F[n + 1] = DOMAIN NothingPlanned
        /\ F[n + 1].errors \in Nat /\ F[n + 1].errors >= F[n].errors
        /\ \/ /\ Adds(F[n], F[n + 1], rows[n + 1], snap)
              /\ Allowed(F[n], rows[n + 1], snap)
           \/ F[n + 1].errors > F[n].errors
    BY <2>2, <2>3, AddRowCases
  <2>5. \A m \in 1..(n + 1) : m \in 1..n \/ m = n + 1
    BY <2>0
  <2>6. F[n + 1].errors = 0 => F[n].errors = 0 /\ OneMore(n + 1)
    BY <2>1, <2>3, <2>4
  <2> HIDE DEF OneMore
  <2> QED
    BY <2>3, <2>4, <2>5, <2>6
<1>4. T = Nat
  <2> HIDE DEF Good
  <2> QED
    BY <1>2, <1>3, InductionOnSets
<1>5. Good(Len(rows))
  BY <1>4
<1> QED
  BY <1>1, <1>5 DEF NoneRefused

\* What the first n rows say of the universities.
UniversityOf(rows) == [m \in 1..Len(rows) |-> rows[m].uni]

UniversityEach(us, rows, n) ==
  /\ \A u : u \in UnisOf(us) <=> \E m \in 1..n : rows[m].uni = u
  /\ \A i \in 1..Len(us) :
       /\ FirstSaid(us[i].name, rows, "uname", RowsAbout(UniversityOf(rows), us[i].uni, n))
       /\ us[i].action = "update" => us[i].name # None

LEMMA AddUniversityCases ==
  ASSUME NEW us, NEW row, NEW snap, UniversitiesPlanned(us, snap)
  PROVE  LET vs == AddUniversity(us, row, snap)
         IN \/ /\ \A n \in 1..Len(us) : us[n].uni # row.uni
               /\ \E new : /\ vs = Append(us, new)
                           /\ new.uni = row.uni /\ new.name = row.uname
                           /\ new.action = "update" => new.name # None
            \/ \E i \in 1..Len(us) :
                 /\ us[i].uni = row.uni
                 /\ \/ vs = us /\ Or(us[i].name, row.uname) = us[i].name
                    \/ \E new : /\ vs = Replaced(us, i, new)
                                /\ new.uni = row.uni
                                /\ new.name = Or(us[i].name, row.uname) /\ new.name # None
<1> DEFINE I == {n \in 1..Len(us) : us[n].uni = row.uni}
           i == IF I # {} THEN Min(I) ELSE 0
           known == row.uni \in DOMAIN snap.universities
           renamed == row.uname # None /\ known /\ snap.universities[row.uni] # row.uname
           new == [uni |-> row.uni, name |-> row.uname, known |-> known,
                   action |-> IF ~known THEN "create"
                              ELSE IF renamed THEN "update" ELSE "unchanged"]
           named == [us EXCEPT ![i].name = row.uname,
                               ![i].action = IF renamed THEN "update" ELSE @]
           vs == AddUniversity(us, row, snap)
<1>1. vs = IF i = 0 THEN Append(us, new)
           ELSE IF row.uname # None /\ us[i].name = None THEN named ELSE us
  BY DEF AddUniversity, SelectInSeq
<1>2. \/ I = {} /\ i = 0
      \/ i \in I /\ i # 0
  <2>1. I \subseteq Nat \ {0}
    OBVIOUS
  <2> HIDE DEF I
  <2>2. I # {} => \E m \in I : \A n \in I : m <= n
    BY <2>1, LeastNumber
  <2>3. I # {} => Min(I) \in I
    BY <2>2 DEF Min
  <2> QED
    BY <2>1, <2>3
<1> HIDE DEF i, vs
<1>3. CASE I = {} /\ i = 0
  <2>1. /\ new.uni = row.uni /\ new.name = row.uname
        /\ new.action = "update" => new.name # None
    OBVIOUS
  <2> HIDE DEF new
  <2> QED
    BY <1>1, <1>3, <2>1 DEF vs
<1>4. CASE i \in I /\ i # 0
  <2>1. i \in 1..Len(us) /\ us[i].uni = row.uni
    BY <1>4
  <2>2. CASE row.uname # None /\ us[i].name = None
    <3> DEFINE e == [us[i] EXCEPT !.name = row.uname,
                                  !.action = IF renamed THEN "update" ELSE @]
    <3>1. named = Replaced(us, i, e)
      BY <2>1 DEF Replaced, UniversitiesPlanned
    <3>2. e.uni = us[i].uni /\ e.name = row.uname
      BY <2>1 DEF UniversitiesPlanned
    <3> HIDE DEF e, named
    <3>3. vs = Replaced(us, i, e) /\ e.name = Or(us[i].name, row.uname)
      BY <1>1, <1>4, <2>2, <3>1, <3>2 DEF Or
    <3> QED
      BY <2>1, <2>2, <3>2, <3>3 DEF vs
  <2>3. CASE ~(row.uname # None /\ us[i].name = None)
    <3>1. vs = us /\ Or(us[i].name, row.uname) = us[i].name
      BY <1>1, <1>4, <2>3 DEF Or
    <3> QED
      BY <2>1, <3>1 DEF vs
  <2> QED
    BY <2>2, <2>3
<1> QED
  BY <1>2, <1>3, <1>4

LEMMA AddUniversitySays ==
  ASSUME NEW rows, Len(rows) \in Nat, NEW n \in Nat, n + 1 \in 1..Len(rows), NEW us,
         NEW snap, UniversitiesPlanned(us, snap), UniversityEach(us, rows, n)
  PROVE  UniversityEach(AddUniversity(us, rows[n + 1], snap), rows, n + 1)
<1> DEFINE own == UniversityOf(rows)
           row == rows[n + 1]
           vs == AddUniversity(us, row, snap)
           S(u) == RowsAbout(own, u, n)
<1>0. /\ DOMAIN own \subseteq Nat /\ n + 1 \in DOMAIN own /\ own[n + 1] = row.uni
      /\ Len(us) \in Nat /\ IsList(us)
  BY DEF UniversityOf, UniversitiesPlanned, IsList
<1>1. /\ RowsAbout(own, row.uni, n + 1) = S(row.uni) \cup {n + 1}
      /\ \A u : u # row.uni => RowsAbout(own, u, n + 1) = S(u)
      /\ \A u : S(u) \subseteq Nat /\ \A m \in S(u) : m < n + 1
  BY <1>0, RowsAboutMore
<1>2. \A m : m \in 1..(n + 1) <=> m \in 1..n \/ m = n + 1
  OBVIOUS
<1>3. \A i \in 1..Len(us) : /\ FirstSaid(us[i].name, rows, "uname", S(us[i].uni))
                            /\ us[i].action = "update" => us[i].name # None
  BY DEF UniversityEach
<1>4. \A u : (\E m \in 1..(n + 1) : rows[m].uni = u) <=> u \in UnisOf(us) \/ u = row.uni
  BY <1>2 DEF UniversityEach
<1>5. row.uname = rows[n + 1]["uname"]
  OBVIOUS
<1>6. \A v, u : FirstSaid(v, rows, "uname", S(u)) =>
                  FirstSaid(Or(v, row.uname), rows, "uname", S(u) \cup {n + 1})
  <2> TAKE v, u
  <2> SUFFICES ASSUME FirstSaid(v, rows, "uname", S(u))
               PROVE  FirstSaid(Or(v, row.uname), rows, "uname", S(u) \cup {n + 1})
    OBVIOUS
  <2>1. S(u) \subseteq Nat /\ (\A m \in S(u) : m < n + 1) /\ n + 1 \in Nat
    BY <1>1
  <2> HIDE DEF S
  <2> QED
    BY <1>5, <2>1, FirstSaidMore
<1> HIDE DEF S, own, row
<1> SUFFICES UniversityEach(vs, rows, n + 1)
  BY DEF row
<1>7. CASE /\ \A i \in 1..Len(us) : us[i].uni # row.uni
           /\ \E new : /\ vs = Append(us, new)
                       /\ new.uni = row.uni /\ new.name = row.uname
                       /\ new.action = "update" => new.name # None
  <2>1. PICK new : /\ vs = Append(us, new)
                   /\ new.uni = row.uni /\ new.name = row.uname
                   /\ new.action = "update" => new.name # None
    BY <1>7
  <2> HIDE DEF vs
  <2>2. /\ Len(vs) = Len(us) + 1 /\ vs[Len(us) + 1] = new
        /\ \A i \in 1..Len(us) : vs[i] = us[i]
    BY <1>0, <2>1, AppendIsList
  <2>3. \A i : i \in 1..Len(vs) <=> i \in 1..Len(us) \/ i = Len(us) + 1
    BY <1>0, <2>2
  <2>4. \A u : u \in UnisOf(vs) <=> u \in UnisOf(us) \/ u = row.uni
    BY <2>1, <2>2, <2>3 DEF UnisOf
  <2>5. S(row.uni) = {}
    <3>1. ~\E m \in 1..n : rows[m].uni = row.uni
      BY <1>7 DEF UniversityEach, UnisOf
    <3> QED
      BY <3>1 DEF S, own, RowsAbout, UniversityOf
  <2>6. FirstSaid(new.name, rows, "uname", RowsAbout(own, new.uni, n + 1))
    <3>1. RowsAbout(own, new.uni, n + 1) = {n + 1}
      BY <1>1, <2>1, <2>5
    <3>2. new.name = rows[n + 1]["uname"]
      BY <1>5, <2>1
    <3>3. n + 1 \in Nat
      OBVIOUS
    <3>4. FirstSaid(rows[n + 1]["uname"], rows, "uname", {n + 1})
      BY <3>3, FirstSaidAlone
    <3> QED
      BY <3>1, <3>2, <3>4
  <2>7. \A i \in 1..Len(us) : us[i].uni # row.uni
    BY <1>7
  <2>8. ASSUME NEW i \in 1..Len(vs)
        PROVE  /\ FirstSaid(vs[i].name, rows, "uname", RowsAbout(own, vs[i].uni, n + 1))
               /\ vs[i].action = "update" => vs[i].name # None
    <3>1. CASE i = Len(us) + 1
      BY <2>1, <2>2, <2>6, <3>1
    <3>2. CASE i \in 1..Len(us)
      BY <1>1, <1>3, <2>2, <2>7, <3>2
    <3> QED
      BY <2>3, <3>1, <3>2
  <2> QED
    BY <1>4, <2>4, <2>8 DEF UniversityEach, own
<1>8. CASE \E i \in 1..Len(us) :
             /\ us[i].uni = row.uni
             /\ \/ vs = us /\ Or(us[i].name, row.uname) = us[i].name
                \/ \E new : /\ vs = Replaced(us, i, new)
                            /\ new.uni = row.uni
                            /\ new.name = Or(us[i].name, row.uname) /\ new.name # None
  <2>1. PICK i \in 1..Len(us) :
             /\ us[i].uni = row.uni
             /\ \/ vs = us /\ Or(us[i].name, row.uname) = us[i].name
                \/ \E new : /\ vs = Replaced(us, i, new)
                            /\ new.uni = row.uni
                            /\ new.name = Or(us[i].name, row.uname) /\ new.name # None
    BY <1>8
  <2> HIDE DEF vs
  <2>2. /\ Len(vs) = Len(us)
        /\ vs[i].uni = row.uni /\ vs[i].name = Or(us[i].name, row.uname)
        /\ vs[i].action = "update" => vs[i].name # None
        /\ \A j \in 1..Len(us) : j # i => vs[j] = us[j]
    <3>1. CASE vs = us /\ Or(us[i].name, row.uname) = us[i].name
      BY <1>3, <2>1, <3>1
    <3>2. CASE \E new : /\ vs = Replaced(us, i, new)
                        /\ new.uni = row.uni
                        /\ new.name = Or(us[i].name, row.uname) /\ new.name # None
      BY <1>0, <2>1, <3>2, ReplacedIsList
    <3> QED
      BY <2>1, <3>1, <3>2
  <2>3. \A j \in 1..Len(us) : j # i => us[j].uni # row.uni
    BY <2>1 DEF UniversitiesPlanned
  <2>4. \A j \in 1..Len(us) : vs[j].uni = us[j].uni
    BY <2>1, <2>2
  <2>5. UnisOf(vs) = UnisOf(us) /\ row.uni \in UnisOf(us)
    BY <2>1, <2>2, <2>4 DEF UnisOf
  <2>6. FirstSaid(vs[i].name, rows, "uname", RowsAbout(own, vs[i].uni, n + 1))
    <3>1. FirstSaid(us[i].name, rows, "uname", S(row.uni))
      BY <1>3, <2>1
    <3> QED
      BY <1>1, <1>6, <2>2, <3>1
  <2>7. ASSUME NEW j \in 1..Len(vs)
        PROVE  /\ FirstSaid(vs[j].name, rows, "uname", RowsAbout(own, vs[j].uni, n + 1))
               /\ vs[j].action = "update" => vs[j].name # None
    <3>1. CASE j = i
      BY <2>2, <2>6, <3>1
    <3>2. CASE j # i
      BY <1>1, <1>3, <2>2, <2>3, <3>2
    <3> QED
      BY <3>1, <3>2
  <2> QED
    BY <1>4, <2>5, <2>7 DEF UniversityEach, own
<1> QED
  BY <1>7, <1>8, AddUniversityCases DEF row, vs

LEMMA FoldUniversityEach ==
  ASSUME NEW rows, Len(rows) \in Nat, NEW snap, NEW n \in Nat, n <= Len(rows),
         NEW g, g[0] = <<>>, \A i \in 1..n : g[i] = AddUniversity(g[i - 1], rows[i], snap)
  PROVE  UniversitiesPlanned(g[n], snap) /\ UniversityEach(g[n], rows, n)
<1> DEFINE Good(m) == UniversitiesPlanned(g[m], snap) /\ UniversityEach(g[m], rows, m)
           T == {m \in Nat : m <= n => Good(m)}
<1>1. 0 \in T
  <2>1. IsList(<<>>) /\ Len(<<>>) = 0
    BY EmptyIsPlans DEF IsPlans
  <2> QED
    BY <2>1 DEF UniversitiesPlanned, UniversityEach, UnisOf
<1>2. ASSUME NEW m \in T PROVE m + 1 \in T
  <2>0. m \in Nat
    OBVIOUS
  <2> SUFFICES ASSUME m + 1 <= n PROVE Good(m + 1)
    BY <2>0
  <2>1. m + 1 \in 1..n /\ (m + 1) - 1 = m /\ m <= n /\ m + 1 \in 1..Len(rows)
    BY <2>0
  <2>2. Good(m) /\ g[m + 1] = AddUniversity(g[m], rows[m + 1], snap)
    BY <2>1
  <2> QED
    BY <2>0, <2>1, <2>2, AddUniversityPlans, AddUniversitySays
<1>3. T = Nat
  <2> HIDE DEF Good
  <2> QED
    BY <1>1, <1>2, InductionOnSets
<1> QED
  BY <1>3

\* Reading again, no row is refused that finds whom it is about.
LEMMA AgainNoneRefused ==
  ASSUME NEW rows, Len(rows) \in Nat, NEW snap, NEW F, NoneRefused(F, rows, snap), NEW again,
         \A m \in 1..Len(rows) :
           /\ rows[m].uni \in DOMAIN again.universities
           /\ Unrefused(ManagerOf(rows[m]), again) /\ Unrefused(InstructorOf(rows[m]), again)
           /\ rows[m].mcode # None => ByCode(ManagerOf(rows[m]), again) # {}
  PROVE  \E H : Resolve(rows, again) = H[Len(rows)] /\ NoneRefused(H, rows, again)
<1>1. PICK H : /\ Resolve(rows, again) = H[Len(rows)] /\ H[0] = NothingPlanned
               /\ \A i \in 1..Len(rows) : H[i] = AddRow(H[i - 1], rows[i], again)
  BY ResolveSteps
<1> DEFINE OneMore(m) == /\ Adds(H[m - 1], H[m], rows[m], again)
                         /\ Allowed(H[m - 1], rows[m], again)
           Good(n) == /\ DOMAIN H[n] = DOMAIN NothingPlanned /\ H[n].errors \in Nat
                      /\ \A m \in 1..n : OneMore(m)
           T == {n \in Nat : n <= Len(rows) => Good(n)}
<1>2. 0 \in T
  <2>1. DOMAIN H[0] = DOMAIN NothingPlanned /\ H[0].errors = 0
    BY <1>1 DEF NothingPlanned
  <2> QED
    BY <2>1
<1>3. ASSUME NEW n \in T PROVE n + 1 \in T
  <2>0. n \in Nat
    OBVIOUS
  <2> SUFFICES ASSUME n + 1 <= Len(rows) PROVE Good(n + 1)
    BY <2>0
  <2> DEFINE row == rows[n + 1]
  <2>1. n + 1 \in 1..Len(rows) /\ (n + 1) - 1 = n /\ n <= Len(rows)
    BY <2>0
  <2>2. H[n + 1] = AddRow(H[n], row, again)
    BY <1>1, <2>1
  <2>3. Good(n)
    BY <2>1
  <2>4. UniversityEach(H[n].universities, rows, n) /\ IsList(H[n].universities)
    <3> DEFINE g == [i \in 0..n |-> H[i].universities]
    <3>1. g[0] = <<>> /\ g[n] = H[n].universities
      BY <1>1, <2>0 DEF NothingPlanned
    <3>2. \A i \in 1..n : g[i] = AddUniversity(g[i - 1], rows[i], again)
      <4> TAKE i \in 1..n
      <4>1. H[i].universities = AddUniversity(H[i - 1].universities, rows[i], again)
        BY <2>3 DEF Adds
      <4>2. i \in 0..n /\ i - 1 \in 0..n
        BY <2>0
      <4> QED
        BY <4>1, <4>2
    <3> HIDE DEF g
    <3>3. UniversitiesPlanned(g[n], again) /\ UniversityEach(g[n], rows, n)
      BY <2>0, <2>1, <3>1, <3>2, FoldUniversityEach
    <3> QED
      BY <3>1, <3>3 DEF UniversitiesPlanned
  <2>5. UniversityEach(F[n].universities, rows, n) /\ IsList(F[n].universities)
    <3> DEFINE g == [i \in 0..n |-> F[i].universities]
    <3>1. g[0] = <<>> /\ g[n] = F[n].universities
      BY <2>0 DEF NothingPlanned, NoneRefused
    <3>2. \A i \in 1..n : g[i] = AddUniversity(g[i - 1], rows[i], snap)
      <4> TAKE i \in 1..n
      <4>1. i \in 1..Len(rows)
        BY <2>0, <2>1
      <4>2. F[i].universities = AddUniversity(F[i - 1].universities, rows[i], snap)
        BY <4>1 DEF Adds, NoneRefused
      <4>3. i \in 0..n /\ i - 1 \in 0..n
        BY <2>0
      <4> QED
        BY <4>2, <4>3
    <3> HIDE DEF g
    <3>3. UniversitiesPlanned(g[n], snap) /\ UniversityEach(g[n], rows, n)
      BY <2>0, <2>1, <3>1, <3>2, FoldUniversityEach
    <3> QED
      BY <3>1, <3>3 DEF UniversitiesPlanned
  <2>6. UnisOf(H[n].universities) = UnisOf(F[n].universities)
    BY <2>4, <2>5 DEF UniversityEach
  <2>7. Allowed(F[n], row, snap)
    BY <2>1 DEF NoneRefused
  <2>8. ~UniversityRefused(H[n].universities, row, again)
    <3>1. /\ DOMAIN H[n].universities = 1..Len(H[n].universities)
          /\ DOMAIN F[n].universities = 1..Len(F[n].universities)
      BY <2>4, <2>5 DEF IsList
    <3>2. row.uni \in DOMAIN again.universities
      BY <2>1
    <3> HIDE DEF row
    <3> QED
      BY <2>6, <2>7, <3>1, <3>2 DEF Allowed, UniversityRefused, UnisOf
  <2>9. Allowed(H[n], row, again)
    <3>1. Unrefused(ManagerOf(row), again) /\ Unrefused(InstructorOf(row), again)
      BY <2>1
    <3> HIDE DEF row
    <3> QED
      BY <2>7, <2>8, <3>1 DEF Allowed
  <2>10. \A plans : ~LeadRefused(plans, row, again)
    BY <2>1 DEF LeadRefused
  <2>11. /\ DOMAIN H[n + 1] = DOMAIN NothingPlanned /\ H[n + 1].errors \in Nat
         /\ Adds(H[n], H[n + 1], row, again)
    <3> HIDE DEF row
    <3>1. LET next == AddRow(H[n], row, again)
          IN /\ DOMAIN next = DOMAIN NothingPlanned
             /\ next.errors \in Nat /\ next.errors >= H[n].errors
             /\ \/ Adds(H[n], next, row, again) /\ Allowed(H[n], row, again)
                \/ /\ next.errors > H[n].errors
                   /\ \/ ~Allowed(H[n], row, again)
                      \/ \E plans : LeadRefused(plans, row, again)
      BY <2>3, AddRowCases
    <3>2. H[n + 1] = AddRow(H[n], row, again)
      BY <2>2 DEF row
    <3> QED
      BY <2>9, <2>10, <3>1, <3>2
  <2>12. \A m \in 1..(n + 1) : m \in 1..n \/ m = n + 1
    BY <2>0
  <2>13. OneMore(n + 1)
    BY <2>1, <2>9, <2>11
  <2> HIDE DEF OneMore
  <2> QED
    BY <2>3, <2>11, <2>12, <2>13
<1>4. T = Nat
  <2> HIDE DEF Good
  <2> QED
    BY <1>2, <1>3, InductionOnSets
<1>5. Good(Len(rows))
  BY <1>4
<1> QED
  BY <1>1, <1>5 DEF NoneRefused

\* What a row that is about x may name: x's own address, and the code x has.
AboutAccount(c, x) ==
  /\ x \in DOMAIN people /\ people[x].kind = c.kind /\ people[x].uni = c.uni
  /\ c.email # None \/ c.code # None
  /\ c.email # None => c.email = x
  /\ c.code # None => people[x].code = c.code

\* Whatever a second read finds is there; who is of a university it found is read.
ReadAgain(again) ==
  /\ \A x \in DOMAIN again.profiles : x \in DOMAIN people /\ again.profiles[x] = people[x]
  /\ \A x \in DOMAIN people :
       people[x].uni \in DOMAIN again.universities => x \in DOMAIN again.profiles
  /\ \A x \in DOMAIN again.users : x \in DOMAIN people /\ again.users[x] = people[x]

\* A row about x finds x, and nobody else.
LEMMA AgainRow ==
  ASSUME CodesUnique(people), Addressed, NEW again, ReadAgain(again),
         NEW c, NEW x, AboutAccount(c, x), NEW snap, ~Refused(c, snap),
         c.uni \in DOMAIN again.universities,
         c.email \in DOMAIN people => c.email \in DOMAIN again.users
  PROVE  /\ ~Refused(c, again) /\ Existing(c, again) = {x}
         /\ c.code # None => ByCode(c, again) = {x}
<1>1. x \in DOMAIN again.profiles /\ again.profiles[x] = people[x]
  BY DEF ReadAgain, AboutAccount
<1>2. ByCode(c, again) \subseteq {x} /\ (c.code # None => ByCode(c, again) = {x})
  <2>1. ASSUME NEW y \in ByCode(c, again) PROVE y = x
    <3>1. /\ y \in DOMAIN again.profiles /\ c.code # None
          /\ again.profiles[y].kind = c.kind /\ again.profiles[y].uni = c.uni
          /\ again.profiles[y].code = c.code
      BY DEF ByCode
    <3>2. y \in DOMAIN people /\ again.profiles[y] = people[y]
      BY <3>1 DEF ReadAgain
    <3> QED
      BY <3>1, <3>2 DEF CodesUnique, AboutAccount
  <2>2. c.code # None => x \in ByCode(c, again)
    BY <1>1 DEF ByCode, AboutAccount
  <2> QED
    BY <2>1, <2>2
<1>3. ByUser(c, again) \subseteq {x} /\ (c.email # None => ByUser(c, again) = {x})
  <2>1. ASSUME NEW y \in ByUser(c, again) PROVE y = x
    <3>1. y = c.email /\ y \in DOMAIN people
      BY DEF ByUser, ReadAgain
    <3> QED
      BY <3>1 DEF Addressed, AboutAccount
  <2>2. c.email # None => x \in ByUser(c, again)
    <3> SUFFICES ASSUME c.email # None PROVE x \in ByUser(c, again)
      OBVIOUS
    <3>1. c.email = x /\ x \in DOMAIN again.users
      BY DEF AboutAccount
    <3> QED
      BY <1>1, <3>1 DEF ByUser, AboutAccount
  <2> QED
    BY <2>1, <2>2
<1>4. Existing(c, again) = {x}
  BY <1>2, <1>3 DEF Existing, AboutAccount
<1>5. ~AccountRefused(c, again)
  <2> SUFFICES ASSUME c.email \in DOMAIN again.users
               PROVE  again.users[c.email].uni = c.uni /\ again.users[c.email].kind = c.kind
    BY DEF AccountRefused
  <2>1. c.email \in DOMAIN people /\ again.users[c.email] = people[c.email]
    BY DEF ReadAgain
  <2> QED
    BY <2>1 DEF Addressed, AboutAccount
<1>6. ~Refused(c, again)
  BY <1>2, <1>3, <1>4, <1>5 DEF Refused
<1> QED
  BY <1>2, <1>4, <1>6

\* The plan it makes skips x or updates x.
LEMMA AgainPlan ==
  ASSUME NEW c, NEW lead, NEW again, NEW x, Existing(c, again) = {x}
  PROVE  LET p == PersonPlan(c, lead, again)
         IN /\ p.id = x /\ p.action \in {"update", "unchanged"}
            /\ p.action = "update" => WouldChange(c, again)
BY DEF PersonPlan

\* Each row names whom it is about, S being who was there when it was read.
Identified(own, kind, c, p, S) ==
  \A m \in DOMAIN own :
    /\ AboutAccount(c[m], own[m]) /\ c[m].kind = kind
    /\ p[m].uni = c[m].uni /\ p[m].email = c[m].email /\ p[m].code = c[m].code
    /\ \/ p[m].id = own[m] /\ own[m] \in S
       \/ p[m].id = None /\ c[m].email = own[m] /\ own[m] \notin S

\* Then rows share a name when they are about the same account, and only then.
LEMMA RowsShareNames ==
  ASSUME CodesUnique(people), Addressed, NEW own, NEW kind, NEW c, NEW p, NEW S,
         Identified(own, kind, c, p, S)
  PROVE  SharesNames(own, p)
<1> SUFFICES ASSUME NEW l \in DOMAIN own, NEW m \in DOMAIN own
             PROVE  own[l] = own[m] <=> NamesOf(p[l]) \cap NamesOf(p[m]) # {}
  BY DEF SharesNames
<1>0. \A n \in {l, m} :
        /\ AboutAccount(c[n], own[n]) /\ c[n].kind = kind
        /\ p[n].uni = c[n].uni /\ p[n].email = c[n].email /\ p[n].code = c[n].code
        /\ \/ p[n].id = own[n] /\ own[n] \in S
           \/ p[n].id = None /\ c[n].email = own[n] /\ own[n] \notin S
  BY DEF Identified
<1>1. own[l] # None /\ own[m] # None
  BY <1>0 DEF Addressed, AboutAccount
<1>2. ASSUME own[l] = own[m] PROVE NamesOf(p[l]) \cap NamesOf(p[m]) # {}
  <2>1. p[l].uni = p[m].uni
    BY <1>0, <1>2 DEF AboutAccount
  <2>2. CASE own[m] \in S
    <3>1. p[l].id = own[m] /\ p[m].id = own[m]
      BY <1>0, <1>1, <1>2, <2>2
    <3>2. <<p[m].uni, "ID", own[m]>> \in NamesOf(p[l]) \cap NamesOf(p[m])
      BY <1>1, <2>1, <3>1, KeysAreThree DEF NamesOf
    <3> QED
      BY <3>2
  <2>3. CASE own[m] \notin S
    <3>1. p[l].email = own[m] /\ p[m].email = own[m]
      BY <1>0, <1>2, <2>3
    <3>2. <<p[m].uni, "EMAIL", own[m]>> \in NamesOf(p[l]) \cap NamesOf(p[m])
      BY <1>1, <2>1, <3>1, KeysAreThree DEF NamesOf
    <3> QED
      BY <3>2
  <2> QED
    BY <2>2, <2>3
<1>3. ASSUME NEW k \in NamesOf(p[l]) \cap NamesOf(p[m]) PROVE own[l] = own[m]
  <2>1. /\ k[1] = p[l].uni /\ k[1] = p[m].uni /\ k[3] # None
        /\ \/ k[2] = "ID" /\ k[3] = p[l].id
           \/ k[2] = "EMAIL" /\ k[3] = p[l].email
           \/ k[2] = "CODE" /\ k[3] = p[l].code
        /\ \/ k[2] = "ID" /\ k[3] = p[m].id
           \/ k[2] = "EMAIL" /\ k[3] = p[m].email
           \/ k[2] = "CODE" /\ k[3] = p[m].code
    BY <1>3, NamesAreThree
  <2>2. CASE k[2] = "ID"
    BY <1>0, <1>1, <2>1, <2>2
  <2>3. CASE k[2] = "EMAIL"
    BY <1>0, <2>1, <2>3 DEF AboutAccount
  <2>4. CASE k[2] = "CODE"
    <3>1. p[l].code = p[m].code /\ p[l].code # None /\ p[l].uni = p[m].uni
      BY <2>1, <2>4
    <3>2. /\ AboutAccount(c[l], own[l]) /\ AboutAccount(c[m], own[m])
          /\ c[l].kind = c[m].kind
          /\ \A n \in {l, m} : p[n].uni = c[n].uni /\ p[n].code = c[n].code
      BY <1>0
    <3> QED
      BY <3>1, <3>2 DEF AboutAccount, CodesUnique
  <2> QED
    BY <2>1, <2>2, <2>3, <2>4
<1> QED
  BY <1>2, <1>3

\* A run's plan is what its file asks for, given what it read.
Asked(s) ==
  /\ None \notin DOMAIN s.snap.users
  /\ s.pc \in {"universities", "MANAGER", "INSTRUCTOR", "ended"} =>
       s.plan = Resolve(file, s.snap)

\* Every row is a record.
Recorded(ps) == \A x \in DOMAIN ps : ps[x] = [c \in DOMAIN ps[x] |-> ps[x][c]]

AInv == Recorded(people) /\ \A r \in Runs : Asked(run[r])

LEMMA AskedOnward ==
  ASSUME NEW s, Asked(s), NEW x, x.snap = s.snap, x.plan = s.plan,
         \/ x.pc = s.pc
         \/ s.pc \in {"universities", "MANAGER", "INSTRUCTOR", "ended"}
  PROVE  Asked(x)
BY DEF Asked

LEMMA AllAsked ==
  ASSUME Accounts, AInv, NEW r \in Runs, Moved(r), Asked(run'[r]) PROVE \A t \in Runs : Asked(run[t])'
<1>1. DOMAIN run = Runs /\ file' = file
  BY DEF Accounts, Moved
<1>2. \A t \in Runs \ {r} : run'[t] = run[t]
  BY <1>1 DEF Moved
<1> QED
  BY <1>1, <1>2 DEF AInv, Asked

LEMMA ReadsAsked ==
  ASSUME Accounts, Planning, Addressed, AInv, NEW r \in Runs,
         Starts(r) \/ ReadsUsers(r) \/ ReadsProfiles(r) \/ Dies(r)
  PROVE  Asked(run'[r])
<1> DEFINE s == run[r]
<1>0. DOMAIN s = DOMAIN Idle /\ DOMAIN run = Runs /\ Plans(s) /\ Asked(s)
  BY DEF Accounts, Accounted, HasLists, Planning, AInv
<1>1. CASE Dies(r)
  <2> DEFINE x == [Idle EXCEPT !.pc = "dead"]
  <2>1. run'[r] = x
    BY <1>0, <1>1 DEF Dies
  <2>2. x.pc = "dead" /\ x.snap.users = <<>>
    BY DEF Idle, NothingRead
  <2> HIDE DEF x
  <2> QED
    BY <2>1, <2>2 DEF Asked
<1>2. CASE Starts(r)
  <2> DEFINE x == [Idle EXCEPT !.pc = "users",
                               !.snap.universities = UniversitiesRead(file, universities)]
  <2>1. run'[r] = x
    BY <1>0, <1>2 DEF Starts
  <2>2. x.pc = "users" /\ x.snap.users = <<>>
    BY DEF Idle, NothingRead
  <2> HIDE DEF x
  <2> QED
    BY <2>1, <2>2 DEF Asked
<1>3. CASE ReadsUsers(r)
  <2> DEFINE read == UsersRead(file, people)
             x == [s EXCEPT !.pc = "profiles", !.snap.users = read]
  <2>1. run' = [run EXCEPT ![r] = x]
    BY <1>0, <1>3 DEF ReadsUsers
  <2>2. x.pc = "profiles" /\ x.snap.users = read
    BY <1>0 DEF Idle, Plans, NothingRead
  <2>3. None \notin DOMAIN read
    BY DEF UsersRead, Addressed
  <2>4. run'[r] = x
    BY <1>0, <2>1
  <2> HIDE DEF x, read
  <2> QED
    BY <2>2, <2>3, <2>4 DEF Asked
<1>4. CASE ReadsProfiles(r)
  <2> DEFINE snap == [s.snap EXCEPT
                        !.profiles = ProfilesRead(s.snap.universities, people),
                        !.holders = CodesHeld(people)]
             plan == Resolve(file, snap)
             x == [Idle EXCEPT !.pc = "universities", !.snap = snap, !.plan = plan,
                               !.todo = plan.universities]
  <2>1. run'[r] = x
    BY <1>0, <1>4 DEF ReadsProfiles
  <2>2. snap.users = s.snap.users
    BY <1>0 DEF Plans, NothingRead
  <2>3. x.snap = snap /\ x.plan = plan
    BY DEF Idle
  <2> HIDE DEF x
  <2>4. run'[r].snap = snap /\ run'[r].plan = Resolve(file, snap)
    BY <2>1, <2>3
  <2>5. None \notin DOMAIN snap.users
    BY <1>0, <2>2 DEF Asked
  <2> HIDE DEF snap
  <2>6. file' = file
    BY <1>4 DEF ReadsProfiles
  <2> QED
    BY <2>4, <2>5 DEF Asked
<1> QED
  BY <1>1, <1>2, <1>3, <1>4

LEMMA CreatesRecords ==
  ASSUME NEW chunk, NEW leads, Creates(chunk, leads), Recorded(people)
  PROVE  Recorded(people')
<1>1. /\ DOMAIN people' = DOMAIN people \cup DOMAIN Rows(chunk, leads)
      /\ \A x \in DOMAIN people : people'[x] = people[x]
      /\ \A x \in DOMAIN Rows(chunk, leads) \ DOMAIN people :
           people'[x] = Rows(chunk, leads)[x]
  <2>1. people' = With(people, Rows(chunk, leads))
    BY DEF Creates
  <2> DEFINE g == Rows(chunk, leads)
  <2>2. /\ DOMAIN With(people, g) = DOMAIN people \cup DOMAIN g
        /\ \A x \in DOMAIN people : With(people, g)[x] = people[x]
        /\ \A x \in DOMAIN g \ DOMAIN people : With(people, g)[x] = g[x]
    <3> HIDE DEF g
    <3> QED
      BY WithIsBoth
  <2> QED
    BY <2>1, <2>2
<1>2. \A x \in DOMAIN Rows(chunk, leads) :
        Rows(chunk, leads)[x] = Created(PlanFor(chunk, x), leads)
  BY DEF Rows
<1>3. \A p : Created(p, leads) = [c \in DOMAIN Created(p, leads) |-> Created(p, leads)[c]]
  BY DEF Created
<1> QED
  BY <1>1, <1>2, <1>3 DEF Recorded

LEMMA UpdatedRecords ==
  ASSUME NEW y, NEW e, e = [c \in DOMAIN e |-> e[c]], people' = [people EXCEPT ![y] = e],
         Recorded(people)
  PROVE  Recorded(people')
<1>1. /\ DOMAIN people' = DOMAIN people /\ (y \in DOMAIN people => people'[y] = e)
      /\ \A x \in DOMAIN people \ {y} : people'[x] = people[x]
  OBVIOUS
<1> QED
  BY <1>1 DEF Recorded

LEMMA NextAsked ==
  ASSUME Accounts, Planning, Addressed, AInv, [Next]_vars PROVE AInv'
<1>1. ASSUME NEW r \in Runs, Step(r) PROVE AInv'
  <2>0. DOMAIN run = Runs /\ Asked(run[r]) /\ Recorded(people)
    BY DEF Accounts, AInv
  <2>1. CASE Starts(r) \/ ReadsUsers(r) \/ ReadsProfiles(r) \/ Dies(r)
    <3>1. Moved(r) /\ Asked(run'[r])
      BY <2>1, ReadsKeepPlans, ReadsAsked
    <3>2. UNCHANGED people
      BY <2>1 DEF Starts, ReadsUsers, ReadsProfiles, Dies
    <3> QED
      BY <2>0, <3>1, <3>2, AllAsked DEF AInv
  <2>2. CASE WritesUniversity(r)
    <3>1. /\ Moved(r) /\ UNCHANGED people
          /\ run'[r].snap = run[r].snap /\ run'[r].plan = run[r].plan /\ run'[r].pc = run[r].pc
      BY <2>2, UniversityIsWritten
    <3> QED
      BY <2>0, <3>1, AllAsked, AskedOnward DEF AInv
  <2>3. CASE ReadsManagers(r) \/ RereadsManagers(r)
    <3>1. /\ Moved(r) /\ UNCHANGED people /\ run[r].pc \in {"universities", "MANAGER"}
          /\ run'[r].snap = run[r].snap /\ run'[r].plan = run[r].plan
      BY <2>3, PhaseStarts
    <3> QED
      BY <2>0, <3>1, AllAsked, AskedOnward DEF AInv
  <2>4. CASE FindsHeir(r) \/ Promotes(r) \/ Ends(r)
    <3>1. /\ Moved(r) /\ UNCHANGED people
          /\ run'[r].pc = run[r].pc \/ run[r].pc = "INSTRUCTOR"
          /\ run'[r].snap = run[r].snap /\ run'[r].plan = run[r].plan
      BY <2>4, OwnersAreFound
    <3> QED
      BY <2>0, <3>1, AllAsked, AskedOnward DEF AInv
  <2>5. CASE WritesChunk(r) \/ RetriesOne(r) \/ UpdatesOne(r)
    <3>1. Moved(r) /\ Onward(run'[r], run[r])
      BY <2>5, ChunkIsWritten, OneIsRetried, OneIsUpdated
    <3>2. /\ run'[r].snap = run[r].snap /\ run'[r].plan = run[r].plan
          /\ run'[r].pc = run[r].pc
      BY <3>1 DEF Onward
    <3>3. \/ UNCHANGED people
          \/ \E chunk, leads : Creates(chunk, leads)
          \/ \E p, leads : people' = [people EXCEPT ![p.id] = Updated(p, leads)]
      <4>1. CASE WritesChunk(r)
        BY <4>1, ChunkIsWritten
      <4>2. CASE RetriesOne(r)
        BY <4>2, OneIsRetried
      <4>3. CASE UpdatesOne(r)
        BY <4>3, OneIsUpdated
      <4> QED
        BY <2>5, <4>1, <4>2, <4>3
    <3>4. Recorded(people')
      <4>1. ASSUME NEW p, NEW leads PROVE Updated(p, leads)
                     = [c \in DOMAIN Updated(p, leads) |-> Updated(p, leads)[c]]
        BY DEF Updated
      <4>2. CASE UNCHANGED people
        BY <2>0, <4>2
      <4>3. CASE \E chunk, leads : Creates(chunk, leads)
        BY <2>0, <4>3, CreatesRecords
      <4>4. CASE \E p, leads : people' = [people EXCEPT ![p.id] = Updated(p, leads)]
        <5>1. PICK p, leads : people' = [people EXCEPT ![p.id] = Updated(p, leads)]
          BY <4>4
        <5> QED
          BY <2>0, <4>1, <5>1, UpdatedRecords
      <4> QED
        BY <3>3, <4>2, <4>3, <4>4
    <3> QED
      BY <2>0, <3>1, <3>2, <3>4, AllAsked, AskedOnward DEF AInv
  <2> QED
    BY <1>1, <2>1, <2>2, <2>3, <2>4, <2>5 DEF Step
<1>2. CASE OpensAccount
  <2>1. UNCHANGED <<file, run>> /\ \E chunk, leads : Creates(chunk, leads)
    BY <1>2 DEF OpensAccount
  <2> QED
    BY <2>1, CreatesRecords DEF AInv, Asked
<1>3. CASE OpensUniversity \/ UNCHANGED vars
  <2>1. UNCHANGED <<file, run, people>>
    BY <1>3 DEF OpensUniversity, vars
  <2> QED
    BY <2>1 DEF AInv, Asked
<1> QED
  BY <1>1, <1>2, <1>3 DEF Next

LEMMA InitAsked == Init => AInv
<1> SUFFICES ASSUME Init PROVE AInv
  OBVIOUS
<1>1. Recorded(people)
  BY RecordsAssumption DEF Init, Recorded
<1>2. Asked(Idle)
  BY DEF Asked, Idle, NothingRead
<1> QED
  BY <1>1, <1>2 DEF AInv, Init

\* A run that has done all it planned for a file that is straight.
Carried(s) ==
  /\ PlansFit(s.plan, s.snap) /\ Remains(s, people) /\ Straight(s)
  /\ \A p \in People(s.plan) : Done(p, s, people)

LEMMA CleanIsCarried ==
  ASSUME Planning, CInv, NEW r \in Runs, Clean(r), Straight(run[r])
  PROVE  Carried(run[r])
<1> DEFINE s == run[r]
<1>1. /\ s.pc = "ended" /\ s.tally.failed = 0 /\ Plans(s) /\ Written(s)
      /\ Remains(s, people) /\ Tended(s, people) /\ PlansFit(s.plan, s.snap)
  BY DEF Clean, CInv, Importing, Planning, Plans, InHand
<1>2. ToSet(<<>>) = {}
  BY DEF ToSet
<1>3. InPlace(s.plan, s.snap) /\ None \notin DOMAIN s.snap.profiles
  BY <1>1 DEF Straight, Remains, Snapshot
<1>4. ASSUME NEW p \in People(s.plan) PROVE Done(p, s, people)
  <2>1. CASE p.action = "unchanged"
    <3>1. p.id \in DOMAIN s.snap.profiles
      BY <1>1, <1>3, <2>1, IsAccount
    <3>2. Settled(p, s.snap)
      BY <1>3, <3>1 DEF Settled, Straight
    <3> QED
      BY <1>1, <1>3, <2>1, <3>2, UnchangedIs DEF Done
  <2>2. CASE p.action # "unchanged"
    BY <1>1, <1>2, <1>3, <2>2 DEF Tended, Untroubled, Begun, Written
  <2> QED
    BY <2>1, <2>2
<1> QED
  BY <1>1, <1>4 DEF Carried

\* A row names somebody by something, and finds nobody only by an address.
LEMMA RowNames ==
  ASSUME NEW c, NEW lead, NEW snap, ~Refused(c, snap), Names(c), None \notin DOMAIN snap.profiles
  PROVE  LET p == PersonPlan(c, lead, snap)
         IN /\ c.email # None \/ c.code # None
            /\ p.id = None => c.email # None
            /\ p.id # None => p.id \in ByCode(c, snap) \cup ByUser(c, snap)
            /\ c.email # None => <<c.uni, "EMAIL", c.email>> \in NamesOf(p)
            /\ c.code # None => <<c.uni, "CODE", c.code>> \in NamesOf(p)
            /\ p.id # None => <<c.uni, "ID", p.id>> \in NamesOf(p)
            /\ \A k \in NamesOf(p) : k[1] = c.uni
<1> DEFINE p == PersonPlan(c, lead, snap)
           E == Existing(c, snap)
<1>1. /\ p.uni = c.uni /\ p.email = c.email /\ p.code = c.code
      /\ p.id = IF E = {} THEN None ELSE CHOOSE x \in E : TRUE
  BY DEF PersonPlan
<1>2. E \subseteq ByCode(c, snap) \cup ByUser(c, snap)
  BY DEF Existing
<1>3. E = {} => c.email # None
  BY DEF Refused
<1>4. E # {} => c.email # None \/ c.code # None
  <2>1. E \subseteq DOMAIN snap.profiles
    BY DEF Existing, ByCode, ByUser
  <2> QED
    BY <1>2, <2>1 DEF ByCode, ByUser
<1>5. E # {} => p.id \in E
  BY <1>1
<1>6. E \subseteq DOMAIN snap.profiles
  BY DEF Existing, ByCode, ByUser
<1> HIDE DEF p, E
<1>7. /\ c.email # None => <<c.uni, "EMAIL", c.email>> \in NamesOf(p)
      /\ c.code # None => <<c.uni, "CODE", c.code>> \in NamesOf(p)
      /\ p.id # None => <<c.uni, "ID", p.id>> \in NamesOf(p)
  BY <1>1, KeysAreThree DEF NamesOf
<1>8. \A k \in NamesOf(p) : k[1] = c.uni
  BY <1>1, NamesAreThree
<1>9. /\ p.id = None => c.email # None
      /\ p.id # None => p.id \in ByCode(c, snap) \cup ByUser(c, snap)
  BY <1>1, <1>2, <1>3, <1>5, <1>6
<1> QED
  BY <1>3, <1>4, <1>7, <1>8, <1>9 DEF p

\* Whoever a row is about is the account of the plan that holds its names, by which
\* the row found them, unless the run has created them.
LEMMA RowOwner ==
  ASSUME CodesUnique(people), Addressed, NEW s, Carried(s),
         NEW c, ~Refused(c, s.snap), Names(c), InOnePlan(c, s), NEW lead
  PROVE  \E x :
           /\ AboutAccount(c, x)
           /\ \/ /\ PersonPlan(c, lead, s.snap).id = x /\ x \in DOMAIN s.snap.profiles
                 /\ c.email # None => x \in DOMAIN s.snap.users
              \/ /\ PersonPlan(c, lead, s.snap).id = None /\ c.email = x
                 /\ x \notin DOMAIN s.snap.profiles
<1> DEFINE p == PersonPlan(c, lead, s.snap)
           P == s.snap.profiles
<1>0. /\ PlansFit(s.plan, s.snap) /\ Remains(s, people) /\ Straight(s)
      /\ Snapshot(s.snap) /\ None \notin DOMAIN P /\ InPlace(s.plan, s.snap)
  BY DEF Carried, Remains, Snapshot, Straight
<1>1. PICK q \in People(s.plan) : q.kind = c.kind /\ NamesOf(p) \subseteq q.keys
  <2>1. NamesOf(p) = NamesOf(PersonPlan(c, None, s.snap))
    BY DEF NamesOf, KeysOf, PersonPlan
  <2> QED
    BY <2>1 DEF InOnePlan
<1> DEFINE x == AccountOf(q)
<1>2. /\ Done(q, s, people) /\ Is(q, s.plan, s.snap, people)
      /\ q.id # None => OneAddress(q, s.snap)
      /\ \A j, k \in q.keys : j[2] = k[2] => j = k
  BY <1>0 DEF Carried, Done, Straight
<1>3. /\ Sound(q, c.kind, s.snap) /\ OwnNames(q)
  <2>1. \E kind : Sound(q, kind, s.snap) /\ OwnNames(q)
    BY <1>0 DEF PlansFit, PeoplePlanned, People, ToSet, IsList
  <2> QED
    BY <1>1, <2>1 DEF Sound
<1>4. /\ c.email # None \/ c.code # None
      /\ p.id = None => c.email # None
      /\ p.id # None => p.id \in ByCode(c, s.snap) \cup ByUser(c, s.snap)
      /\ c.email # None => <<c.uni, "EMAIL", c.email>> \in NamesOf(p)
      /\ c.code # None => <<c.uni, "CODE", c.code>> \in NamesOf(p)
      /\ p.id # None => <<c.uni, "ID", p.id>> \in NamesOf(p)
      /\ \A k \in NamesOf(p) : k[1] = c.uni
  BY <1>0, RowNames
<1> HIDE DEF p
<1>5. q.uni = c.uni
  BY <1>1, <1>3, <1>4 DEF Sound
<1>6. x \in DOMAIN people /\ people[x].kind = c.kind
  BY <1>1, <1>2 DEF Is
<1>7. c.code # None => people[x].code = c.code
  <2> SUFFICES ASSUME c.code # None PROVE people[x].code = c.code
    OBVIOUS
  <2>1. <<c.uni, "CODE", c.code>> \in q.keys
    BY <1>1, <1>4
  <2>2. q.code # None /\ <<q.uni, "CODE", q.code>> \in q.keys
    BY <1>3, <2>1 DEF OwnNames
  <2>3. q.code = c.code
    BY <1>2, <2>1, <2>2
  <2> QED
    BY <1>2, <2>2, <2>3 DEF Is
<1>8. CASE q.action # "create"
  <2>1. x = q.id /\ q.id \in DOMAIN P /\ <<q.uni, "ID", q.id>> \in q.keys /\ q.id # None
    BY <1>0, <1>3, <1>8 DEF Sound, AccountOf
  <2>2. P[x].uni = q.uni /\ people[x].uni = q.uni
    BY <1>0, <2>1 DEF InPlace, Remains
  <2>3. c.email # None => c.email = x /\ x \in DOMAIN s.snap.users
    BY <1>1, <1>2, <1>4, <2>1 DEF OneAddress
  <2>4. p.id = x
    <3>1. p.id # None => p.id = x
      BY <1>1, <1>2, <1>4, <2>1
    <3>2. p.id = None => p.id = x
      <4> SUFFICES ASSUME p.id = None PROVE FALSE
        OBVIOUS
      <4>1. x \in ByUser(c, s.snap)
        BY <1>1, <1>3, <1>4, <2>1, <2>3 DEF ByUser, Sound
      <4>2. Existing(c, s.snap) # {}
        BY <4>1 DEF Existing
      <4>3. p.id \in Existing(c, s.snap)
        BY <4>2 DEF p, PersonPlan
      <4> QED
        BY <1>0, <4>3 DEF Existing, ByCode, ByUser
    <3> QED
      BY <3>1, <3>2
  <2> QED
    BY <1>4, <1>5, <1>6, <1>7, <2>1, <2>2, <2>3, <2>4 DEF AboutAccount, p
<1>9. CASE q.action = "create"
  <2>1. /\ x = q.email /\ q.email # None /\ x \notin DOMAIN P
        /\ <<q.uni, "EMAIL", q.email>> \in q.keys
    BY <1>0, <1>2, <1>3, <1>9, IsAccount DEF OwnNames, Done
  <2>2. people[x].uni = q.uni
    BY <1>2, <1>9 DEF Is
  <2>3. c.email # None => c.email = x
    BY <1>1, <1>2, <1>4, <2>1
  <2>4. AboutAccount(c, x)
    BY <1>4, <1>5, <1>6, <1>7, <2>2, <2>3 DEF AboutAccount
  <2>5. ASSUME p.id # None PROVE FALSE
    <3> DEFINE y == p.id
    <3>1. <<q.uni, "ID", y>> \in q.keys
      BY <1>1, <1>4, <1>5, <2>5
    <3>2. CASE y \in ByCode(c, s.snap)
      <4>1. /\ y \in DOMAIN P /\ c.code # None /\ P[y].code = c.code
            /\ P[y].kind = c.kind /\ P[y].uni = c.uni
        BY <3>2 DEF ByCode
      <4>2. ASSUME NEW o \in People(s.plan), o.action = "update", o.id = y PROVE FALSE
        <5>1. \E kind : Sound(o, kind, s.snap)
          BY <1>0, PlannedPeople DEF People
        <5>2. /\ P[y].kind = o.kind /\ o.kind = q.kind
              /\ <<o.uni, "ID", y>> \in o.keys
          BY <1>1, <4>1, <4>2, <5>1 DEF Sound
        <5>3. o.uni = q.uni
          <6>1. o.id # None
            BY <1>0, <4>1, <4>2
          <6> QED
            BY <1>0, <1>5, <4>1, <4>2, <6>1 DEF InPlace
        <5>4. o.keys \cap q.keys # {}
          BY <3>1, <5>2, <5>3
        <5>5. o = q
          <6>1. \A a \in ToSet(s.plan.managers), b \in ToSet(s.plan.managers) :
                  a.keys \cap b.keys # {} => a = b
            <7>1. IsList(s.plan.managers) /\ Apart(s.plan.managers)
              BY <1>0 DEF PlansFit, PeoplePlanned
            <7> QED
              BY <7>1, ListMembers DEF Apart
          <6>2. \A a \in ToSet(s.plan.instructors), b \in ToSet(s.plan.instructors) :
                  a.keys \cap b.keys # {} => a = b
            <7>1. IsList(s.plan.instructors) /\ Apart(s.plan.instructors)
              BY <1>0 DEF PlansFit, PeoplePlanned
            <7> QED
              BY <7>1, ListMembers DEF Apart
          <6>3. /\ \A a \in ToSet(s.plan.managers) : a.kind = "MANAGER"
                /\ \A a \in ToSet(s.plan.instructors) : a.kind = "INSTRUCTOR"
            BY <1>0, PlannedPeople DEF Sound
          <6> QED
            BY <5>2, <5>4, <6>1, <6>2, <6>3 DEF People
        <5> QED
          BY <1>9, <4>2, <5>5
      <4>3. y \in DOMAIN people /\ people[y] = P[y]
        BY <1>0, <4>1, <4>2 DEF Remains
      <4>4. x = y
        BY <1>5, <1>6, <1>7, <2>2, <4>1, <4>3 DEF CodesUnique
      <4> QED
        BY <2>1, <4>1, <4>4
    <3>3. CASE y \in ByUser(c, s.snap)
      <4>1. y = c.email /\ y \in DOMAIN P
        BY <3>3 DEF ByUser
      <4> QED
        BY <2>1, <2>3, <2>5, <4>1
    <3> QED
      BY <1>4, <2>5, <3>2, <3>3
  <2>6. p.id = None /\ c.email = x
    BY <1>4, <2>3, <2>5
  <2> QED
    BY <2>1, <2>4, <2>6 DEF p
<1> QED
  BY <1>8, <1>9

\* The rows of people of one kind, the plans that each of them makes on its own, and
\* the plans of that kind of the file.
Kinds == {"MANAGER", "INSTRUCTOR"}

RowsOf(kind, rows) ==
  [m \in 1..Len(rows) |->
     IF kind = "MANAGER" THEN ManagerOf(rows[m]) ELSE InstructorOf(rows[m])]

RowPlans(kind, rows, snap) ==
  [m \in 1..Len(rows) |->
     PersonPlan(RowsOf(kind, rows)[m], IF kind = "MANAGER" THEN None ELSE rows[m].mcode,
                snap)]

PlansIn(plan, kind) == IF kind = "MANAGER" THEN plan.managers ELSE plan.instructors

Speaking(kind, rows) == {m \in 1..Len(rows) : Names(RowsOf(kind, rows)[m])}

LEMMA RowsOfKind ==
  ASSUME NEW rows, NEW kind \in Kinds, NEW m \in 1..Len(rows)
  PROVE  LET c == RowsOf(kind, rows)[m]
         IN /\ c.kind = kind /\ c.uni = rows[m].uni
            /\ c.email \in {rows[m].memail, rows[m].iemail}
            /\ kind = "MANAGER" => c = ManagerOf(rows[m])
            /\ kind = "INSTRUCTOR" => c = InstructorOf(rows[m])
BY DEF RowsOf, Kinds, ManagerOf, InstructorOf

LEMMA RowPlansColumns ==
  ASSUME NEW rows, NEW kind, NEW snap, NEW m \in 1..Len(rows)
  PROVE  LET p == RowPlans(kind, rows, snap)[m]
             c == RowsOf(kind, rows)[m]
         IN /\ DOMAIN p = PlanColumns /\ p.action \in Actions
            /\ p.kind = c.kind /\ p.uni = c.uni /\ p.email = c.email /\ p.code = c.code
            /\ p.name = c.name /\ p.status = c.status
            /\ p.lead = IF kind = "MANAGER" THEN None ELSE rows[m].mcode
            /\ p.action = "create" <=> Existing(c, snap) = {}
            /\ p.id # None => Existing(c, snap) # {}
            /\ p.action = "update" => WouldChange(c, snap)
            /\ WouldChange(c, snap) => p.action # "unchanged"
<1> DEFINE c == RowsOf(kind, rows)[m]
           lead == IF kind = "MANAGER" THEN None ELSE rows[m].mcode
<1>1. RowPlans(kind, rows, snap)[m] = PersonPlan(c, lead, snap)
  BY DEF RowPlans
<1> HIDE DEF c, lead
<1> QED
  BY <1>1 DEF PersonPlan, PlanColumns, Actions, c, lead

LEMMA FoldKind ==
  ASSUME NEW rows, Len(rows) \in Nat, NEW snap, NEW F, NoneRefused(F, rows, snap),
         NEW kind \in Kinds, NEW own, DOMAIN own = Speaking(kind, rows),
         SharesNames(own, RowPlans(kind, rows, snap))
  PROVE  PlanEach(PlansIn(F[Len(rows)], kind), own, RowPlans(kind, rows, snap), Len(rows))
<1> DEFINE N == Len(rows)
           p == RowPlans(kind, rows, snap)
           g == [i \in 0..N |-> PlansIn(F[i], kind)]
<1>1. g[0] = <<>> /\ g[N] = PlansIn(F[N], kind)
  BY DEF NoneRefused, NothingPlanned, PlansIn
<1>2. ASSUME NEW m \in 1..N
      PROVE  g[m] = IF m \in DOMAIN own THEN Merge(g[m - 1], p[m]) ELSE g[m - 1]
  <2>1. m \in 0..N /\ m - 1 \in 0..N
    OBVIOUS
  <2>2. Adds(F[m - 1], F[m], rows[m], snap)
    BY DEF NoneRefused
  <2>3. g[m] = PlansIn(F[m], kind) /\ g[m - 1] = PlansIn(F[m - 1], kind)
    BY <2>1
  <2>4. m \in DOMAIN own <=> Names(RowsOf(kind, rows)[m])
    BY DEF Speaking
  <2>5. p[m] = PersonPlan(RowsOf(kind, rows)[m],
                          IF kind = "MANAGER" THEN None ELSE rows[m].mcode, snap)
    BY DEF RowPlans
  <2> HIDE DEF g, p
  <2>6. CASE kind = "MANAGER"
    <3>1. RowsOf(kind, rows)[m] = ManagerOf(rows[m])
      BY <2>6, RowsOfKind
    <3>2. F[m].managers = Merged(F[m - 1].managers, ManagerOf(rows[m]), None, snap)
      BY <2>2 DEF Adds
    <3> QED
      BY <2>3, <2>4, <2>5, <2>6, <3>1, <3>2 DEF Merged, PlansIn
  <2>7. CASE kind = "INSTRUCTOR"
    <3>1. RowsOf(kind, rows)[m] = InstructorOf(rows[m])
      BY <2>7, RowsOfKind
    <3>2. F[m].instructors
            = Merged(F[m - 1].instructors, InstructorOf(rows[m]), rows[m].mcode, snap)
      BY <2>2 DEF Adds
    <3> QED
      BY <2>3, <2>4, <2>5, <2>7, <3>1, <3>2 DEF Merged, PlansIn
  <2> QED
    BY <2>6, <2>7 DEF Kinds
<1>3. \A m \in DOMAIN own : DOMAIN p[m] = PlanColumns /\ p[m].action \in Actions
  BY RowPlansColumns DEF Speaking
<1>4. DOMAIN own \subseteq 1..N
  BY DEF Speaking
<1> HIDE DEF g, p
<1>5. SharesNames(own, p)
  BY DEF p
<1>6. PlanEach(g[N], own, p, N)
  BY <1>1, <1>2, <1>3, <1>4, <1>5, FoldPlanEach
<1> QED
  BY <1>1, <1>6 DEF p

\* Whom each row is about.
OwnsRow(c, p, x, snap) ==
  /\ AboutAccount(c, x)
  /\ \/ /\ p.id = x /\ x \in DOMAIN snap.profiles
        /\ c.email # None => x \in DOMAIN snap.users
     \/ /\ p.id = None /\ c.email = x
        /\ x \notin DOMAIN snap.profiles

OwnsRows(own, kind, snap) ==
  /\ DOMAIN own = Speaking(kind, file)
  /\ \A m \in DOMAIN own :
       OwnsRow(RowsOf(kind, file)[m], RowPlans(kind, file, snap)[m], own[m], snap)

LEMMA RowIsRead ==
  ASSUME NEW rows, NEW snap, NEW F, NoneRefused(F, rows, snap), NEW kind \in Kinds,
         NEW m \in Speaking(kind, rows)
  PROVE  ~Refused(RowsOf(kind, rows)[m], snap)
<1>1. m \in 1..Len(rows) /\ Names(RowsOf(kind, rows)[m])
  BY DEF Speaking
<1>2. Unrefused(ManagerOf(rows[m]), snap) /\ Unrefused(InstructorOf(rows[m]), snap)
  BY <1>1 DEF NoneRefused, Allowed
<1> QED
  BY <1>1, <1>2, RowsOfKind DEF Unrefused, Kinds

LEMMA OwnersExist ==
  ASSUME CodesUnique(people), Addressed, NEW s, Carried(s), NEW F,
         NoneRefused(F, file, s.snap), \A i \in 1..Len(file) : file[i] \in ToSet(file),
         NEW kind \in Kinds
  PROVE  \E own : OwnsRows(own, kind, s.snap)
<1> DEFINE c == RowsOf(kind, file)
           p == RowPlans(kind, file, s.snap)
           own == [m \in Speaking(kind, file) |->
                     CHOOSE x : OwnsRow(c[m], p[m], x, s.snap)]
<1>1. ASSUME NEW m \in Speaking(kind, file) PROVE \E x : OwnsRow(c[m], p[m], x, s.snap)
  <2>1. m \in 1..Len(file) /\ Names(c[m]) /\ ~Refused(c[m], s.snap)
    BY RowIsRead DEF Speaking
  <2>2. InOnePlan(c[m], s)
    <3>1. Straight(s) /\ file[m] \in ToSet(file)
      BY <2>1 DEF Carried
    <3>2. InOnePlan(ManagerOf(file[m]), s) /\ InOnePlan(InstructorOf(file[m]), s)
      BY <3>1 DEF Straight
    <3> QED
      BY <2>1, <3>2, RowsOfKind DEF Kinds
  <2> DEFINE lead == IF kind = "MANAGER" THEN None ELSE file[m].mcode
  <2>3. p[m] = PersonPlan(c[m], lead, s.snap)
    BY <2>1 DEF RowPlans
  <2> HIDE DEF c, p, lead
  <2> QED
    BY <2>1, <2>2, <2>3, RowOwner DEF OwnsRow
<1>2. \A m \in Speaking(kind, file) : OwnsRow(c[m], p[m], own[m], s.snap)
  <2> HIDE DEF c, p
  <2> QED
    BY <1>1
<1>3. DOMAIN own = Speaking(kind, file)
  OBVIOUS
<1> HIDE DEF own
<1>4. OwnsRows(own, kind, s.snap)
  BY <1>2, <1>3 DEF OwnsRows
<1> QED
  BY <1>4

\* The plans of the first run, ...
LEMMA FirstPlans ==
  ASSUME CodesUnique(people), Addressed, Len(file) \in Nat, NEW snap, NEW F,
         NoneRefused(F, file, snap), NEW kind \in Kinds, NEW own, OwnsRows(own, kind, snap)
  PROVE  PlanEach(PlansIn(F[Len(file)], kind), own, RowPlans(kind, file, snap), Len(file))
<1> DEFINE c == RowsOf(kind, file)
           p == RowPlans(kind, file, snap)
           S == DOMAIN snap.profiles
<1>1. DOMAIN own = Speaking(kind, file)
  BY DEF OwnsRows
<1>2. Identified(own, kind, c, p, S)
  <2> SUFFICES ASSUME NEW m \in DOMAIN own
               PROVE  /\ AboutAccount(c[m], own[m]) /\ c[m].kind = kind
                      /\ p[m].uni = c[m].uni /\ p[m].email = c[m].email
                      /\ p[m].code = c[m].code
                      /\ \/ p[m].id = own[m] /\ own[m] \in S
                         \/ /\ p[m].id = None /\ c[m].email = own[m]
                            /\ own[m] \notin S
    BY DEF Identified
  <2>1. m \in 1..Len(file) /\ OwnsRow(c[m], p[m], own[m], snap)
    BY <1>1 DEF OwnsRows, Speaking
  <2> QED
    BY <2>1, RowsOfKind, RowPlansColumns DEF OwnsRow
<1> HIDE DEF c, p, S
<1>3. SharesNames(own, p)
  BY <1>2, RowsShareNames
<1> QED
  BY <1>1, <1>3, FoldKind DEF p

\* What the next run reads.
Reread ==
  LET named == UniversitiesRead(file, universities)
  IN [universities |-> named, users |-> UsersRead(file, people),
      profiles |-> ProfilesRead(named, people), holders |-> CodesHeld(people)]

LEMMA RereadIs ==
  ASSUME \A m \in 1..Len(file) : file[m] \in ToSet(file)
  PROVE  /\ ReadAgain(Reread)
         /\ DOMAIN Reread.universities \subseteq DOMAIN universities
         /\ \A u \in DOMAIN Reread.universities : Reread.universities[u] = universities[u].name
         /\ \A m \in 1..Len(file) :
              /\ file[m].uni \in DOMAIN universities => file[m].uni \in DOMAIN Reread.universities
              /\ \A e \in {file[m].memail, file[m].iemail} :
                   e \in DOMAIN people => e \in DOMAIN Reread.users
<1> DEFINE named == UniversitiesRead(file, universities)
           users == UsersRead(file, people)
           profiles == ProfilesRead(named, people)
           asked == UNION {{row.memail, row.iemail} : row \in ToSet(file)}
<1>1. /\ Reread.universities = named /\ Reread.users = users /\ Reread.profiles = profiles
  BY DEF Reread
<1>2. /\ DOMAIN named = {row.uni : row \in ToSet(file)} \cap DOMAIN universities
      /\ \A u \in DOMAIN named : named[u] = universities[u].name
  BY DEF UniversitiesRead
<1>3. /\ DOMAIN users = asked \cap DOMAIN people
      /\ \A x \in DOMAIN users : users[x] = people[x]
  BY DEF UsersRead
<1>4. /\ DOMAIN profiles = {y \in DOMAIN people : people[y].uni \in DOMAIN named}
      /\ \A x \in DOMAIN profiles : profiles[x] = people[x]
  BY DEF ProfilesRead
<1>5. \A m \in 1..Len(file) : file[m].memail \in asked /\ file[m].iemail \in asked
  OBVIOUS
<1> HIDE DEF named, users, profiles, asked
<1>6. ReadAgain(Reread)
  BY <1>1, <1>3, <1>4 DEF ReadAgain
<1> QED
  BY <1>1, <1>2, <1>3, <1>5, <1>6

\* A file all of whose universities are there.
AllOpen == \A m \in 1..Len(file) : file[m] \in ToSet(file) /\ file[m].uni \in DOMAIN universities

LEMMA RowAgain ==
  ASSUME CodesUnique(people), Addressed, AllOpen, NEW snap, NEW F,
         NoneRefused(F, file, snap), NEW kind \in Kinds, NEW own, OwnsRows(own, kind, snap),
         NEW m \in Speaking(kind, file)
  PROVE  LET c == RowsOf(kind, file)[m]
             p == RowPlans(kind, file, Reread)[m]
         IN /\ AboutAccount(c, own[m])
            /\ ~Refused(c, Reread) /\ Existing(c, Reread) = {own[m]}
            /\ c.code # None => ByCode(c, Reread) = {own[m]}
            /\ p.id = own[m] /\ p.action \in {"update", "unchanged"}
            /\ p.action = "update" => WouldChange(c, Reread)
<1> DEFINE c == RowsOf(kind, file)[m]
           lead == IF kind = "MANAGER" THEN None ELSE file[m].mcode
<1>1. /\ m \in 1..Len(file) /\ ~Refused(c, snap) /\ AboutAccount(c, own[m])
  BY RowIsRead DEF Speaking, OwnsRows, OwnsRow
<1>2. /\ c.uni = file[m].uni /\ c.email \in {file[m].memail, file[m].iemail}
  BY <1>1, RowsOfKind
<1>3. /\ ReadAgain(Reread) /\ c.uni \in DOMAIN Reread.universities
      /\ c.email \in DOMAIN people => c.email \in DOMAIN Reread.users
  BY <1>1, <1>2, RereadIs DEF AllOpen
<1>4. RowPlans(kind, file, Reread)[m] = PersonPlan(c, lead, Reread)
  BY <1>1 DEF RowPlans
<1> HIDE DEF c, lead
<1>5. /\ ~Refused(c, Reread) /\ Existing(c, Reread) = {own[m]}
      /\ c.code # None => ByCode(c, Reread) = {own[m]}
  BY <1>1, <1>3, AgainRow
<1> DEFINE p == RowPlans(kind, file, Reread)[m]
<1> HIDE DEF p
<1>6. /\ p.id = own[m] /\ p.action \in {"update", "unchanged"}
      /\ p.action = "update" => WouldChange(c, Reread)
  <2>1. LET q == PersonPlan(c, lead, Reread)
        IN /\ q.id = own[m] /\ q.action \in {"update", "unchanged"}
           /\ q.action = "update" => WouldChange(c, Reread)
    <3> DEFINE again == Reread
               x == own[m]
    <3>1. Existing(c, again) = {x}
      BY <1>5
    <3> HIDE DEF again, x
    <3>2. LET q == PersonPlan(c, lead, again)
          IN /\ q.id = x /\ q.action \in {"update", "unchanged"}
             /\ q.action = "update" => WouldChange(c, again)
      BY <3>1, AgainPlan
    <3> QED
      BY <3>2 DEF again, x
  <2> QED
    BY <1>4, <2>1 DEF p
<1> QED
  BY <1>1, <1>5, <1>6 DEF c, p

LEMMA SecondRead ==
  ASSUME CodesUnique(people), Addressed, AllOpen, Len(file) \in Nat, NEW snap, NEW F,
         NoneRefused(F, file, snap), \A kind \in Kinds : \E own : OwnsRows(own, kind, snap)
  PROVE  \E H : Resolve(file, Reread) = H[Len(file)] /\ NoneRefused(H, file, Reread)
<1>1. ASSUME NEW kind \in Kinds, NEW m \in 1..Len(file)
      PROVE  LET c == RowsOf(kind, file)[m]
             IN /\ Unrefused(c, Reread)
                /\ c.code # None => ByCode(c, Reread) # {}
  <2> DEFINE c == RowsOf(kind, file)[m]
  <2>1. PICK own : OwnsRows(own, kind, snap)
    OBVIOUS
  <2>2. CASE Names(c)
    <3>1. m \in Speaking(kind, file)
      BY <2>2 DEF Speaking
    <3>2. /\ ~Refused(c, Reread)
          /\ c.code # None => ByCode(c, Reread) = {own[m]}
      BY <2>1, <3>1, RowAgain
    <3> HIDE DEF c
    <3> QED
      BY <3>2 DEF Unrefused, c
  <2>3. CASE ~Names(c)
    BY <2>3 DEF Names, Unrefused
  <2> QED
    BY <2>2, <2>3
<1>2. ASSUME NEW m \in 1..Len(file)
      PROVE  /\ file[m].uni \in DOMAIN Reread.universities
             /\ Unrefused(ManagerOf(file[m]), Reread)
             /\ Unrefused(InstructorOf(file[m]), Reread)
             /\ file[m].mcode # None => ByCode(ManagerOf(file[m]), Reread) # {}
  <2>1. file[m].uni \in DOMAIN Reread.universities
    BY RereadIs DEF AllOpen
  <2>2. /\ RowsOf("MANAGER", file)[m] = ManagerOf(file[m])
        /\ RowsOf("INSTRUCTOR", file)[m] = InstructorOf(file[m])
    BY RowsOfKind DEF Kinds
  <2>3. ManagerOf(file[m]).code = file[m].mcode
    BY DEF ManagerOf
  <2>4. /\ Unrefused(RowsOf("MANAGER", file)[m], Reread)
        /\ Unrefused(RowsOf("INSTRUCTOR", file)[m], Reread)
        /\ RowsOf("MANAGER", file)[m].code # None =>
             ByCode(RowsOf("MANAGER", file)[m], Reread) # {}
    BY <1>1 DEF Kinds
  <2> QED
    BY <2>1, <2>2, <2>3, <2>4
<1> DEFINE again == Reread
<1>3. \A m \in 1..Len(file) :
        /\ file[m].uni \in DOMAIN again.universities
        /\ Unrefused(ManagerOf(file[m]), again) /\ Unrefused(InstructorOf(file[m]), again)
        /\ file[m].mcode # None => ByCode(ManagerOf(file[m]), again) # {}
  BY <1>2
<1> HIDE DEF again
<1>4. \E H : Resolve(file, again) = H[Len(file)] /\ NoneRefused(H, file, again)
  BY <1>3, AgainNoneRefused
<1> QED
  BY <1>4 DEF again

\* ... and those of the next, of the same rows.
LEMMA SecondPlans ==
  ASSUME CodesUnique(people), Addressed, AllOpen, Len(file) \in Nat, NEW snap, NEW F,
         NoneRefused(F, file, snap), NEW H, NoneRefused(H, file, Reread),
         NEW kind \in Kinds, NEW own, OwnsRows(own, kind, snap)
  PROVE  PlanEach(PlansIn(H[Len(file)], kind), own, RowPlans(kind, file, Reread), Len(file))
<1> DEFINE c == RowsOf(kind, file)
           again == Reread
           p == RowPlans(kind, file, again)
           S == DOMAIN people
<1>1. DOMAIN own = Speaking(kind, file)
  BY DEF OwnsRows
<1>2. Identified(own, kind, c, p, S)
  <2> SUFFICES ASSUME NEW m \in DOMAIN own
               PROVE  /\ AboutAccount(c[m], own[m]) /\ c[m].kind = kind
                      /\ p[m].uni = c[m].uni /\ p[m].email = c[m].email
                      /\ p[m].code = c[m].code
                      /\ p[m].id = own[m] /\ own[m] \in S
    BY DEF Identified
  <2>1. m \in 1..Len(file)
    BY <1>1 DEF Speaking
  <2>2. AboutAccount(c[m], own[m]) /\ p[m].id = own[m]
    BY <1>1, RowAgain
  <2>3. /\ c[m].kind = kind
        /\ p[m].uni = c[m].uni /\ p[m].email = c[m].email /\ p[m].code = c[m].code
    BY <2>1, RowsOfKind, RowPlansColumns
  <2> QED
    BY <2>2, <2>3 DEF AboutAccount
<1> HIDE DEF c, p, S, again
<1>3. SharesNames(own, p)
  BY <1>2, RowsShareNames
<1>4. NoneRefused(H, file, again)
  BY DEF again
<1> QED
  BY <1>1, <1>3, <1>4, FoldKind DEF p, again

\* A run of the file s, all of it carried out, and the file read once more: F and H
\* are what the first rows make, own whom each row is about.
Twice(s, F, H, own) ==
  /\ Carried(s) /\ s.plan = F[Len(file)] /\ Len(file) \in Nat /\ AllOpen
  /\ NoneRefused(F, file, s.snap) /\ NoneRefused(H, file, Reread)
  /\ \A kind \in Kinds :
       /\ OwnsRows(own[kind], kind, s.snap)
       /\ PlanEach(PlansIn(F[Len(file)], kind), own[kind],
                   RowPlans(kind, file, s.snap), Len(file))
       /\ PlanEach(PlansIn(H[Len(file)], kind), own[kind],
                   RowPlans(kind, file, Reread), Len(file))

RowsOn(own, kind, x) == RowsAbout(own[kind], x, Len(file))

\* What either plan is made of.
LEMMA RowsOnX ==
  ASSUME NEW s, NEW F, NEW H, NEW own, Twice(s, F, H, own), NEW kind \in Kinds, NEW x,
         NEW m \in RowsOn(own, kind, x)
  PROVE  LET c == RowsOf(kind, file)[m]
             p == RowPlans(kind, file, s.snap)[m]
         IN /\ m \in Speaking(kind, file) /\ m \in 1..Len(file) /\ own[kind][m] = x
            /\ OwnsRow(c, p, x, s.snap) /\ c.kind = kind /\ c.uni = file[m].uni
            /\ p.kind = kind /\ p.uni = people[x].uni /\ p.email = c.email /\ p.code = c.code
<1>1. OwnsRows(own[kind], kind, s.snap)
  BY DEF Twice
<1>2. m \in DOMAIN own[kind] /\ own[kind][m] = x /\ m \in Speaking(kind, file)
  BY <1>1 DEF RowsOn, RowsAbout, OwnsRows
<1>3. OwnsRow(RowsOf(kind, file)[m], RowPlans(kind, file, s.snap)[m], x, s.snap)
  BY <1>1, <1>2 DEF OwnsRows
<1>4. m \in 1..Len(file)
  BY <1>2 DEF Speaking
<1> DEFINE c == RowsOf(kind, file)[m]
           p == RowPlans(kind, file, s.snap)[m]
<1>5. c.kind = kind /\ c.uni = file[m].uni
  BY <1>4, RowsOfKind
<1>6. p.kind = c.kind /\ p.uni = c.uni /\ p.email = c.email /\ p.code = c.code
  BY <1>4, RowPlansColumns
<1>7. people[x].uni = c.uni
  BY <1>3 DEF OwnsRow, AboutAccount
<1> QED
  BY <1>2, <1>3, <1>4, <1>5, <1>6, <1>7

\* The first plan of x is x's.
LEMMA FirstOf ==
  ASSUME Addressed, NEW s, NEW F, NEW H, NEW own, Twice(s, F, H, own), NEW kind \in Kinds,
         NEW m \in Speaking(kind, file)
  PROVE  LET x == own[kind][m]
         IN \E q \in ToSet(PlansIn(s.plan, kind)) :
              /\ PlanOf(q, RowPlans(kind, file, s.snap), RowsOn(own, kind, x))
              /\ q.kind = kind /\ q.uni = people[x].uni /\ AccountOf(q) = x
              /\ Done(q, s, people)
              /\ q.id # None => x \in DOMAIN s.snap.profiles
<1> DEFINE x == own[kind][m]
           P == RowPlans(kind, file, s.snap)
           plans == PlansIn(s.plan, kind)
           R == RowsOn(own, kind, x)
<1>1. PlanEach(plans, own[kind], P, Len(file)) /\ DOMAIN own[kind] = Speaking(kind, file)
  BY DEF Twice, OwnsRows
<1>2. m \in DOMAIN own[kind] /\ m <= Len(file)
  BY <1>1 DEF Speaking, Twice
<1>3. PICK i \in 1..Len(plans) : PlanOf(plans[i], P, R)
  BY <1>1, <1>2 DEF PlanEach, RowsOn
<1> DEFINE q == plans[i]
<1>4. q \in ToSet(plans) /\ q \in People(s.plan)
  <2>1. IsList(plans)
    BY <1>1 DEF PlanEach
  <2>2. q \in ToSet(plans)
    BY <2>1, ListMembers
  <2> QED
    BY <2>2 DEF PlansIn, People
<1>5. Done(q, s, people)
  BY <1>4 DEF Twice, Carried
<1>6. PICK l \in R : q.id = P[l].id /\ q.uni = P[l].uni /\ q.kind = P[l].kind
  BY <1>3 DEF PlanOf
<1>7. /\ P[l].kind = kind /\ P[l].uni = people[x].uni /\ P[l].email = RowsOf(kind, file)[l].email
      /\ OwnsRow(RowsOf(kind, file)[l], P[l], x, s.snap)
  BY <1>6, RowsOnX
<1>8. x # None
  BY <1>7 DEF OwnsRow, AboutAccount, Addressed
<1>9. AccountOf(q) = x /\ (q.id # None => x \in DOMAIN s.snap.profiles)
  <2>1. CASE P[l].id = x /\ x \in DOMAIN s.snap.profiles
    BY <1>6, <1>8, <2>1 DEF AccountOf
  <2>2. CASE P[l].id = None /\ P[l].email = x
    <3>1. FirstSaid(q["email"], P, "email", R)
      BY <1>3 DEF PlanOf, Said
    <3>2. \A n \in R : P[n].email = None \/ P[n].email = x
      <4> TAKE n \in R
      <4>1. /\ P[n].email = RowsOf(kind, file)[n].email
            /\ OwnsRow(RowsOf(kind, file)[n], P[n], x, s.snap)
        BY RowsOnX
      <4> QED
        BY <4>1 DEF OwnsRow, AboutAccount
    <3>3. q.email = x
      BY <1>6, <1>8, <2>2, <3>1, <3>2 DEF FirstSaid
    <3> QED
      BY <1>6, <2>2, <3>3 DEF AccountOf
  <2> QED
    BY <1>7, <2>1, <2>2 DEF OwnsRow
<1> HIDE DEF P, plans
<1> QED
  BY <1>3, <1>4, <1>5, <1>6, <1>7, <1>9 DEF P, plans

\* The second plan of x finds x.
LEMMA SecondOf ==
  ASSUME CodesUnique(people), Addressed, NEW s, NEW F, NEW H, NEW own, Twice(s, F, H, own),
         NEW kind \in Kinds, NEW q \in ToSet(PlansIn(H[Len(file)], kind))
  PROVE  \E m \in Speaking(kind, file) :
           LET x == own[kind][m]
           IN /\ PlanOf(q, RowPlans(kind, file, Reread), RowsOn(own, kind, x))
              /\ q.id = x /\ q.uni = people[x].uni /\ q.action \in {"update", "unchanged"}
              /\ q.action = "update" =>
                   \E l \in RowsOn(own, kind, x) : WouldChange(RowsOf(kind, file)[l], Reread)
<1> DEFINE P == RowPlans(kind, file, Reread)
           plans == PlansIn(H[Len(file)], kind)
<1>1. PlanEach(plans, own[kind], P, Len(file))
  BY DEF Twice
<1>2. PICK x : PlanOf(q, P, RowsOn(own, kind, x))
  BY <1>1, ListMembers DEF PlanEach, RowsOn
<1> DEFINE R == RowsOn(own, kind, x)
<1>3. ASSUME NEW l \in R
      PROVE  /\ l \in Speaking(kind, file) /\ own[kind][l] = x
             /\ P[l].id = x /\ P[l].uni = people[x].uni /\ P[l].action \in {"update", "unchanged"}
             /\ P[l].action = "update" => WouldChange(RowsOf(kind, file)[l], Reread)
  <2>1. /\ l \in Speaking(kind, file) /\ l \in 1..Len(file) /\ own[kind][l] = x
        /\ OwnsRow(RowsOf(kind, file)[l], RowPlans(kind, file, s.snap)[l], x, s.snap)
    BY RowsOnX
  <2>2. /\ P[l].id = own[kind][l] /\ P[l].action \in {"update", "unchanged"}
        /\ P[l].action = "update" => WouldChange(RowsOf(kind, file)[l], Reread)
    BY <2>1, RowAgain DEF Twice
  <2>3. P[l].uni = RowsOf(kind, file)[l].uni
    BY <2>1, RowPlansColumns
  <2> QED
    BY <2>1, <2>2, <2>3 DEF OwnsRow, AboutAccount
<1>4. PICK m \in R : q.id = P[m].id /\ q.uni = P[m].uni /\ q.kind = P[m].kind
  BY <1>2 DEF PlanOf
<1>5. q.action # "unchanged" => \E l \in R : P[l].action = q.action
  BY <1>2 DEF PlanOf
<1>6. /\ q.action \in {"update", "unchanged"}
      /\ q.action = "update" => \E l \in R : WouldChange(RowsOf(kind, file)[l], Reread)
  BY <1>3, <1>5
<1>7. m \in Speaking(kind, file) /\ own[kind][m] = x /\ q.id = x /\ q.uni = people[x].uni
  BY <1>3, <1>4
<1> HIDE DEF P
<1> QED
  BY <1>2, <1>6, <1>7 DEF P

\* Both say the same.
LEMMA SaysTheSame ==
  ASSUME NEW s, NEW F, NEW H, NEW own, Twice(s, F, H, own), NEW kind \in Kinds, NEW x,
         NEW o, PlanOf(o, RowPlans(kind, file, s.snap), RowsOn(own, kind, x)),
         NEW q, PlanOf(q, RowPlans(kind, file, Reread), RowsOn(own, kind, x))
  PROVE  \A f \in Said : o[f] = q[f]
<1> DEFINE P == RowPlans(kind, file, s.snap)
           Q == RowPlans(kind, file, Reread)
           R == RowsOn(own, kind, x)
<1>1. \A l \in R : \A f \in Said : P[l][f] = Q[l][f]
  <2> TAKE l \in R
  <2>1. l \in 1..Len(file)
    BY RowsOnX
  <2> DEFINE c == RowsOf(kind, file)[l]
  <2>2. /\ P[l].name = c.name /\ P[l].email = c.email /\ P[l].code = c.code
        /\ P[l].status = c.status
        /\ P[l].lead = IF kind = "MANAGER" THEN None ELSE file[l].mcode
    BY <2>1, RowPlansColumns
  <2>3. /\ Q[l].name = c.name /\ Q[l].email = c.email /\ Q[l].code = c.code
        /\ Q[l].status = c.status
        /\ Q[l].lead = IF kind = "MANAGER" THEN None ELSE file[l].mcode
    BY <2>1, RowPlansColumns
  <2> HIDE DEF P, Q, c
  <2> QED
    BY <2>2, <2>3 DEF Said
<1>2. R \subseteq Nat
  <2>1. \A l \in R : l \in 1..Len(file)
    BY RowsOnX
  <2> QED
    BY <2>1
<1> HIDE DEF P, Q, R
<1>3. ASSUME NEW f \in Said PROVE o[f] = q[f]
  <2>1. FirstSaid(o[f], P, f, R) /\ FirstSaid(q[f], Q, f, R)
    BY DEF PlanOf, P, Q, R
  <2>2. FirstSaid(q[f], P, f, R)
    BY <1>1, <2>1 DEF FirstSaid
  <2> QED
    BY <1>2, <2>1, <2>2, FirstSaidOnce
<1> QED
  BY <1>3

\* Rows that asked for nothing of x ask for nothing again.
LEMMA NothingAsked ==
  ASSUME CodesUnique(people), Addressed, NEW s, NEW F, NEW H, NEW own,
         Twice(s, F, H, own), None \notin DOMAIN s.snap.users, NEW kind \in Kinds, NEW x,
         NEW o \in People(s.plan), AccountOf(o) = x, o.action = "unchanged",
         PlanOf(o, RowPlans(kind, file, s.snap), RowsOn(own, kind, x)),
         NEW l \in RowsOn(own, kind, x)
  PROVE  ~WouldChange(RowsOf(kind, file)[l], Reread)
<1> DEFINE c == RowsOf(kind, file)[l]
           p == RowPlans(kind, file, s.snap)[l]
           P == s.snap.profiles
<1>0. /\ PlansFit(s.plan, s.snap) /\ Remains(s, people) /\ InPlace(s.plan, s.snap)
      /\ Snapshot(s.snap) /\ None \notin DOMAIN P
  BY DEF Twice, Carried, Remains, Snapshot, Straight
<1>1. o.id = x /\ x \in DOMAIN P
  BY <1>0, IsAccount
<1>2. /\ l \in Speaking(kind, file) /\ l \in 1..Len(file) /\ own[kind][l] = x
      /\ OwnsRow(c, p, x, s.snap)
  BY RowsOnX
<1>3. /\ AboutAccount(c, x) /\ p.id = x /\ p.id # None
      /\ c.email # None => x \in DOMAIN s.snap.users
  BY <1>0, <1>1, <1>2 DEF OwnsRow
<1>4. ~WouldChange(c, s.snap)
  <2>1. p.action # "update"
    BY DEF PlanOf
  <2>2. p.action # "create" /\ p.action \in Actions
    <3>1. /\ p.action \in Actions /\ (p.action = "create" <=> Existing(c, s.snap) = {})
          /\ p.id # None => Existing(c, s.snap) # {}
      BY <1>2, RowPlansColumns
    <3> QED
      BY <1>3, <3>1
  <2>3. WouldChange(c, s.snap) => p.action # "unchanged"
    BY <1>2, RowPlansColumns
  <2> QED
    BY <2>1, <2>2, <2>3 DEF Actions
<1>5. people[x] = P[x]
  <2>1. ASSUME NEW q \in People(s.plan), q.action = "update", q.id = x PROVE FALSE
    <3>1. q = o
      BY <1>0, <1>1, <2>1, OnePlanEach
    <3> QED
      BY <2>1, <3>1
  <2> QED
    BY <1>0, <1>1, <2>1 DEF Remains
<1>6. /\ ReadAgain(Reread)
      /\ c.email \in DOMAIN people => c.email \in DOMAIN Reread.users
      /\ Existing(c, Reread) = {x}
  <2>1. c.email \in {file[l].memail, file[l].iemail}
    BY <1>2, RowsOfKind
  <2>2. Existing(c, Reread) = {x}
    BY <1>2, RowAgain DEF Twice
  <2>3. ReadAgain(Reread) /\ (c.email \in DOMAIN people => c.email \in DOMAIN Reread.users)
    BY <1>2, <2>1, RereadIs DEF Twice, AllOpen
  <2> QED
    BY <2>2, <2>3
<1> HIDE DEF c, p
<1>7. \A y \in {c.email} : /\ y \in DOMAIN s.snap.users <=> y \in DOMAIN Reread.users
                           /\ y \in DOMAIN Reread.users => Reread.users[y] = s.snap.users[y]
  <2>1. CASE c.email = None
    BY <1>6, <2>1 DEF ReadAgain, Addressed
  <2>2. CASE c.email # None
    <3>1. c.email = x /\ x \in DOMAIN s.snap.users /\ x \in DOMAIN people
      BY <1>3, <2>2 DEF AboutAccount
    <3>2. P[x] = s.snap.users[x]
      BY <1>0, <1>1, <3>1 DEF Snapshot
    <3>3. x \in DOMAIN Reread.users /\ Reread.users[x] = people[x]
      BY <1>6, <3>1 DEF ReadAgain
    <3> QED
      BY <1>5, <3>1, <3>2, <3>3
  <2> QED
    BY <2>1, <2>2
<1>8. {Reread.users[y] : y \in {c.email} \cap DOMAIN Reread.users}
        = {s.snap.users[y] : y \in {c.email} \cap DOMAIN s.snap.users}
  BY <1>7
<1>9. c.code # None => \E y \in Existing(c, Reread) : Reread.profiles[y].code = c.code
  <2>1. x \in DOMAIN Reread.profiles
    BY <1>6 DEF Existing, ByCode, ByUser
  <2>2. Reread.profiles[x] = people[x]
    BY <1>6, <2>1 DEF ReadAgain
  <2> QED
    BY <1>3, <1>6, <2>2 DEF AboutAccount
<1> QED
  BY <1>4, <1>8, <1>9 DEF WouldChange, c

LEMMA LeadRead ==
  ASSUME NEW linked, NEW k \in DOMAIN LeadsRead(linked)
  PROVE  LET y == LeadsRead(linked)[k]
         IN /\ y \in DOMAIN people /\ people[y].kind = "MANAGER" /\ people[y].code # None
            /\ k = <<people[y].uni, people[y].code>>
<1> DEFINE coded == {x \in DOMAIN people : /\ people[x].kind = "MANAGER"
                                           /\ people[x].uni \in linked
                                           /\ people[x].code # None}
           Key(x) == <<people[x].uni, people[x].code>>
<1>1. LeadsRead(linked) = [j \in {Key(x) : x \in coded} |-> CHOOSE x \in coded : Key(x) = j]
  BY DEF LeadsRead
<1>2. \E x \in coded : Key(x) = k
  BY <1>1
<1>3. LeadsRead(linked)[k] = CHOOSE x \in coded : Key(x) = k
  BY <1>1
<1>4. LeadsRead(linked)[k] \in coded /\ Key(LeadsRead(linked)[k]) = k
  BY <1>2, <1>3
<1> QED
  BY <1>4

\* The manager a written instructor's rows name is the one they have.
LEMMA LeadStands ==
  ASSUME CodesUnique(people), Addressed, NEW s, NEW F, NEW H, NEW own,
         Twice(s, F, H, own), NEW kind \in Kinds, NEW x,
         NEW o, Done(o, s, people), AccountOf(o) = x, o.uni = people[x].uni,
         o.action # "unchanged",
         PlanOf(o, RowPlans(kind, file, s.snap), RowsOn(own, kind, x)), o.lead # None,
         NEW y \in DOMAIN people, people[y].kind = "MANAGER", people[y].uni = o.uni,
         people[y].code = o.lead
  PROVE  people[x].lead = y
<1> DEFINE P == RowPlans(kind, file, s.snap)
           R == RowsOn(own, kind, x)
<1>1. PICK n \in R : P[n].lead = o.lead
  <2>1. FirstSaid(o["lead"], P, "lead", R)
    BY DEF PlanOf, Said
  <2> QED
    BY <2>1 DEF FirstSaid
<1>2. /\ n \in 1..Len(file) /\ file[n].uni = people[x].uni
  <2>1. /\ n \in 1..Len(file) /\ RowsOf(kind, file)[n].uni = file[n].uni
        /\ OwnsRow(RowsOf(kind, file)[n], P[n], x, s.snap)
    BY RowsOnX
  <2> QED
    BY <2>1 DEF OwnsRow, AboutAccount
<1>3. file[n].mcode = o.lead
  <2>1. P[n].lead = IF kind = "MANAGER" THEN None ELSE file[n].mcode
    BY <1>2, RowPlansColumns
  <2> QED
    BY <1>1, <2>1
<1> DEFINE M == RowPlans("MANAGER", file, s.snap)
           z == own["MANAGER"][n]
           T == RowsOn(own, "MANAGER", z)
<1>4. n \in Speaking("MANAGER", file) /\ RowsOf("MANAGER", file)[n].code = file[n].mcode
  <2>1. RowsOf("MANAGER", file)[n] = ManagerOf(file[n])
    BY <1>2, RowsOfKind DEF Kinds
  <2>2. ManagerOf(file[n]).code = file[n].mcode
    BY DEF ManagerOf
  <2> QED
    BY <1>2, <1>3, <2>1, <2>2 DEF Speaking, Names
<1>5. n \in T
  BY <1>2, <1>4 DEF Twice, OwnsRows, RowsOn, RowsAbout, Kinds
<1>6. ASSUME NEW i \in T
      PROVE  /\ z \in DOMAIN people /\ people[z].kind = "MANAGER"
             /\ people[z].uni = file[i].uni /\ M[i].code = RowsOf("MANAGER", file)[i].code
             /\ M[i].code # None => people[z].code = M[i].code
  <2>1. LET c == RowsOf("MANAGER", file)[i]
        IN /\ OwnsRow(c, M[i], z, s.snap) /\ c.kind = "MANAGER" /\ c.uni = file[i].uni
           /\ M[i].code = c.code
    BY RowsOnX DEF Kinds
  <2> QED
    BY <2>1 DEF OwnsRow, AboutAccount
<1>7. z = y
  BY <1>2, <1>3, <1>4, <1>5, <1>6 DEF CodesUnique
<1>8. PICK q \in ToSet(s.plan.managers) :
        PlanOf(q, M, T) /\ q.uni = people[z].uni /\ AccountOf(q) = z
  BY <1>4, FirstOf DEF Kinds, PlansIn
<1>9. q.code = o.lead
  <2>1. FirstSaid(q["code"], M, "code", T)
    BY <1>8 DEF PlanOf, Said
  <2>2. M[n].code # None
    BY <1>3, <1>4, <1>5, <1>6
  <2>3. PICK i \in T : M[i].code = q.code /\ q.code # None
    BY <1>5, <2>1, <2>2 DEF FirstSaid
  <2> QED
    BY <1>6, <1>7, <2>3
<1>10. q \in LeadAskedFor(s.plan, o)
  BY <1>7, <1>8, <1>9 DEF LeadAskedFor
<1>11. Settled(q, s.snap)
  <2>1. /\ PlansFit(s.plan, s.snap) /\ None \notin DOMAIN s.snap.profiles /\ Straight(s)
    BY DEF Twice, Carried, Remains, Snapshot
  <2>2. q \in People(s.plan)
    BY DEF People
  <2>3. q.action # "create" => q.id \in DOMAIN s.snap.profiles
    BY <2>1, <2>2, IsAccount
  <2> QED
    BY <2>1, <2>2, <2>3 DEF Settled, Straight
<1> QED
  BY <1>7, <1>8, <1>10, <1>11 DEF Done, Is

LEMMA SecondUpdate ==
  ASSUME CodesUnique(people), Addressed, Recorded(people), NEW s, NEW F, NEW H, NEW own,
         Twice(s, F, H, own), None \notin DOMAIN s.snap.users, NEW kind \in Kinds,
         NEW q \in ToSet(PlansIn(H[Len(file)], kind)), NEW linked
  PROVE  /\ q.action # "create"
         /\ q.action = "update" => Updated(q, LeadsRead(linked)) = people[q.id]
<1>1. PICK m \in Speaking(kind, file) :
           LET x == own[kind][m]
           IN /\ PlanOf(q, RowPlans(kind, file, Reread), RowsOn(own, kind, x))
              /\ q.id = x /\ q.uni = people[x].uni /\ q.action \in {"update", "unchanged"}
              /\ q.action = "update" =>
                   \E l \in RowsOn(own, kind, x) : WouldChange(RowsOf(kind, file)[l], Reread)
  BY SecondOf
<1> DEFINE x == own[kind][m]
           leads == LeadsRead(linked)
<1>2. PICK o \in ToSet(PlansIn(s.plan, kind)) :
              /\ PlanOf(o, RowPlans(kind, file, s.snap), RowsOn(own, kind, x))
              /\ o.kind = kind /\ o.uni = people[x].uni /\ AccountOf(o) = x
              /\ Done(o, s, people)
  BY FirstOf
<1>3. o \in People(s.plan)
  BY <1>2 DEF PlansIn, People
<1> SUFFICES ASSUME q.action = "update" PROVE Updated(q, leads) = people[x]
  BY <1>1
<1>4. /\ o.name = q.name /\ o.code = q.code /\ o.status = q.status /\ o.lead = q.lead
  <2>1. \A f \in Said : o[f] = q[f]
    BY <1>1, <1>2, SaysTheSame
  <2> QED
    BY <2>1 DEF Said
<1>5. o.action # "unchanged"
  BY <1>1, <1>2, <1>3, NothingAsked
<1>6. /\ Or(q.name, people[x].name) = people[x].name
      /\ Or(q.code, people[x].code) = people[x].code
      /\ Or(q.status, people[x].status) = people[x].status
  BY <1>2, <1>4, <1>5 DEF Done, Is, Or
<1>7. Or(LeadOf(q, leads), people[x].lead) = people[x].lead
  <2>1. CASE <<q.uni, q.lead>> \notin DOMAIN leads
    BY <2>1 DEF LeadOf, Or
  <2>2. CASE <<q.uni, q.lead>> \in DOMAIN leads
    <3> DEFINE y == leads[<<q.uni, q.lead>>]
    <3>1. /\ y \in DOMAIN people /\ people[y].kind = "MANAGER" /\ people[y].code # None
          /\ <<q.uni, q.lead>> = <<people[y].uni, people[y].code>>
      BY <2>2, LeadRead
    <3> HIDE DEF leads
    <3>2. people[y].uni = q.uni /\ people[y].code = q.lead /\ q.lead # None
      BY <3>1
    <3>3. q.uni = o.uni
      BY <1>1, <1>2
    <3>4. LeadOf(q, leads) = y
      BY <2>2 DEF LeadOf
    <3> HIDE DEF x, y
    <3>5. people[x].lead = y
      <4>1. /\ o.lead # None /\ people[y].code = o.lead /\ people[y].uni = o.uni
            /\ y \in DOMAIN people /\ people[y].kind = "MANAGER"
        BY <1>4, <3>1, <3>2, <3>3
      <4>2. /\ Done(o, s, people) /\ AccountOf(o) = x /\ o.uni = people[x].uni
            /\ PlanOf(o, RowPlans(kind, file, s.snap), RowsOn(own, kind, x))
        BY <1>2
      <4> QED
        BY <1>5, <4>1, <4>2, LeadStands
    <3> QED
      BY <3>4, <3>5 DEF Or
  <2> QED
    BY <2>1, <2>2
<1>8. people[x] = [f \in DOMAIN people[x] |-> people[x][f]]
  <2>1. x \in DOMAIN people
    BY <1>2 DEF Done, Is
  <2> QED
    BY <2>1 DEF Recorded
<1> HIDE DEF leads, x
<1>9. q.id = x
  BY <1>1 DEF x
<1> DEFINE row == people[x]
<1>10. Updated(q, leads) = [row EXCEPT !.name = row.name, !.status = row.status,
                                       !.code = row.code, !.lead = row.lead]
  BY <1>6, <1>7, <1>9 DEF Updated
<1>11. row = [f \in DOMAIN row |-> row[f]]
  BY <1>8
<1> HIDE DEF row
<1>12. [row EXCEPT !.name = row.name, !.status = row.status,
                   !.code = row.code, !.lead = row.lead] = row
  BY <1>11
<1> QED
  BY <1>10, <1>12 DEF row

LEMMA FoldUniversities ==
  ASSUME NEW rows, Len(rows) \in Nat, NEW snap, NEW F, NoneRefused(F, rows, snap)
  PROVE  /\ UniversitiesPlanned(F[Len(rows)].universities, snap)
         /\ UniversityEach(F[Len(rows)].universities, rows, Len(rows))
<1> DEFINE N == Len(rows)
           g == [i \in 0..N |-> F[i].universities]
<1>1. g[0] = <<>> /\ g[N] = F[N].universities
  BY DEF NothingPlanned, NoneRefused
<1>2. \A i \in 1..N : g[i] = AddUniversity(g[i - 1], rows[i], snap)
  <2> TAKE i \in 1..N
  <2>1. F[i].universities = AddUniversity(F[i - 1].universities, rows[i], snap)
    BY DEF Adds, NoneRefused
  <2>2. i \in 0..N /\ i - 1 \in 0..N
    OBVIOUS
  <2> QED
    BY <2>1, <2>2
<1>3. N \in Nat /\ N <= Len(rows)
  OBVIOUS
<1> HIDE DEF g, N
<1>4. UniversitiesPlanned(g[N], snap) /\ UniversityEach(g[N], rows, N)
  BY <1>1, <1>2, <1>3, FoldUniversityEach
<1> QED
  BY <1>1, <1>4 DEF N

\* The universities are known, under the name the file first gives.
LEMMA SecondUniversities ==
  ASSUME Len(file) \in Nat, AllOpen, NEW snap, NEW F, NoneRefused(F, file, snap),
         \A u \in ToSet(F[Len(file)].universities) :
           u.name # None => universities[u.uni].name = u.name,
         NEW H, NoneRefused(H, file, Reread), NEW v \in ToSet(H[Len(file)].universities)
  PROVE  v.known /\ (v.action = "update" => universities[v.uni].name = v.name)
<1> DEFINE us == F[Len(file)].universities
           vs == H[Len(file)].universities
           again == Reread
<1>1. UniversitiesPlanned(us, snap) /\ UniversityEach(us, file, Len(file))
  BY FoldUniversities
<1>2. UniversitiesPlanned(vs, again) /\ UniversityEach(vs, file, Len(file))
  <2>1. NoneRefused(H, file, again)
    OBVIOUS
  <2> HIDE DEF again
  <2> QED
    BY <2>1, FoldUniversities
<1> HIDE DEF us, vs, again
<1>3. PICK j \in 1..Len(vs) : v = vs[j]
  BY <1>2, ListMembers DEF UniversitiesPlanned, vs
<1>4. v.uni \in UnisOf(vs)
  BY <1>3 DEF UnisOf
<1>5. PICK m \in 1..Len(file) : file[m].uni = v.uni
  BY <1>2, <1>4 DEF UniversityEach
<1>6. v.known
  <2>1. v.uni \in DOMAIN again.universities
    BY <1>5, RereadIs DEF AllOpen, again
  <2> QED
    BY <1>2, <1>3, <2>1 DEF UniversitiesPlanned
<1>7. ASSUME v.action = "update" PROVE universities[v.uni].name = v.name
  <2>1. v.uni \in UnisOf(us)
    BY <1>1, <1>5 DEF UniversityEach
  <2>2. PICK i \in 1..Len(us) : us[i].uni = v.uni
    BY <2>1 DEF UnisOf
  <2> DEFINE R == RowsAbout(UniversityOf(file), v.uni, Len(file))
  <2>3. /\ FirstSaid(us[i].name, file, "uname", R)
        /\ FirstSaid(v.name, file, "uname", R) /\ v.name # None
    BY <1>1, <1>2, <1>3, <1>7, <2>2 DEF UniversityEach
  <2>4. R \subseteq Nat
    BY DEF RowsAbout, UniversityOf
  <2> HIDE DEF R
  <2>5. us[i].name = v.name
    BY <2>3, <2>4, FirstSaidOnce
  <2>6. us[i] \in ToSet(us)
    BY <1>1, ListMembers DEF UniversitiesPlanned
  <2> QED
    BY <2>2, <2>3, <2>5, <2>6 DEF us
<1> QED
  BY <1>6, <1>7

LEMMA CleanReadsAgain ==
  ASSUME Accounts, Planning, Addressed, CInv, AInv, NEW r \in Runs,
         Clean(r), Straight(run[r])
  PROVE  \E F, H, own :
           /\ Twice(run[r], F, H, own) /\ Resolve(file, Reread) = H[Len(file)]
<1> DEFINE s == run[r]
<1>1. Len(file) \in Nat /\ \A m \in 1..Len(file) : file[m] \in ToSet(file)
  BY FilesAssumption DEF Accounts
<1>2. Carried(s)
  BY CleanIsCarried
<1>3. s.plan = Resolve(file, s.snap) /\ Resolve(file, s.snap).errors = 0
  BY DEF AInv, Asked, Clean
<1>4. PICK F : Resolve(file, s.snap) = F[Len(file)] /\ NoneRefused(F, file, s.snap)
  <2> DEFINE snap == s.snap
  <2>1. Resolve(file, snap).errors = 0
    BY <1>3
  <2> HIDE DEF snap
  <2>2. \E F : Resolve(file, snap) = F[Len(file)] /\ NoneRefused(F, file, snap)
    BY <1>1, <2>1, CleanFold
  <2> QED
    BY <2>2 DEF snap
<1>5. AllOpen
  <2>1. CleanRunImports
    BY ImportsClean
  <2>2. \A u \in ToSet(s.plan.universities) : u.uni \in DOMAIN universities
    BY <2>1 DEF CleanRunImports
  <2> DEFINE us == F[Len(file)].universities
             snap == s.snap
  <2>3. UniversitiesPlanned(us, snap) /\ UniversityEach(us, file, Len(file))
    <3>1. NoneRefused(F, file, snap)
      BY <1>4
    <3> HIDE DEF snap
    <3> QED
      BY <1>1, <3>1, FoldUniversities
  <2>4. us = s.plan.universities
    BY <1>3, <1>4
  <2> HIDE DEF us
  <2>5. ASSUME NEW m \in 1..Len(file) PROVE file[m].uni \in DOMAIN universities
    <3>1. PICK i \in 1..Len(us) : us[i].uni = file[m].uni
      BY <2>3 DEF UniversityEach, UnisOf
    <3>2. us[i] \in ToSet(us)
      BY <2>3, ListMembers DEF UniversitiesPlanned
    <3> QED
      BY <2>2, <2>4, <3>1, <3>2
  <2> QED
    BY <1>1, <2>5 DEF AllOpen
<1>6. \A kind \in Kinds : \E o : OwnsRows(o, kind, s.snap)
  BY <1>1, <1>2, <1>4, OwnersExist DEF CInv
<1> DEFINE own == [kind \in Kinds |-> CHOOSE o : OwnsRows(o, kind, s.snap)]
<1>7. \A kind \in Kinds : OwnsRows(own[kind], kind, s.snap)
  BY <1>6
<1>8. PICK H : Resolve(file, Reread) = H[Len(file)] /\ NoneRefused(H, file, Reread)
  BY <1>1, <1>4, <1>5, <1>6, SecondRead DEF CInv
<1> HIDE DEF own
<1>9. ASSUME NEW kind \in Kinds
      PROVE  /\ PlanEach(PlansIn(F[Len(file)], kind), own[kind],
                         RowPlans(kind, file, s.snap), Len(file))
             /\ PlanEach(PlansIn(H[Len(file)], kind), own[kind],
                         RowPlans(kind, file, Reread), Len(file))
  BY <1>1, <1>4, <1>5, <1>7, <1>8, FirstPlans, SecondPlans DEF CInv
<1>10. Twice(s, F, H, own)
  BY <1>1, <1>2, <1>3, <1>4, <1>5, <1>7, <1>8, <1>9 DEF Twice
<1> QED
  BY <1>8, <1>10

LEMMA SecondIsNothing ==
  ASSUME Accounts, Planning, Addressed, CInv, AInv PROVE SecondImportChangesNothing
<1> SUFFICES ASSUME NEW r \in Runs, Clean(r), Straight(run[r])
             PROVE  LET linked == DOMAIN UniversitiesRead(file, universities)
                        again == Resolve(file, Reread)
                    IN /\ \A u \in ToSet(again.universities) :
                            u.known /\ (u.action = "update" => universities[u.uni].name = u.name)
                       /\ \A p \in People(again) :
                            /\ p.action # "create"
                            /\ p.action = "update" =>
                                 Updated(p, LeadsRead(linked)) = people[p.id]
  BY DEF SecondImportChangesNothing, Reread
<1> DEFINE s == run[r]
           linked == DOMAIN UniversitiesRead(file, universities)
           again == Resolve(file, Reread)
<1>1. PICK F, H, own : Twice(s, F, H, own) /\ again = H[Len(file)]
  BY CleanReadsAgain
<1>2. /\ CodesUnique(people) /\ Recorded(people) /\ None \notin DOMAIN s.snap.users
      /\ s.plan = F[Len(file)]
  BY <1>1 DEF CInv, AInv, Asked, Twice
<1> HIDE DEF again, linked
<1>3. ASSUME NEW u \in ToSet(again.universities)
      PROVE  u.known /\ (u.action = "update" => universities[u.uni].name = u.name)
  <2>1. \A v \in ToSet(F[Len(file)].universities) :
          v.name # None => universities[v.uni].name = v.name
    BY <1>2, ImportsClean DEF CleanRunImports
  <2>2. /\ Len(file) \in Nat /\ AllOpen /\ NoneRefused(F, file, s.snap)
        /\ NoneRefused(H, file, Reread)
    BY <1>1 DEF Twice
  <2> QED
    BY <1>1, <2>1, <2>2, SecondUniversities
<1>4. ASSUME NEW p \in People(again)
      PROVE  /\ p.action # "create"
             /\ p.action = "update" => Updated(p, LeadsRead(linked)) = people[p.id]
  <2>1. PICK kind \in Kinds : p \in ToSet(PlansIn(H[Len(file)], kind))
    <3>1. p \in ToSet(again.managers) \/ p \in ToSet(again.instructors)
      BY DEF People
    <3> QED
      BY <1>1, <3>1 DEF Kinds, PlansIn
  <2> QED
    BY <1>1, <1>2, <2>1, SecondUpdate
<1> QED
  BY <1>3, <1>4 DEF again, linked

(* When executions take turns, a file that a run has imported with nothing *)
(* amiss is a file of what is there: reading it again plans to open no     *)
(* university and create nobody, and every update it plans writes what is  *)
(* already written.                                                        *)
THEOREM ImportSecondChangesNothing ==
  ASSUME NEW r, Runs = {r} PROVE Spec => []SecondImportChangesNothing
<1> DEFINE Inv == IInv /\ Accounts /\ Planning /\ Addressed /\ CInv /\ AInv
<1>1. Init => Inv
  BY InitIInv, InitAccounts, InitPlans, InitImports, InitAsked
<1>2. Inv /\ [Next]_vars => Inv'
  BY NextKeeps, NextAccounts, NextPlans, NextImports, NextAsked
<1>3. Inv => SecondImportChangesNothing
  BY SecondIsNothing
<1> HIDE DEF Inv
<1> QED
  BY <1>1, <1>2, <1>3, PTL DEF Spec

=============================================================================
