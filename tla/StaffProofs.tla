---------------------------- MODULE StaffProofs ----------------------------
(***************************************************************************)
(* Proofs about the rosters, for any staff, any universities and any       *)
(* number of requests, overlapping or not.                                 *)
(***************************************************************************)
EXTENDS Staff, TLAPS

\* What a request that has passed its checks still knows when it writes.  The
\* instructors an open departure has moved are locked, so they stay with the
\* leaver until it commits.
RequestKnows(r) ==
  /\ r.op = "leave" => r.who \in exists
  /\ r.op = "leave" /\ r.at \in {"write", "commit"} /\ r.to # None =>
       r.who \in Managers /\ r.who # r.to /\ Home[r.to] = Home[r.who]
  /\ r.at = "commit" => r.op = "leave" /\ r.to # None
  /\ \A i \in r.rows : r.at = "commit" /\ roster[i] = r.who
  /\ r.op \in {"assign", "hire"} => r.who \in Instructors
  /\ r.op = "assign" => r.who \in exists
  /\ r.op \in {"assign", "hire"} /\ r.at = "write" /\ r.to # None => Home[r.to] = Home[r.who]
  /\ r.op = "return" => r.who \in exists
  /\ r.op = "hireManager" =>
       r.who \in Managers /\ (~r.found => primary[Home[r.who]] # None)

\* A university that has managers has a primary.
SomebodyStandsIn ==
  \A m \in Managers \cap exists : primary[Home[m]] # None

OnlyTheHiredAreLed == \A i \in Instructors : roster[i] # None => i \in exists

\* The lock on the user's row leaves one open departure a person.
OneOpenDeparture ==
  \A c, d \in Calls :
    call[c].at = "commit" /\ call[d].at = "commit" /\ call[c].who = call[d].who => c = d

StaffInv ==
  /\ TypeOK
  /\ LeadersAreFromHere
  /\ SomebodyStandsIn
  /\ OnlyTheHiredAreLed
  /\ OneOpenDeparture
  /\ \A c \in Calls : RequestKnows(call[c])

LEMMA HomeIsAUniversity == \A p \in Staff : Home[p] \in Universities
  BY StaffAssumption

LEMMA InitStaffInv == Init => StaffInv
<1> SUFFICES ASSUME Init PROVE StaffInv
  OBVIOUS
<1>1. TypeOK
  BY DEF Init, TypeOK, Asks, Request
<1>2. LeadersAreFromHere
  BY DEF Init, LeadersAreFromHere
<1>3. SomebodyStandsIn
  BY HomeIsAUniversity DEF Init, SomebodyStandsIn, Staff
<1>4. ASSUME NEW c \in Calls PROVE RequestKnows(call[c])
  BY DEF Init, RequestKnows, Asks
<1>5. OnlyTheHiredAreLed /\ OneOpenDeparture
  BY DEF Init, Asks, OnlyTheHiredAreLed, OneOpenDeparture
<1> QED
  BY <1>1, <1>2, <1>3, <1>4, <1>5 DEF StaffInv

\* What one request reads and the steps that write no table keep.
LEMMA OnlyTheRequest ==
  ASSUME StaffInv, NEW c \in Calls, NEW r \in Request, RequestKnows(r), Becomes(c, r),
         r.at = "commit" => ~UserLocked(r.who), UNCHANGED <<tables, astray>>
  PROVE  StaffInv'
<1>1. call' = [call EXCEPT ![c] = r] /\ UNCHANGED <<exists, active, roster, primary, astray>>
  BY DEF Becomes, tables
<1>2. call' \in [Calls -> Request]
  BY <1>1 DEF StaffInv, TypeOK
<1>3. ASSUME NEW d \in Calls PROVE RequestKnows(call[d])'
  <2>1. call'[d] = r \/ call'[d] = call[d]
    BY <1>1 DEF StaffInv, TypeOK
  <2>2. RequestKnows(call[d])
    BY DEF StaffInv
  <2> QED
    BY <1>1, <2>1, <2>2 DEF RequestKnows
<1>4. OneOpenDeparture'
  <2> SUFFICES ASSUME NEW d \in Calls, NEW e \in Calls, d # e,
                      call'[d].at = "commit", call'[e].at = "commit"
               PROVE  call'[d].who # call'[e].who
    BY DEF OneOpenDeparture
  <2>1. \A b \in Calls : call[b].at = "commit" => call[b].op = "leave"
    BY DEF StaffInv, RequestKnows
  <2>2. OneOpenDeparture
    BY DEF StaffInv
  <2>3. \A b \in Calls : call'[b] = IF b = c THEN r ELSE call[b]
    BY <1>1 DEF StaffInv, TypeOK
  <2> QED
    BY <2>1, <2>2, <2>3 DEF OneOpenDeparture, UserLocked, Is
<1> QED
  BY <1>1, <1>2, <1>3, <1>4
     DEF StaffInv, TypeOK, LeadersAreFromHere, SomebodyStandsIn, OnlyTheHiredAreLed

\* A step that ends its request and leaves the tables and the locked rows in
\* order keeps the rest.
LEMMA EndsInOrder ==
  ASSUME StaffInv, NEW c \in Calls, Ends(c),
         exists' \in SUBSET Staff, exists \subseteq exists', active' \subseteq exists',
         roster' \in [Instructors -> Managers \cup {None}],
         primary' \in [Universities -> Managers \cup {None}],
         astray' \subseteq Managers,
         \A d \in Calls \ {c} : \A i \in call[d].rows : roster'[i] = roster[i],
         \A u \in Universities : primary[u] # None => primary'[u] # None,
         LeadersAreFromHere', SomebodyStandsIn', OnlyTheHiredAreLed'
  PROVE  StaffInv'
<1> DEFINE ended == Asks("none", "done", None, None, FALSE)
<1>1. call' = [call EXCEPT ![c] = ended]
  BY DEF Ends, Becomes
<1>2. ended \in Request
  BY DEF Asks, Request
<1>3. call' \in [Calls -> Request]
  BY <1>1, <1>2 DEF StaffInv, TypeOK
<1>4. ASSUME NEW d \in Calls PROVE RequestKnows(call[d])'
  <2>1. CASE d = c
    <3>1. call'[d].op = "none" /\ call'[d].at = "done" /\ call'[d].rows = {}
      BY <1>1, <2>1 DEF StaffInv, TypeOK, Asks
    <3> QED
      BY <3>1 DEF RequestKnows
  <2>2. CASE d # c
    <3>1. call'[d] = call[d] /\ RequestKnows(call[d])
      BY <1>1, <2>2 DEF StaffInv, TypeOK
    <3>2. call[d].op = "hireManager" => Home[call[d].who] \in Universities
      BY <3>1, HomeIsAUniversity DEF RequestKnows, Staff
    <3>3. \A i \in call[d].rows : roster'[i] = roster[i]
      BY <2>2
    <3> QED
      BY <3>1, <3>2, <3>3 DEF RequestKnows
  <2> QED
    BY <2>1, <2>2
<1>5. OneOpenDeparture'
  <2>1. \A d \in Calls : call'[d] = call[d] \/ call'[d].at = "done"
    BY <1>1 DEF StaffInv, TypeOK, Asks
  <2> QED
    BY <2>1 DEF StaffInv, OneOpenDeparture
<1> QED
  BY <1>3, <1>4, <1>5 DEF StaffInv, TypeOK

LEMMA HistoryIsOfManagers ==
  ASSUME NEW m, NEW p PROVE Strays(m) \subseteq Managers /\ LeavesChosen(p) \subseteq Managers
  BY DEF Strays, LeavesChosen

\* The rows of an open departure are with its leaver, and with no other's.
LEMMA LockedRows ==
  ASSUME StaffInv, NEW c \in Calls, NEW d \in Calls, c # d,
         NEW i \in call[c].rows
  PROVE  i \notin call[d].rows
<1>1. \A b \in Calls : RequestKnows(call[b])
  BY DEF StaffInv
<1> QED
  BY <1>1 DEF StaffInv, OneOpenDeparture, RequestKnows

LEMMA LeavesKeeps == ASSUME StaffInv, NEW c \in Calls, Leaves(c) PROVE StaffInv'
<1> DEFINE p == call[c].who
           m == call[c].to
           rows == call[c].rows
<1>1. /\ exists' = exists /\ active' = active \ {p}
      /\ roster' = [i \in Instructors |-> IF i \in rows THEN m ELSE roster[i]]
      /\ primary' = [u \in Universities |->
                       IF m # None /\ primary[u] = p /\ u = Home[p] THEN m ELSE primary[u]]
      /\ astray' = astray \cup Strays(m) \cup LeavesChosen(p)
  BY DEF Leaves, PrimaryAfter
<1>2. call[c] \in Request /\ m \in Managers \cup {None} /\ RequestKnows(call[c])
  BY DEF StaffInv, TypeOK, Request
<1>3. m # None => p \in Managers /\ Home[m] = Home[p]
  BY <1>2 DEF RequestKnows, Leaves, Is
<1>4. \A i \in rows : roster[i] = p /\ m # None
  BY <1>2 DEF RequestKnows
<1>5. \A d \in Calls \ {c} : \A i \in call[d].rows : i \in Instructors /\ i \notin rows
  BY LockedRows DEF StaffInv, TypeOK, Request
<1> HIDE DEF p, m, rows
<1>6. /\ exists' \in SUBSET Staff /\ exists \subseteq exists' /\ active' \subseteq exists'
      /\ roster' \in [Instructors -> Managers \cup {None}]
      /\ primary' \in [Universities -> Managers \cup {None}]
      /\ astray' \subseteq Managers
  BY <1>1, <1>2, HistoryIsOfManagers DEF StaffInv, TypeOK
<1>7. \A u \in Universities : primary[u] # None => primary'[u] # None
  BY <1>1
<1>8. LeadersAreFromHere'
  <2>1. ASSUME NEW i \in Instructors, roster'[i] # None PROVE Home[roster'[i]] = Home[i]
    <3>1. LeadersAreFromHere
      BY DEF StaffInv
    <3>2. CASE roster'[i] = roster[i]
      BY <2>1, <3>1, <3>2 DEF LeadersAreFromHere
    <3>3. CASE i \in rows /\ roster'[i] = m
      <4>1. m # None /\ roster[i] = p /\ p # None
        BY <1>3, <1>4, <3>3, StaffAssumption DEF Staff
      <4> QED
        BY <1>3, <3>1, <3>3, <4>1 DEF LeadersAreFromHere
    <3> QED
      BY <1>1, <3>2, <3>3
  <2>2. ASSUME NEW u \in Universities, primary'[u] # None PROVE Home[primary'[u]] = u
    BY <1>1, <1>3, <2>2 DEF StaffInv, LeadersAreFromHere
  <2> QED
    BY <2>1, <2>2 DEF LeadersAreFromHere
<1>9. SomebodyStandsIn'
  BY <1>1, <1>7, HomeIsAUniversity DEF StaffInv, SomebodyStandsIn, Staff
<1>10. OnlyTheHiredAreLed'
  <2>1. \A i \in rows : roster[i] # None
    BY <1>3, <1>4, StaffAssumption DEF Staff
  <2> QED
    BY <1>1, <2>1 DEF StaffInv, OnlyTheHiredAreLed
<1>11. \A d \in Calls \ {c} : \A i \in call[d].rows : roster'[i] = roster[i]
  BY <1>1, <1>5
<1>12. Ends(c)
  BY DEF Leaves
<1> QED
  BY <1>6, <1>7, <1>8, <1>9, <1>10, <1>11, <1>12, EndsInOrder

LEMMA ReturnsKeeps == ASSUME StaffInv, NEW c \in Calls, Returns(c) PROVE StaffInv'
<1>1. /\ exists' = exists /\ active' = active \cup {call[c].who} /\ astray' = astray
      /\ roster' = roster /\ primary' = primary /\ Ends(c)
  BY DEF Returns
<1>2. call[c].who \in exists
  BY DEF StaffInv, RequestKnows, Returns, Is
<1>3. /\ exists' \in SUBSET Staff /\ exists \subseteq exists' /\ active' \subseteq exists'
      /\ roster' \in [Instructors -> Managers \cup {None}]
      /\ primary' \in [Universities -> Managers \cup {None}]
      /\ astray' \subseteq Managers
  BY <1>1, <1>2 DEF StaffInv, TypeOK
<1>4. LeadersAreFromHere' /\ SomebodyStandsIn' /\ OnlyTheHiredAreLed'
  BY <1>1 DEF StaffInv, LeadersAreFromHere, SomebodyStandsIn, OnlyTheHiredAreLed
<1> QED
  BY <1>1, <1>3, <1>4, EndsInOrder

\* Putting an instructor under a manager of their university, or under nobody.
LEMMA AssignsKeeps ==
  ASSUME StaffInv, NEW i \in Instructors, NEW m \in Managers \cup {None},
         m # None => Home[m] = Home[i], roster' = [roster EXCEPT ![i] = m], primary' = primary
  PROVE  LeadersAreFromHere' /\ roster' \in [Instructors -> Managers \cup {None}]
<1>1. ASSUME NEW j \in Instructors, roster'[j] # None PROVE Home[roster'[j]] = Home[j]
  BY <1>1 DEF StaffInv, TypeOK, LeadersAreFromHere
<1> QED
  BY <1>1 DEF StaffInv, TypeOK, LeadersAreFromHere

\* An instructor who is hired now is not in a locked row: nobody led them.
LEMMA WritesAnUnlockedRow ==
  ASSUME StaffInv, NEW c \in Calls, NEW d \in Calls,
         Assigns(c) \/ (Hires(c) /\ call[c].who \notin exists)
  PROVE  call[c].who \notin call[d].rows
<1>1. RequestKnows(call[d]) /\ call[d] \in Request
  BY DEF StaffInv, TypeOK
<1>2. CASE Assigns(c)
  BY <1>2 DEF Assigns, RowLocked
<1>3. CASE Hires(c) /\ call[c].who \notin exists
  <2>1. ASSUME call[c].who \in call[d].rows PROVE FALSE
    <3>1. roster[call[c].who] = call[d].who /\ call[d].at = "commit" /\ call[c].who \in Instructors
      BY <1>1, <2>1 DEF RequestKnows, Request
    <3>2. call[d].who \in Managers
      BY <1>1, <3>1 DEF RequestKnows
    <3> QED
      BY <1>3, <3>1, <3>2, StaffAssumption DEF StaffInv, OnlyTheHiredAreLed, Staff
  <2> QED
    BY <2>1
<1> QED
  BY <1>2, <1>3

LEMMA WritesKeep ==
  ASSUME StaffInv, NEW c \in Calls, Assigns(c) \/ Hires(c)
  PROVE  StaffInv'
<1> DEFINE i == call[c].who
           m == call[c].to
<1>1. /\ i \in Instructors /\ m \in Managers \cup {None} /\ (m # None => Home[m] = Home[i])
      /\ i \in Staff
  BY DEF StaffInv, TypeOK, Request, RequestKnows, Assigns, Hires, Is, Staff
<1>2. Ends(c) /\ primary' = primary
  BY DEF Assigns, Hires, tables
<1>3. astray' \subseteq Managers
  BY <1>1, HistoryIsOfManagers DEF Assigns, Hires, StaffInv, TypeOK
<1>4. CASE (Assigns(c) \/ (Hires(c) /\ i \notin exists)) /\ roster' = [roster EXCEPT ![i] = m]
           /\ i \in exists' /\ exists \subseteq exists'
  <2>1. LeadersAreFromHere' /\ roster' \in [Instructors -> Managers \cup {None}]
    BY <1>1, <1>2, <1>4, AssignsKeeps
  <2>2. /\ exists' \in SUBSET Staff /\ exists \subseteq exists' /\ active' \subseteq exists'
        /\ exists' \subseteq exists \cup {i}
    BY <1>1, <1>4 DEF Assigns, Hires, StaffInv, TypeOK
  <2>3. i \notin Managers
    BY <1>1, StaffAssumption
  <2>4. SomebodyStandsIn'
    BY <1>2, <2>2, <2>3 DEF StaffInv, SomebodyStandsIn
  <2>5. primary' \in [Universities -> Managers \cup {None}]
    BY <1>2 DEF StaffInv, TypeOK
  <2>6. OnlyTheHiredAreLed'
    BY <1>4 DEF StaffInv, TypeOK, OnlyTheHiredAreLed
  <2>7. \A d \in Calls \ {c} : \A j \in call[d].rows : roster'[j] = roster[j]
    <3>1. \A d \in Calls : i \notin call[d].rows /\ call[d].rows \subseteq Instructors
      BY <1>4, WritesAnUnlockedRow DEF StaffInv, TypeOK, Request
    <3> QED
      BY <1>4, <3>1 DEF StaffInv, TypeOK
  <2> QED
    BY <1>2, <1>3, <2>1, <2>2, <2>4, <2>5, <2>6, <2>7, EndsInOrder
<1>5. CASE UNCHANGED tables
  <2>1. LeadersAreFromHere' /\ SomebodyStandsIn' /\ OnlyTheHiredAreLed'
    BY <1>5 DEF StaffInv, LeadersAreFromHere, SomebodyStandsIn, OnlyTheHiredAreLed, tables
  <2>2. /\ exists' \in SUBSET Staff /\ exists \subseteq exists' /\ active' \subseteq exists'
        /\ roster' \in [Instructors -> Managers \cup {None}]
        /\ primary' \in [Universities -> Managers \cup {None}]
    BY <1>5 DEF StaffInv, TypeOK, tables
  <2> QED
    BY <1>2, <1>3, <1>5, <2>1, <2>2, EndsInOrder DEF tables
<1>6. CASE Assigns(c)
  <2>1. i \in exists
    BY <1>6 DEF StaffInv, RequestKnows, Assigns, Is
  <2> QED
    BY <1>4, <1>6, <2>1 DEF Assigns
<1>7. CASE Hires(c)
  BY <1>4, <1>5, <1>7 DEF Hires, tables
<1> QED
  BY <1>6, <1>7

LEMMA HiresManagerKeeps ==
  ASSUME StaffInv, NEW c \in Calls, HiresManager(c) PROVE StaffInv'
<1> DEFINE m == call[c].who
<1>1. m \in Managers /\ (~call[c].found => primary[Home[m]] # None)
  BY DEF StaffInv, RequestKnows, HiresManager, Is
<1>2. m \in Staff /\ Home[m] \in Universities /\ m # None
  BY <1>1, StaffAssumption DEF Staff
<1>3. Ends(c) /\ roster' = roster /\ astray' = astray
  BY DEF HiresManager, tables
<1>4. exists' \in {exists, exists \cup {m}} /\ active' \in {active, active \cup {m}}
      /\ primary' \in {primary, [primary EXCEPT ![Home[m]] = m]}
      /\ (exists' = exists => active' = active /\ primary' = primary)
  BY DEF HiresManager, StaffInv, TypeOK, tables
<1>5. exists' # exists /\ ~call[c].found => primary' = primary
  BY DEF HiresManager, tables
<1>6. exists' # exists /\ call[c].found => primary' = [primary EXCEPT ![Home[m]] = m]
  BY DEF HiresManager, tables
<1> HIDE DEF m
<1>7. /\ exists' \in SUBSET Staff /\ exists \subseteq exists' /\ active' \subseteq exists'
      /\ roster' \in [Instructors -> Managers \cup {None}]
      /\ primary' \in [Universities -> Managers \cup {None}]
      /\ astray' \subseteq Managers
  <2>1. active \subseteq exists /\ exists \subseteq Staff
    BY DEF StaffInv, TypeOK
  <2>2. active' \subseteq exists'
    BY <1>4, <2>1
  <2> QED
    BY <1>1, <1>2, <1>3, <1>4, <2>1, <2>2 DEF StaffInv, TypeOK
<1>8. \A u \in Universities : primary[u] # None => primary'[u] # None
  BY <1>2, <1>4 DEF StaffInv, TypeOK
<1>9. LeadersAreFromHere'
  <2>1. ASSUME NEW u \in Universities, primary'[u] # None PROVE Home[primary'[u]] = u
    BY <1>2, <1>4, <2>1 DEF StaffInv, TypeOK, LeadersAreFromHere
  <2> QED
    BY <1>3, <2>1 DEF StaffInv, LeadersAreFromHere
<1>10. SomebodyStandsIn'
  <2>1. ASSUME NEW n \in Managers \cap exists' PROVE primary'[Home[n]] # None
    <3>1. Home[n] \in Universities
      BY HomeIsAUniversity DEF Staff
    <3>2. CASE n \in exists
      BY <1>8, <3>1, <3>2 DEF StaffInv, SomebodyStandsIn
    <3>3. CASE n \notin exists
      <4>1. n = m /\ exists' # exists
        BY <1>4, <3>3
      <4>2. CASE call[c].found
        BY <1>2, <1>6, <4>1, <4>2 DEF StaffInv, TypeOK
      <4>3. CASE ~call[c].found
        BY <1>1, <1>5, <4>1, <4>3
      <4> QED
        BY <4>2, <4>3
    <3> QED
      BY <3>2, <3>3
  <2> QED
    BY <2>1 DEF SomebodyStandsIn
<1>11. OnlyTheHiredAreLed'
  BY <1>3, <1>7 DEF StaffInv, OnlyTheHiredAreLed
<1> QED
  BY <1>3, <1>7, <1>8, <1>9, <1>10, <1>11, EndsInOrder

LEMMA NextStaffInv == StaffInv /\ [Next]_vars => StaffInv'
<1> SUFFICES ASSUME StaffInv, [Next]_vars PROVE StaffInv'
  OBVIOUS
<1>1. ASSUME NEW c \in Calls, NEW p \in Staff, NEW m \in Managers \cup {None},
             AsksToLeave(c, p, m)
      PROVE  StaffInv'
  <2> DEFINE r == Asks("leave", "check", p, m, \E i \in Instructors : roster[i] = p)
  <2>1. r \in Request /\ RequestKnows(r) /\ r.at # "commit"
    BY <1>1 DEF Asks, Request, RequestKnows, AsksToLeave, StaffInv, TypeOK
  <2> QED
    BY <1>1, <2>1, OnlyTheRequest DEF AsksToLeave
<1>2. ASSUME NEW c \in Calls, NEW p \in Staff, AsksToReturn(c, p) PROVE StaffInv'
  <2> DEFINE r == Asks("return", "write", p, None, FALSE)
  <2>1. r \in Request /\ RequestKnows(r) /\ r.at # "commit"
    BY <1>2 DEF Asks, Request, RequestKnows, AsksToReturn
  <2> QED
    BY <1>2, <2>1, OnlyTheRequest DEF AsksToReturn
<1>3. ASSUME NEW c \in Calls, NEW i \in Instructors, NEW m \in Managers \cup {None},
             NEW by \in Managers \cup {None}, AsksToAssign(c, i, m, by)
      PROVE  StaffInv'
  <2> DEFINE r == Asks("assign", IF m = None THEN "write" ELSE "check", i, m, FALSE)
  <2>1. r \in Request /\ RequestKnows(r) /\ r.at # "commit"
    BY <1>3 DEF Asks, Request, RequestKnows, Staff, AsksToAssign
  <2> QED
    BY <1>3, <2>1, OnlyTheRequest DEF AsksToAssign
<1>4. ASSUME NEW c \in Calls, NEW i \in Instructors, NEW m \in Managers \cup {None},
             NEW by \in Managers \cup {None}, AsksToHire(c, i, m, by)
      PROVE  StaffInv'
  <2> DEFINE r == Asks("hire", "write", i, m, FALSE)
  <2>1. r \in Request /\ RequestKnows(r) /\ r.at # "commit"
    BY <1>4 DEF Asks, Request, RequestKnows, Staff, AsksToHire
  <2> QED
    BY <1>4, <2>1, OnlyTheRequest DEF AsksToHire
<1>5. ASSUME NEW c \in Calls, NEW m \in Managers, AsksToHireManager(c, m) PROVE StaffInv'
  <2> DEFINE r == Asks("hireManager", "write", m, None, primary[Home[m]] = None)
  <2>1. r \in Request /\ RequestKnows(r) /\ r.at # "commit"
    BY DEF Asks, Request, RequestKnows, Staff
  <2> QED
    BY <1>5, <2>1, OnlyTheRequest DEF AsksToHireManager
<1>6. ASSUME NEW c \in Calls, ChecksSuccessor(c) PROVE StaffInv'
  <2> DEFINE p == call[c].who
  <2>1. PICK r \in Request : RequestKnows(r) /\ r.at # "commit" /\ Becomes(c, r)
    <3>1. call[c] \in Request /\ p \in Staff /\ p \in exists /\ call[c].op = "leave"
      BY <1>6 DEF ChecksSuccessor, Is, StaffInv, TypeOK, RequestKnows
    <3>2. CASE Proceeds(c, None)
      <4> DEFINE r == Asks(call[c].op, "write", p, None, FALSE)
      <4>1. r \in Request /\ RequestKnows(r) /\ r.at # "commit"
        BY <3>1 DEF Asks, Request, RequestKnows
      <4> QED
        BY <3>2, <4>1 DEF Proceeds
    <3>3. CASE p \in Managers /\ SuccessorFits(p, call[c].to) /\ Proceeds(c, call[c].to)
      <4> DEFINE r == Asks(call[c].op, "write", p, call[c].to, FALSE)
      <4>1. r \in Request /\ RequestKnows(r) /\ r.at # "commit"
        BY <3>1, <3>3 DEF Asks, Request, RequestKnows, SuccessorFits
      <4> QED
        BY <3>3, <4>1 DEF Proceeds
    <3>4. CASE Ends(c)
      <4> DEFINE r == Asks("none", "done", None, None, FALSE)
      <4>1. r \in Request /\ RequestKnows(r) /\ r.at # "commit"
        BY DEF Asks, Request, RequestKnows
      <4> QED
        BY <3>4, <4>1 DEF Ends
    <3> QED
      BY <1>6, <3>2, <3>3, <3>4 DEF ChecksSuccessor
  <2> QED
    BY <1>6, <2>1, OnlyTheRequest DEF ChecksSuccessor
<1>7. ASSUME NEW c \in Calls, ChecksManager(c) PROVE StaffInv'
  <2>1. PICK r \in Request : RequestKnows(r) /\ r.at # "commit" /\ Becomes(c, r)
    <3>1. /\ call[c] \in Request /\ call[c].op = "assign" /\ call[c].who \in Instructors
          /\ call[c].who \in exists
      BY <1>7 DEF ChecksManager, Is, StaffInv, TypeOK, RequestKnows
    <3>2. CASE MayLead(call[c].to, call[c].who) /\ Proceeds(c, call[c].to)
      <4> DEFINE r == Asks(call[c].op, "write", call[c].who, call[c].to, FALSE)
      <4>1. r \in Request /\ RequestKnows(r) /\ r.at # "commit"
        BY <3>1, <3>2 DEF Asks, Request, RequestKnows, MayLead
      <4> QED
        BY <3>2, <4>1 DEF Proceeds
    <3>3. CASE Ends(c)
      <4> DEFINE r == Asks("none", "done", None, None, FALSE)
      <4>1. r \in Request /\ RequestKnows(r) /\ r.at # "commit"
        BY DEF Asks, Request, RequestKnows
      <4> QED
        BY <3>3, <4>1 DEF Ends
    <3> QED
      BY <1>7, <3>2, <3>3 DEF ChecksManager
  <2> QED
    BY <1>7, <2>1, OnlyTheRequest DEF ChecksManager
<1>8. ASSUME NEW c \in Calls, Leaves(c) \/ Returns(c) \/ Assigns(c) \/ Hires(c) \/ HiresManager(c)
      PROVE  StaffInv'
  BY <1>8, LeavesKeeps, ReturnsKeeps, WritesKeep, HiresManagerKeeps
<1>9. ASSUME NEW c \in Calls, MovesRoster(c) PROVE StaffInv'
  <2> DEFINE p == call[c].who
             r == [call[c] EXCEPT !.at = "commit", !.rows = {i \in Instructors : roster[i] = p}]
  <2>1. call[c] \in Request /\ RequestKnows(call[c]) /\ call[c].op = "leave"
        /\ call[c].at = "write" /\ call[c].to # None /\ ~UserLocked(p)
    BY <1>9 DEF MovesRoster, Is, StaffInv, TypeOK
  <2>2. r \in Request /\ r.at = "commit" /\ r.op = "leave" /\ r.who = p /\ r.to = call[c].to
        /\ r.rows = {i \in Instructors : roster[i] = p}
    BY <2>1 DEF Request
  <2>3. RequestKnows(r)
    BY <2>1, <2>2 DEF RequestKnows
  <2>4. Becomes(c, r) /\ UNCHANGED <<tables, astray>>
    BY <1>9 DEF MovesRoster
  <2> QED
    BY <2>1, <2>2, <2>3, <2>4, OnlyTheRequest
<1>10. CASE UNCHANGED vars
  BY <1>10 DEF vars, tables, StaffInv, TypeOK, LeadersAreFromHere, SomebodyStandsIn, RequestKnows,
               OnlyTheHiredAreLed, OneOpenDeparture
<1> QED
  BY <1>1, <1>2, <1>3, <1>4, <1>5, <1>6, <1>7, <1>8, <1>9, <1>10 DEF Next, Continues

\* Rosters and primaries are well typed, from one university, and every request
\* still knows what it checked.
THEOREM StaffInvariant == Spec => []StaffInv
  BY InitStaffInv, NextStaffInv, PTL DEF Spec

\* Whoever leads an instructor or a university belongs to it, however requests
\* interleave.
THEOREM LeadersBelong == Spec => []LeadersAreFromHere
<1>1. StaffInv => LeadersAreFromHere
  BY DEF StaffInv
<1> QED
  BY <1>1, StaffInvariant, PTL

-----------------------------------------------------------------------------
\* Nobody is with m, neither an instructor nor a university.
NobodyUnder(m) == \A i \in Instructors : roster[i] # m
NobodyWith(m) == NobodyUnder(m) /\ \A u \in Universities : primary[u] # m

\* Who has left, and was given nobody beside or after it, has nobody.
LeaversHaveNobody == \A m \in Managers \ (active \cup astray) : NobodyWith(m)

\* A departure that counted none has none, one that writes without a successor
\* leaves no university either, and one that has moved its roster has no others;
\* a manager found active still is.
Counted(r) ==
  /\ r.op = "leave" /\ r.who \in Managers \ astray =>
       /\ r.at = "check" /\ ~r.found => NobodyUnder(r.who)
       /\ r.at = "write" /\ r.to = None => NobodyWith(r.who)
       /\ r.at = "commit" => \A i \in Instructors : roster[i] = r.who => i \in r.rows
  /\ r.op \in {"leave", "assign"} /\ r.at \in {"write", "commit"} /\ r.to # None =>
       r.to \in active \cup astray

Answered == LeaversHaveNobody /\ \A c \in Calls : Counted(call[c])

LEMMA InitAnswered == Init => Answered
<1> SUFFICES ASSUME Init PROVE Answered
  OBVIOUS
<1>1. LeaversHaveNobody
  BY StaffAssumption DEF Init, LeaversHaveNobody, NobodyWith, NobodyUnder, Staff
<1>2. \A c \in Calls : Counted(call[c])
  BY DEF Init, Asks, Counted
<1> QED
  BY <1>1, <1>2 DEF Answered

\* A step that only reads keeps it for the other requests.
LEMMA ReadsStayCounted ==
  ASSUME StaffInv, Answered, NEW c \in Calls, NEW r, Becomes(c, r), Counted(r),
         UNCHANGED <<tables, astray>>
  PROVE  Answered'
<1>1. call' = [call EXCEPT ![c] = r] /\ UNCHANGED <<exists, active, roster, primary, astray>>
  BY DEF Becomes, tables
<1>2. ASSUME NEW d \in Calls PROVE Counted(call[d])'
  <2>1. call'[d] = r \/ call'[d] = call[d]
    BY <1>1 DEF StaffInv, TypeOK
  <2>2. Counted(call[d])
    BY DEF Answered
  <2> QED
    BY <1>1, <2>1, <2>2 DEF Counted, NobodyWith, NobodyUnder
<1> QED
  BY <1>1, <1>2 DEF Answered, LeaversHaveNobody, NobodyWith, NobodyUnder

\* A step that writes keeps it for the other requests, when whoever is given
\* somebody is not past counting and whoever leaves is not chosen.
LEMMA WritesStayCounted ==
  ASSUME StaffInv, Answered, NEW c \in Calls, Ends(c), astray \subseteq astray',
         \A m \in Managers \ astray' : PastCounting(m) =>
           /\ \A i \in Instructors : roster'[i] = m => roster[i] = m
           /\ \A u \in Universities : primary'[u] = m => primary[u] = m,
         \A m \in Managers \ astray' : Chosen(m) /\ m \in active => m \in active',
         LeaversHaveNobody'
  PROVE  Answered'
<1> DEFINE ended == Asks("none", "done", None, None, FALSE)
<1>1. call' = [call EXCEPT ![c] = ended]
  BY DEF Ends, Becomes
<1>2. ASSUME NEW d \in Calls PROVE Counted(call[d])'
  <2>1. CASE d = c
    <3>1. call'[d].op = "none"
      BY <1>1, <2>1 DEF StaffInv, TypeOK, Asks
    <3> QED
      BY <3>1 DEF Counted
  <2>2. CASE d # c
    <3>1. PICK r \in Request : call[d] = r /\ call'[d] = r /\ Counted(r)
      BY <1>1, <2>2 DEF StaffInv, TypeOK, Answered
    <3>2. ASSUME r.op = "leave", r.who \in Managers \ astray'
          PROVE  /\ r.at = "check" /\ ~r.found => NobodyUnder(r.who)'
                 /\ r.at = "write" /\ r.to = None => NobodyWith(r.who)'
                 /\ r.at = "commit" => \A i \in Instructors : roster'[i] = r.who => i \in r.rows
      <4>1. \/ r.at = "check" /\ ~r.found
            \/ r.at = "write" /\ r.to = None
            \/ r.at = "commit"
            => PastCounting(r.who)
        BY <3>1, <3>2 DEF PastCounting
      <4>2. PastCounting(r.who) =>
              /\ \A i \in Instructors : roster'[i] = r.who => roster[i] = r.who
              /\ \A u \in Universities : primary'[u] = r.who => primary[u] = r.who
        BY <3>2
      <4> QED
        BY <3>1, <3>2, <4>1, <4>2 DEF Counted, NobodyWith, NobodyUnder
    <3>3. ASSUME r.op \in {"leave", "assign"}, r.at \in {"write", "commit"}, r.to # None
          PROVE  r.to \in active' \cup astray'
      <4>1. Chosen(r.to) /\ r.to \in Managers
        BY <3>1, <3>3 DEF Chosen, Request
      <4>2. r.to \in active \cup astray
        BY <3>1, <3>3 DEF Counted
      <4> QED
        BY <4>1, <4>2
    <3> QED
      BY <3>1, <3>2, <3>3 DEF Counted, NobodyWith, NobodyUnder
  <2> QED
    BY <2>1, <2>2
<1> QED
  BY <1>2 DEF Answered

LEMMA LeavesAnswered ==
  ASSUME StaffInv, Answered, NEW c \in Calls, Leaves(c) PROVE Answered'
<1> DEFINE p == call[c].who
           m == call[c].to
           rows == call[c].rows
<1>1. /\ active' = active \ {p}
      /\ roster' = [i \in Instructors |-> IF i \in rows THEN m ELSE roster[i]]
      /\ primary' = [u \in Universities |->
                       IF m # None /\ primary[u] = p /\ u = Home[p] THEN m ELSE primary[u]]
      /\ astray' = astray \cup Strays(m) \cup LeavesChosen(p)
      /\ Ends(c)
  BY DEF Leaves, PrimaryAfter
<1>2. /\ call[c] \in Request /\ m \in Managers \cup {None}
      /\ RequestKnows(call[c]) /\ Counted(call[c]) /\ None \notin Managers
  BY StaffAssumption DEF StaffInv, TypeOK, Request, Answered, Staff
<1>3. /\ m # None => p \in Managers /\ m # p /\ call[c].at = "commit"
      /\ m = None => call[c].at = "write"
      /\ call[c].op = "leave"
  BY <1>2 DEF RequestKnows, Leaves, Is
<1>4. p \in Managers \ astray => \A i \in Instructors : roster[i] = p => i \in rows
  BY <1>2, <1>3 DEF Counted, NobodyWith, NobodyUnder
<1>5. p \in Managers \ astray /\ m = None => NobodyWith(p)
  BY <1>2, <1>3 DEF Counted
<1>6. m # None => m \in active \cup astray
  BY <1>2, <1>3 DEF Counted
<1>7. \A i \in rows : roster[i] = p /\ m # None
  BY <1>2 DEF RequestKnows
<1>8. /\ \A u \in Universities : primary[u] = p /\ p # None => u = Home[p]
      /\ PastCounting(m) /\ m # None => m \in astray'
      /\ Chosen(p) /\ p \in Managers => p \in astray'
  BY <1>1, <1>2 DEF StaffInv, LeadersAreFromHere, Strays, LeavesChosen
<1> HIDE DEF p, m, rows
<1>9. LeaversHaveNobody'
  <2> SUFFICES ASSUME NEW n \in Managers, n \notin active', n \notin astray'
               PROVE  NobodyWith(n)'
    BY DEF LeaversHaveNobody
  <2>1. n # m /\ n # None
    BY <1>1, <1>2, <1>3, <1>6
  <2>2. CASE n = p
    <3>1. \A i \in Instructors : roster'[i] # p
      BY <1>1, <1>4, <2>1, <2>2
    <3>2. \A u \in Universities : primary'[u] # p
      BY <1>1, <1>2, <1>5, <1>8, <2>1, <2>2 DEF NobodyWith
    <3> QED
      BY <2>2, <3>1, <3>2 DEF NobodyWith, NobodyUnder
  <2>3. CASE n # p
    <3>1. NobodyWith(n)
      BY <1>1, <2>3 DEF Answered, LeaversHaveNobody
    <3> QED
      BY <1>1, <2>1, <3>1 DEF NobodyWith, NobodyUnder
  <2> QED
    BY <2>2, <2>3
<1>10. \A n \in Managers \ astray' : PastCounting(n) =>
         /\ \A i \in Instructors : roster'[i] = n => roster[i] = n
         /\ \A u \in Universities : primary'[u] = n => primary[u] = n
  BY <1>1, <1>2, <1>7, <1>8
<1>11. \A n \in Managers \ astray' : Chosen(n) /\ n \in active => n \in active'
  BY <1>1, <1>8
<1>12. astray \subseteq astray'
  BY <1>1
<1> QED
  BY <1>1, <1>9, <1>10, <1>11, <1>12, WritesStayCounted

LEMMA ReturnsAnswered ==
  ASSUME StaffInv, Answered, NEW c \in Calls, Returns(c) PROVE Answered'
<1>1. /\ active \subseteq active' /\ UNCHANGED <<roster, primary, astray>> /\ Ends(c)
  BY DEF Returns
<1>2. LeaversHaveNobody'
  BY <1>1 DEF Answered, LeaversHaveNobody, NobodyWith, NobodyUnder
<1> QED
  BY <1>1, <1>2, WritesStayCounted

LEMMA GivesAnswered ==
  ASSUME StaffInv, Answered, NEW c \in Calls, Assigns(c) \/ Hires(c) PROVE Answered'
<1> DEFINE i == call[c].who
           m == call[c].to
<1>1. call[c] \in Request /\ RequestKnows(call[c]) /\ Counted(call[c]) /\ None \notin Managers
  BY StaffAssumption DEF StaffInv, TypeOK, Answered, Staff
<1>2. i \in Instructors /\ m \in Managers \cup {None} /\ Ends(c)
  BY <1>1 DEF Request, RequestKnows, Assigns, Hires, Is
<1>3. CASE UNCHANGED <<tables, astray>>
  <2>1. LeaversHaveNobody'
    BY <1>3 DEF Answered, LeaversHaveNobody, NobodyWith, NobodyUnder, tables
  <2> QED
    BY <1>2, <1>3, <2>1, WritesStayCounted DEF tables
<1>4. CASE /\ roster' = [roster EXCEPT ![i] = m] /\ primary' = primary /\ active \subseteq active'
           /\ astray \cup Strays(m) \subseteq astray'
           /\ m # None => m \in active' \cup astray'
  <2>1. \A n \in Managers, j \in Instructors : roster'[j] = n => roster[j] = n \/ n = m
    BY <1>2, <1>4 DEF StaffInv, TypeOK
  <2>2. LeaversHaveNobody'
    BY <1>1, <1>4, <2>1 DEF Answered, LeaversHaveNobody, NobodyWith, NobodyUnder
  <2>3. PastCounting(m) /\ m # None => m \in astray'
    BY <1>2, <1>4 DEF Strays
  <2>4. \A n \in Managers \ astray' : PastCounting(n) =>
          /\ \A j \in Instructors : roster'[j] = n => roster[j] = n
          /\ \A u \in Universities : primary'[u] = n => primary[u] = n
    BY <1>1, <1>4, <2>1, <2>3
  <2> QED
    BY <1>2, <1>4, <2>2, <2>4, WritesStayCounted
<1>5. CASE Assigns(c)
  <2>1. m # None => m \in active \cup astray
    BY <1>1, <1>5 DEF Assigns, Is, Counted
  <2> QED
    BY <1>4, <1>5, <2>1 DEF Assigns
<1>6. CASE Hires(c)
  BY <1>3, <1>4, <1>6 DEF Hires
<1> QED
  BY <1>5, <1>6

LEMMA HiresManagerAnswered ==
  ASSUME StaffInv, Answered, NEW c \in Calls, HiresManager(c) PROVE Answered'
<1> DEFINE m == call[c].who
<1>1. Ends(c)
  BY DEF HiresManager
<1>2. CASE UNCHANGED <<tables, astray>>
  <2>1. LeaversHaveNobody'
    BY <1>2 DEF Answered, LeaversHaveNobody, NobodyWith, NobodyUnder, tables
  <2> QED
    BY <1>1, <1>2, <2>1, WritesStayCounted DEF tables
<1>3. CASE m \notin exists /\ active' = active \cup {m} /\ UNCHANGED <<roster, astray>>
           /\ primary' \in {primary, [primary EXCEPT ![Home[m]] = m]}
  <2>1. ~PastCounting(m)
    <3>1. \A d \in Calls : call[d].op = "leave" => call[d].who \in exists
      BY DEF StaffInv, RequestKnows
    <3> QED
      BY <1>3, <3>1 DEF PastCounting
  <2>2. \A n \in Managers, u \in Universities : primary'[u] = n => primary[u] = n \/ n = m
    BY <1>3 DEF StaffInv, TypeOK
  <2>3. LeaversHaveNobody'
    BY <1>3, <2>2 DEF Answered, LeaversHaveNobody, NobodyWith, NobodyUnder
  <2>4. \A n \in Managers \ astray' : PastCounting(n) =>
          /\ \A i \in Instructors : roster'[i] = n => roster[i] = n
          /\ \A u \in Universities : primary'[u] = n => primary[u] = n
    BY <1>3, <2>1, <2>2
  <2> QED
    BY <1>1, <1>3, <2>3, <2>4, WritesStayCounted
<1> QED
  BY <1>2, <1>3 DEF HiresManager

LEMMA NextAnswered == StaffInv /\ Answered /\ [Next]_vars => Answered'
<1> SUFFICES ASSUME StaffInv, Answered, [Next]_vars PROVE Answered'
  OBVIOUS
<1>1. ASSUME NEW c \in Calls, NEW p \in Staff, NEW m \in Managers \cup {None},
             AsksToLeave(c, p, m)
      PROVE  Answered'
  <2> DEFINE r == Asks("leave", "check", p, m, \E i \in Instructors : roster[i] = p)
  <2>1. Counted(r)
    BY DEF Asks, Counted, NobodyUnder
  <2> QED
    BY <1>1, <2>1, ReadsStayCounted DEF AsksToLeave
<1>2. ASSUME NEW c \in Calls, NEW p, NEW m, NEW op \in {"return", "hire", "hireManager"},
             NEW found, Becomes(c, Asks(op, "write", p, m, found)), UNCHANGED <<tables, astray>>
      PROVE  Answered'
  <2>1. Counted(Asks(op, "write", p, m, found))
    BY DEF Asks, Counted
  <2> QED
    BY <1>2, <2>1, ReadsStayCounted
<1>3. ASSUME NEW c \in Calls, NEW p \in Staff, AsksToReturn(c, p) PROVE Answered'
  BY <1>2, <1>3 DEF AsksToReturn
<1>4. ASSUME NEW c \in Calls, NEW i \in Instructors, NEW m \in Managers \cup {None},
             NEW by \in Managers \cup {None}, AsksToHire(c, i, m, by)
      PROVE  Answered'
  BY <1>2, <1>4 DEF AsksToHire
<1>5. ASSUME NEW c \in Calls, NEW m \in Managers, AsksToHireManager(c, m) PROVE Answered'
  BY <1>2, <1>5 DEF AsksToHireManager
<1>6. ASSUME NEW c \in Calls, NEW i \in Instructors, NEW m \in Managers \cup {None},
             NEW by \in Managers \cup {None}, AsksToAssign(c, i, m, by)
      PROVE  Answered'
  <2> DEFINE r == Asks("assign", IF m = None THEN "write" ELSE "check", i, m, FALSE)
  <2>1. Counted(r)
    BY DEF Asks, Counted
  <2> QED
    BY <1>6, <2>1, ReadsStayCounted DEF AsksToAssign
<1>7. ASSUME NEW c \in Calls, Ends(c), UNCHANGED <<tables, astray>> PROVE Answered'
  <2>1. Counted(Asks("none", "done", None, None, FALSE))
    BY DEF Asks, Counted
  <2> QED
    BY <1>7, <2>1, ReadsStayCounted DEF Ends
<1>8. ASSUME NEW c \in Calls, ChecksSuccessor(c) PROVE Answered'
  <2> DEFINE p == call[c].who
             m == call[c].to
  <2>1. call[c].op = "leave" /\ call[c].at = "check" /\ Counted(call[c]) /\ RequestKnows(call[c])
    BY <1>8 DEF ChecksSuccessor, Is, Answered, StaffInv
  <2>2. UNCHANGED <<tables, astray>>
    BY <1>8 DEF ChecksSuccessor
  <2>3. CASE /\ ~(p \in Managers /\ (call[c].found \/ primary[Home[p]] = p))
             /\ Proceeds(c, None)
    <3> DEFINE r == Asks("leave", "write", p, None, FALSE)
    <3>1. p \in Managers \ astray => NobodyWith(p)
      <4> SUFFICES ASSUME p \in Managers \ astray PROVE NobodyWith(p)
        OBVIOUS
      <4>1. NobodyUnder(p) /\ primary[Home[p]] # p
        BY <2>1, <2>3 DEF Counted
      <4>2. \A u \in Universities : primary[u] = p => u = Home[p]
        BY StaffAssumption DEF StaffInv, LeadersAreFromHere, Staff
      <4> QED
        BY <4>1, <4>2 DEF NobodyWith
    <3>2. Counted(r)
      BY <3>1 DEF Asks, Counted
    <3> QED
      BY <2>1, <2>2, <2>3, <3>2, ReadsStayCounted DEF Proceeds
  <2>4. CASE SuccessorFits(p, m) /\ Proceeds(c, m)
    <3> DEFINE r == Asks("leave", "write", p, m, FALSE)
    <3>1. Counted(r)
      <4>1. m \in active /\ m # None
        BY <2>4, StaffAssumption DEF SuccessorFits, StaffInv, TypeOK, Staff
      <4> QED
        BY <4>1 DEF Asks, Counted
    <3> QED
      BY <2>1, <2>2, <2>4, <3>1, ReadsStayCounted DEF Proceeds
  <2> QED
    BY <1>7, <1>8, <2>2, <2>3, <2>4 DEF ChecksSuccessor
<1>9. ASSUME NEW c \in Calls, MovesRoster(c) PROVE Answered'
  <2> DEFINE p == call[c].who
             r == [call[c] EXCEPT !.at = "commit", !.rows = {i \in Instructors : roster[i] = p}]
  <2>1. call[c] \in Request /\ Counted(call[c]) /\ call[c].op = "leave" /\ call[c].at = "write"
        /\ call[c].to # None
    BY <1>9 DEF MovesRoster, Is, StaffInv, TypeOK, Answered
  <2>2. /\ r.at = "commit" /\ r.op = "leave" /\ r.who = p /\ r.to = call[c].to
        /\ r.rows = {i \in Instructors : roster[i] = p}
    BY <2>1 DEF Request
  <2>3. Counted(r)
    BY <2>1, <2>2 DEF Counted
  <2> QED
    BY <1>9, <2>3, ReadsStayCounted DEF MovesRoster
<1>10. ASSUME NEW c \in Calls, ChecksManager(c) PROVE Answered'
  <2> DEFINE r == Asks("assign", "write", call[c].who, call[c].to, FALSE)
  <2>1. CASE MayLead(call[c].to, call[c].who) /\ Proceeds(c, call[c].to)
    <3>1. Counted(r)
      BY <2>1 DEF MayLead, Asks, Counted
    <3>2. Becomes(c, r)
      BY <1>10, <2>1 DEF ChecksManager, Is, Proceeds
    <3> QED
      BY <1>10, <3>1, <3>2, ReadsStayCounted DEF ChecksManager
  <2> QED
    BY <1>7, <1>10, <2>1 DEF ChecksManager
<1>11. ASSUME NEW c \in Calls, Leaves(c) \/ Returns(c) \/ Assigns(c) \/ Hires(c) \/ HiresManager(c)
       PROVE  Answered'
  BY <1>11, LeavesAnswered, ReturnsAnswered, GivesAnswered, HiresManagerAnswered
<1>12. CASE UNCHANGED vars
  BY <1>12 DEF vars, tables, Answered, LeaversHaveNobody, Counted, NobodyWith, NobodyUnder
<1> QED
  BY <1>1, <1>3, <1>4, <1>5, <1>6, <1>8, <1>9, <1>10, <1>11, <1>12 DEF Next, Continues

\* Who has left has nobody, unless a write beside or after the departure gave
\* them somebody, and every request in flight has counted right.
THEOREM AnsweredInvariant == Spec => []Answered
<1>1. Init => Answered
  BY InitAnswered
<1>2. StaffInv /\ Answered /\ [Next]_vars => Answered'
  BY NextAnswered
<1> QED
  BY <1>1, <1>2, StaffInvariant, PTL DEF Spec

\* Every instructor of a university with managers is answered for by exactly one
\* of them, who can sign in but for the cases astray names.
THEOREM EverybodyIsAnswered == Spec => []OneManagerAnswers
<1>1. StaffInv /\ Answered => OneManagerAnswers
  <2> SUFFICES ASSUME StaffInv, Answered, NEW i \in Instructors \cap exists,
                      NEW m \in Managers \cap exists, Home[m] = Home[i]
               PROVE  \E k \in active \cup astray : \A n \in Managers :
                        CanReadInstructorWork(University(n), i) <=> n = k
    BY DEF OneManagerAnswers
  <2>1. \A n \in Managers : CanReadInstructorWork(University(n), i) <=>
          /\ Home[i] = Home[n]
          /\ roster[i] = n \/ (roster[i] = None /\ primary[Home[i]] = n)
    BY DEF CanReadInstructorWork, CanReadInstructor, University
  <2>2. None \notin Managers /\ Home[i] \in Universities
    BY StaffAssumption DEF Staff
  <2>3. CASE roster[i] # None
    <3>1. roster[i] \in Managers /\ Home[roster[i]] = Home[i]
      BY <2>3 DEF StaffInv, TypeOK, LeadersAreFromHere
    <3>2. roster[i] \in active \cup astray
      BY <3>1 DEF Answered, LeaversHaveNobody, NobodyWith, NobodyUnder
    <3> QED
      BY <2>1, <2>3, <3>1, <3>2
  <2>4. CASE roster[i] = None
    <3>1. /\ primary[Home[i]] \in Managers
          /\ Home[primary[Home[i]]] = Home[i]
      BY <2>2 DEF StaffInv, TypeOK, LeadersAreFromHere, SomebodyStandsIn
    <3>2. primary[Home[i]] \in active \cup astray
      BY <2>2, <3>1 DEF Answered, LeaversHaveNobody, NobodyWith
    <3> QED
      BY <2>1, <2>2, <2>4, <3>1, <3>2
  <2> QED
    BY <2>3, <2>4
<1> QED
  BY <1>1, StaffInvariant, AnsweredInvariant, PTL

\* GET instructors lists nobody whose record the caller would be refused.
THEOREM ListsAgree == Spec => []ListsAgreeWithRecords
<1>1. StaffInv => ListsAgreeWithRecords
  <2> SUFFICES ASSUME StaffInv, NEW scope \in Scopes, NEW u \in Universities \cup {None},
                      NEW m \in Managers \cup {None}, NEW i \in Listed(scope, u, m)
               PROVE  CanReadInstructorWork(scope, i)
    BY DEF ListsAgreeWithRecords
  <2>1. i \in InUniversity(scope, u) /\ i \in OnRoster(scope, m)
    BY DEF Listed
  <2>2. CASE scope = Global
    BY <2>2 DEF Global, CanReadInstructorWork, CanReadInstructor
  <2>3. CASE \E n \in Managers : scope = University(n)
    BY <2>1, <2>3 DEF University, CanReadInstructorWork, CanReadInstructor, InUniversity, OnRoster
  <2>4. CASE \E j \in Instructors : scope = Self(j)
    BY <2>1, <2>4 DEF Self, CanReadInstructorWork, CanReadInstructor, InUniversity
  <2> QED
    BY <2>2, <2>3, <2>4 DEF Scopes
<1> QED
  BY <1>1, StaffInvariant, PTL

\* Once a departure with a successor commits, no instructor and no university is
\* with the leaver, unless a write beside it put them there.
THEOREM HandoverCompletes == Spec => HandoverIsComplete
<1>1. ASSUME StaffInv, StaffInv', Answered', NEW c \in Calls, Leaves(c), call[c].to # None,
             call[c].who \notin astray'
      PROVE  /\ \A i \in Instructors : roster'[i] # call[c].who
             /\ \A u \in Universities : primary'[u] # call[c].who
  <2>1. call[c].who \in Managers /\ call[c].who \notin active'
    BY <1>1 DEF StaffInv, RequestKnows, Leaves, Is
  <2> QED
    BY <1>1, <2>1 DEF Answered, LeaversHaveNobody, NobodyWith, NobodyUnder
<1>2. StaffInv /\ StaffInv' /\ Answered' /\ [Next]_vars =>
        [\A c \in Calls :
           Leaves(c) /\ call[c].to # None /\ call[c].who \notin astray' =>
             /\ \A i \in Instructors : roster'[i] # call[c].who
             /\ \A u \in Universities : primary'[u] # call[c].who]_vars
  BY <1>1
<1> QED
  BY <1>2, StaffInvariant, AnsweredInvariant, PTL DEF Spec, HandoverIsComplete
=============================================================================
