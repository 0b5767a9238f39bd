-------------------------- MODULE ImportExecuteMC --------------------------
(***************************************************************************)
(* ImportExecute on files of up to four rows.  Two universities, one      *)
(* manager and two instructors, named in the ways a file may name them: in *)
(* full, by code alone, by address alone, under two codes, under another   *)
(* one's address, in a university they are not of, with a cell the code    *)
(* cannot read.                                                            *)
(***************************************************************************)
EXTENDS ImportExecute, TLC

CONSTANTS
  Kinds,   \* which of the rows below files of one or two rows are made of
  Trios,   \* and files of three
  Before   \* which of the databases below a run may find

Blank == [uni |-> None, uname |-> None, zone |-> None,
          mcode |-> None, memail |-> None, mname |-> None,
          icode |-> None, iemail |-> None, iname |-> None, status |-> None]

AtU1 == [Blank EXCEPT !.uni = "U1"]

MCRow ==
  [full |-> [AtU1 EXCEPT !.uname = "North", !.mcode = "M1", !.memail = "mia",
                         !.mname = "Mia", !.icode = "I1", !.iemail = "ivy",
                         !.iname = "Ivy", !.status = "active"],
   byManagerCode |-> [AtU1 EXCEPT !.mcode = "M1", !.icode = "I2",
                                  !.iemail = "ian", !.iname = "Ian"],
   renameByCode |-> [AtU1 EXCEPT !.icode = "I1", !.iname = "Ida"],
   retireByCode |-> [AtU1 EXCEPT !.icode = "I1", !.status = "inactive"],
   retireByEmail |-> [AtU1 EXCEPT !.uname = "South", !.mcode = "M1",
                                  !.memail = "mia", !.mname = "Mia",
                                  !.iemail = "ivy", !.status = "inactive"],
   secondCode |-> [AtU1 EXCEPT !.mcode = "M2", !.memail = "mia", !.mname = "Mia"],
   recode |-> [AtU1 EXCEPT !.icode = "I2", !.iemail = "ivy", !.iname = "Ivy"],
   reuse |-> [AtU1 EXCEPT !.icode = "I1", !.iemail = "ian", !.iname = "Ian"],
   newcomer |-> [AtU1 EXCEPT !.uname = "North", !.iemail = "ian", !.iname = "Ian"],
   branch |-> [Blank EXCEPT !.uni = "U2", !.uname = "East", !.mcode = "M1",
                            !.memail = "max", !.mname = "Max",
                            !.iemail = "eve", !.iname = "Eve", !.icode = "I1"],
   branchLater |-> [Blank EXCEPT !.uni = "U2", !.mcode = "M1",
                                 !.iemail = "eve", !.iname = "Eve"],
   namesake |-> [AtU1 EXCEPT !.uname = "North", !.iemail = "ned",
                             !.iname = "Ned", !.icode = "I2"],
   stateIan |-> [AtU1 EXCEPT !.iemail = "ian", !.status = "active"],
   renameIan |-> [AtU1 EXCEPT !.iemail = "ian", !.iname = "Ivo"],
   retireIan |-> [AtU1 EXCEPT !.iemail = "ian", !.iname = "Ian", !.status = "inactive"],
   alias |-> [AtU1 EXCEPT !.icode = "I1", !.iemail = "ian"],
   poach |-> [Blank EXCEPT !.uni = "U2", !.uname = "East", !.mcode = "M2",
                           !.memail = "mia", !.mname = "Mia",
                           !.iemail = "ivy", !.iname = "Ivy", !.icode = "I1"],
   unreadable |-> [AtU1 EXCEPT !.iemail = "ivy", !.status = "unreadable"],
   noUniversity |-> Blank]

\* Ian is first named by the row that gives Ivy's code to him too.
Borrowed == <<MCRow["stateIan"], MCRow["full"], MCRow["reuse"], MCRow["renameIan"]>>

MCFiles ==
  LET Made(kinds) == {MCRow[k] : k \in kinds}
  IN [1..1 -> Made(Kinds)] \cup [1..2 -> Made(Kinds)] \cup [1..3 -> Made(Trios)]
       \cup {Borrowed}

Account(kind, name, code, status, lead, since) ==
  [kind |-> kind, uni |-> "U1", name |-> name, code |-> code,
   status |-> status, lead |-> lead, since |-> since]

MCDatabase ==
  [empty |-> [universities |-> <<>>, people |-> <<>>],
   staffed |->
     [universities |-> "U1" :> [name |-> "North", primary |-> "mia"],
      people |-> "mia" :> Account("MANAGER", "Mia", "M1", "active", None, 0)
              @@ "ivy" :> Account("INSTRUCTOR", "Ivy", "I1", "active", "mia", 1)],
   uncoded |->
     [universities |-> "U1" :> [name |-> "Norht", primary |-> None],
      people |-> "mia" :> Account("MANAGER", "Mia", "M1", "active", None, 0)
              @@ "ivy" :> Account("INSTRUCTOR", "Ivy", None, "inactive", None, 1)
              @@ "ian" :> Account("INSTRUCTOR", "Ira", None, "active", None, 2)]]

MCDatabases == {MCDatabase[b] : b \in Before}

MCElsewhere ==
  {[kind |-> "INSTRUCTOR", uni |-> "U1", email |-> "ian", name |-> "Ian",
    code |-> None, status |-> None, lead |-> None],
   [kind |-> "MANAGER", uni |-> "U1", email |-> "pat", name |-> "Pat",
    code |-> None, status |-> None, lead |-> None],
   [kind |-> "MANAGER", uni |-> "U2", email |-> "eve", name |-> "Eve",
    code |-> "M1", status |-> None, lead |-> None]}

MCValidEmails == {"mia", "ivy", "ian", "max", "eve", "ned"}

=============================================================================
