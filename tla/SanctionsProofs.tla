--------------------------- MODULE SanctionsProofs ---------------------------
(***************************************************************************)
(* Proofs about Sanctions for any users, rows, reports, charges, deadlines *)
(* and bounds.                                                             *)
(***************************************************************************)
EXTENDS Sanctions, TLAPS

USE SanctionConstants DEF Places, Punishments, Offences, Terms

\* A row that is not there yet is blank, and a row another row names is there.
RowsNamed ==
    /\ \A x \in Restrictions : restriction[x].status = "ABSENT" => restriction[x] = NoRestriction
    /\ \A i \in Infractions : infraction[i].status = "ABSENT" => infraction[i] = NoInfraction
    /\ \A a \in Appeals : appeal[a].status = "ABSENT" => appeal[a] = NoAppeal
    /\ \A i \in Infractions : infraction[i].enforcement # None
            => restriction[infraction[i].enforcement].status # "ABSENT"
    /\ \A a \in Appeals : appeal[a].status # "ABSENT"
            => appeal[a].infraction \in Infractions /\ infraction[appeal[a].infraction].status # "ABSENT"

SanctionsInv == /\ TypeOK /\ RowsNamed /\ RevokedIsLifted /\ MitigatedOnce
                /\ PairsShareReport /\ UserKnowsTheTerm

-----------------------------------------------------------------------------
(* What a step may do to each row.                                          *)

\* A restriction keeps what it is and what it is linked to, is never put in
\* force again, and the user is told when its term is set.
RestrictionMoves(x) ==
    /\ restriction'[x] # restriction[x] => restriction'[x].version > restriction[x].version
    /\ restriction[x].status # "ABSENT" => restriction'[x].status # "ABSENT"
    /\ restriction'[x].status = "ABSENT" => restriction'[x] = restriction[x]
    /\ restriction'[x].status = "ACTIVE" => restriction[x].status \in {"ABSENT", "ACTIVE"}
    /\ restriction[x].report # None => restriction'[x].report = restriction[x].report
    /\ \/ /\ restriction'[x].status = "ACTIVE" => restriction[x].status = "ACTIVE"
          /\ restriction'[x].place = restriction[x].place
          /\ restriction'[x].type = restriction[x].type
          /\ restriction'[x].until = restriction[x].until
          /\ announced'[x] = announced[x]
       \/ AlwaysNoticed(restriction'[x].place, restriction'[x].type)
            => announced'[x] \in {restriction'[x].until, Unclear}

\* An infraction keeps its enforcement and its report; it is revoked once,
\* with its enforcement and one mitigating observation.
InfractionMoves(i) ==
    /\ infraction'[i] # infraction[i] => infraction'[i].version > infraction[i].version
    /\ infraction[i].report # None => infraction'[i].report = infraction[i].report
    /\ infraction'[i].status = "ACTIVE" => infraction[i].status \in {"ABSENT", "ACTIVE"}
    /\ infraction'[i].status = "ABSENT" => infraction'[i] = infraction[i]
    /\ \/ infraction[i].status # "ABSENT" /\ infraction'[i].enforcement = infraction[i].enforcement
       \/ /\ infraction[i].status = "ABSENT" /\ infraction'[i].status \in {"ABSENT", "ACTIVE"}
          /\ infraction'[i].enforcement # None =>
                restriction'[infraction'[i].enforcement].status # "ABSENT"
    /\ \/ (infraction'[i].status = "REVOKED" <=> infraction[i].status = "REVOKED")
          /\ mitigated'[i] = mitigated[i]
       \/ /\ infraction[i].status = "ACTIVE" /\ infraction'[i].status = "REVOKED"
          /\ mitigated'[i] = mitigated[i] + 1
          /\ infraction'[i].enforcement # None =>
                restriction'[infraction'[i].enforcement].status # "ACTIVE"

\* An appeal names one infraction for good, and is accepted on none that stays active.
AppealMoves(a) ==
    /\ appeal'[a] # appeal[a] => appeal'[a].version > appeal[a].version
    /\ \/ appeal'[a] = appeal[a]
       \/ /\ appeal'[a].status # "ABSENT"
          /\ appeal'[a].infraction \in Infractions
          /\ infraction[appeal'[a].infraction].status # "ABSENT"
          /\ appeal'[a].status = "RESOLVED" => infraction'[appeal'[a].infraction].status # "ACTIVE"

Moves ==
    /\ TypeOK'
    /\ \A x \in Restrictions : RestrictionMoves(x)
    /\ \A i \in Infractions : InfractionMoves(i)
    /\ \A a \in Appeals : AppealMoves(a)
    /\ PairsShareReport'

\* Such moves keep the invariant.
LEMMA MovesKeepInv ==
    ASSUME SanctionsInv, Moves
    PROVE  SanctionsInv'
<1>1. TypeOK' /\ PairsShareReport'
  BY DEF Moves
<1>2. RowsNamed'
  <2>1. \A x \in Restrictions : restriction'[x].status = "ABSENT" => restriction'[x] = NoRestriction
    BY DEF SanctionsInv, RowsNamed, Moves, RestrictionMoves
  <2>2. \A i \in Infractions : infraction'[i].status = "ABSENT" => infraction'[i] = NoInfraction
    BY DEF SanctionsInv, RowsNamed, Moves, InfractionMoves
  <2>3. ASSUME NEW i \in Infractions, infraction'[i].enforcement # None
        PROVE  restriction'[infraction'[i].enforcement].status # "ABSENT"
    <3>1. infraction'[i].enforcement \in Restrictions
      BY <1>1, <2>3 DEF TypeOK, InfractionRows
    <3> QED
      BY <2>3, <3>1 DEF SanctionsInv, RowsNamed, Moves, InfractionMoves, RestrictionMoves
  <2>4. ASSUME NEW a \in Appeals, appeal'[a].status # "ABSENT"
        PROVE  appeal'[a].infraction \in Infractions /\ infraction'[appeal'[a].infraction].status # "ABSENT"
    <3>1. appeal'[a].infraction \in Infractions /\ infraction[appeal'[a].infraction].status # "ABSENT"
      BY <2>4 DEF SanctionsInv, RowsNamed, Moves, AppealMoves
    <3> QED
      BY <3>1 DEF Moves, InfractionMoves
  <2>5. \A a \in Appeals : appeal'[a].status = "ABSENT" => appeal'[a] = NoAppeal
    BY DEF SanctionsInv, RowsNamed, Moves, AppealMoves
  <2> QED
    BY <2>1, <2>2, <2>3, <2>4, <2>5 DEF RowsNamed
<1>3. RevokedIsLifted'
  <2> SUFFICES ASSUME NEW i \in Infractions, infraction'[i].status = "REVOKED",
                      infraction'[i].enforcement # None
               PROVE  restriction'[infraction'[i].enforcement].status # "ACTIVE"
    BY DEF RevokedIsLifted
  <2>1. infraction'[i].enforcement \in Restrictions
    BY <1>1 DEF TypeOK, InfractionRows
  <2>2. CASE infraction[i].status = "REVOKED"
    BY <2>1, <2>2 DEF SanctionsInv, RowsNamed, RevokedIsLifted, Moves, InfractionMoves, RestrictionMoves
  <2>3. CASE infraction[i].status # "REVOKED"
    BY <2>1, <2>3 DEF Moves, InfractionMoves
  <2> QED
    BY <2>2, <2>3
<1>4. MitigatedOnce'
  <2>1. \A i \in Infractions : mitigated'[i] = IF infraction'[i].status = "REVOKED" THEN 1 ELSE 0
    BY DEF SanctionsInv, MitigatedOnce, Moves, InfractionMoves
  <2>2. ASSUME NEW a \in Appeals, appeal'[a].status = "RESOLVED"
        PROVE  infraction'[appeal'[a].infraction].status # "ACTIVE"
    <3>1. CASE appeal'[a] = appeal[a]
      <4>1. /\ appeal[a].infraction \in Infractions
            /\ infraction[appeal[a].infraction].status \notin {"ABSENT", "ACTIVE"}
        BY <2>2, <3>1 DEF SanctionsInv, RowsNamed, MitigatedOnce
      <4> QED
        BY <3>1, <4>1 DEF Moves, InfractionMoves
    <3> QED
      BY <2>2, <3>1 DEF Moves, AppealMoves
  <2> QED
    BY <2>1, <2>2 DEF MitigatedOnce
<1>5. UserKnowsTheTerm'
  BY DEF SanctionsInv, UserKnowsTheTerm, Moves, RestrictionMoves
<1> QED
  BY <1>1, <1>2, <1>3, <1>4, <1>5 DEF SanctionsInv

-----------------------------------------------------------------------------
(* Every action makes such moves.                                           *)

\* Rows the actions write are rows of their tables, one version on.
LEMMA RestrictionWithTyped ==
    ASSUME NEW row \in RestrictionRows, NEW status \in {"ABSENT", "ACTIVE", "REVOKED", "EXPIRED"},
           NEW until \in Terms, NEW rep \in Reports \cup {None}
    PROVE  RestrictionWith(row, status, until, rep) \in RestrictionRows
  BY DEF RestrictionWith, RestrictionRows

\* The same for infractions.
LEMMA InfractionWithTyped ==
    ASSUME NEW row \in InfractionRows, NEW status \in {"ABSENT", "ACTIVE", "REVOKED", "EXPIRED"},
           NEW rep \in Reports \cup {None}
    PROVE  InfractionWith(row, status, rep) \in InfractionRows
  BY DEF InfractionWith, InfractionRows

\* A restriction the table takes is put on a blank row that nothing names.
LEMMA FreshRestriction ==
    ASSUME SanctionsInv, NEW x \in Restrictions, NEW u, NEW p, NEW t, Insertable(x, u, p, t)
    PROVE  /\ restriction[x] = NoRestriction
           /\ \A i \in Infractions : infraction[i].enforcement # x
  BY DEF SanctionsInv, RowsNamed, Insertable, Fresh, TypeOK

\* A new infraction is put on a blank row that nothing names.
LEMMA FreshInfraction ==
    ASSUME SanctionsInv, NEW i \in Infractions, Fresh(i, infraction)
    PROVE  /\ infraction[i] = NoInfraction
           /\ \A a \in Appeals : appeal[a].status # "ABSENT" => appeal[a].infraction # i
  BY DEF SanctionsInv, RowsNamed, Fresh, TypeOK

\* What a call punishes an offence with.
LEMMA RequiredEnforcementTyped ==
    ASSUME NEW t \in Offences, NEW p \in Places
    PROVE  RequiredEnforcement(t, p) \in Punishments \cup {None}
  BY DEF RequiredEnforcement

\* One restriction is written, at the most, and nothing else but its notice.
LEMMA RestrictionWritten ==
    ASSUME SanctionsInv, NEW x \in Restrictions, NEW row \in RestrictionRows,
           restriction' = [restriction EXCEPT ![x] = row],
           row.version > restriction[x].version, row.status # "ABSENT",
           row.status = "ACTIVE" => restriction[x].status \in {"ABSENT", "ACTIVE"},
           restriction[x].report # None => row.report = restriction[x].report,
           \A i \in Infractions : infraction[i].enforcement = x => row.report = restriction[x].report,
           announced' \in [Restrictions -> Terms \cup {Silent, Unclear}],
           \A y \in Restrictions : y # x => announced'[y] = announced[y],
           \/ /\ row.status = "ACTIVE" => restriction[x].status = "ACTIVE"
              /\ row.place = restriction[x].place /\ row.type = restriction[x].type
              /\ row.until = restriction[x].until /\ announced'[x] = announced[x]
           \/ AlwaysNoticed(row.place, row.type) => announced'[x] \in {row.until, Unclear},
           UNCHANGED <<infraction, appeal, raised, mitigated, now>>
    PROVE  Moves
<1>1. TypeOK'
  BY DEF SanctionsInv, TypeOK
<1>2. \A y \in Restrictions : RestrictionMoves(y)
  BY DEF SanctionsInv, TypeOK, RestrictionMoves
<1>3. \A i \in Infractions : InfractionMoves(i)
  BY DEF SanctionsInv, TypeOK, RowsNamed, NoInfraction, InfractionMoves
<1>4. \A a \in Appeals : AppealMoves(a)
  BY DEF SanctionsInv, TypeOK, AppealMoves
<1>5. PairsShareReport'
  BY DEF SanctionsInv, TypeOK, PairsShareReport, InfractionRows
<1> QED
  BY <1>1, <1>2, <1>3, <1>4, <1>5 DEF Moves

\* The notice of a restriction changes what was announced of it alone.
LEMMA AnnounceWrites ==
    ASSUME TypeOK, NEW x \in Restrictions, NEW p, NEW t, NEW until \in Terms \cup {Unclear},
           Announce(x, p, t, until)
    PROVE  /\ announced' \in [Restrictions -> Terms \cup {Silent, Unclear}]
           /\ \A y \in Restrictions : y # x => announced'[y] = announced[y]
           /\ AlwaysNoticed(p, t) => announced'[x] = until
  BY DEF TypeOK, Announce, AlwaysNoticed

\* A moderator's restriction.
LEMMA CreateRestrictionMoves ==
    ASSUME SanctionsInv, NEW x \in Restrictions, NEW u \in Users, NEW p \in Places, NEW t \in Punishments,
           NEW until \in Terms, NEW rep \in Reports \cup {None}, CreateRestriction(x, u, p, t, until, rep)
    PROVE  Moves
<1>r. PICK row : row = NewRestriction(u, p, t, until, rep)
  OBVIOUS
<1>1. row \in RestrictionRows /\ row.version = 1 /\ row.status = "ACTIVE" /\ row.place = p
      /\ row.type = t /\ row.until = until
  BY <1>r DEF NewRestriction, RestrictionRows
<1>2. restriction[x] = NoRestriction /\ \A i \in Infractions : infraction[i].enforcement # x
  BY FreshRestriction DEF CreateRestriction
<1>3. /\ announced' \in [Restrictions -> Terms \cup {Silent, Unclear}]
      /\ \A y \in Restrictions : y # x => announced'[y] = announced[y]
      /\ AlwaysNoticed(p, t) => announced'[x] = until
  BY AnnounceWrites DEF CreateRestriction, SanctionsInv
<1>4. restriction[x].status = "ABSENT" /\ restriction[x].version = 0 /\ restriction[x].report = None
  BY <1>2 DEF NoRestriction
<1>5. restriction' = [restriction EXCEPT ![x] = row] /\ UNCHANGED <<infraction, appeal, raised, mitigated, now>>
  BY <1>r DEF CreateRestriction
<1>6. /\ row.version > restriction[x].version /\ row.status # "ABSENT"
      /\ row.status = "ACTIVE" => restriction[x].status \in {"ABSENT", "ACTIVE"}
      /\ restriction[x].report # None => row.report = restriction[x].report
      /\ \A i \in Infractions : infraction[i].enforcement = x => row.report = restriction[x].report
      /\ AlwaysNoticed(row.place, row.type) => announced'[x] \in {row.until, Unclear}
  BY <1>1, <1>2, <1>3, <1>4
<1>7. /\ row \in RestrictionRows
      /\ announced' \in [Restrictions -> Terms \cup {Silent, Unclear}]
      /\ \A y \in Restrictions : y # x => announced'[y] = announced[y]
  BY <1>1, <1>3
<1> QED
  BY <1>5, <1>6, <1>7, RestrictionWritten

\* A moderator's change of reason or term.
LEMMA UpdateRestrictionMoves ==
    ASSUME SanctionsInv, NEW x \in Restrictions, NEW until \in Terms, UpdateRestriction(x, until)
    PROVE  Moves
<1>r. PICK row : row = RestrictionWith(restriction[x], "ACTIVE", until, restriction[x].report)
  OBVIOUS
<1>0. restriction[x] \in RestrictionRows
  BY DEF SanctionsInv, TypeOK
<1>1. row \in RestrictionRows
  BY <1>r, <1>0, RestrictionWithTyped DEF RestrictionRows
<1>2. /\ row.version > restriction[x].version /\ row.status = "ACTIVE" /\ row.report = restriction[x].report
      /\ row.place = restriction[x].place /\ row.type = restriction[x].type /\ row.until = until
  BY <1>r, <1>0 DEF RestrictionWith, RestrictionRows
<1>3. /\ announced' \in [Restrictions -> Terms \cup {Silent, Unclear}]
      /\ \A y \in Restrictions : y # x => announced'[y] = announced[y]
      /\ AlwaysNoticed(row.place, row.type) => announced'[x] = until
  BY <1>2, AnnounceWrites DEF UpdateRestriction, SanctionsInv
<1>4. restriction' = [restriction EXCEPT ![x] = row] /\ UNCHANGED <<infraction, appeal, raised, mitigated, now>>
      /\ restriction[x].status = "ACTIVE"
  BY <1>r DEF UpdateRestriction
<1> QED
  BY <1>1, <1>2, <1>3, <1>4, RestrictionWritten

\* A moderator's revocation.
LEMMA RevokeRestrictionMoves ==
    ASSUME SanctionsInv, NEW x \in Restrictions, RevokeRestriction(x)
    PROVE  Moves
<1>r. PICK row : row = RestrictionWith(restriction[x], "REVOKED", restriction[x].until, restriction[x].report)
  OBVIOUS
<1>0. restriction[x] \in RestrictionRows /\ announced \in [Restrictions -> Terms \cup {Silent, Unclear}]
  BY DEF SanctionsInv, TypeOK
<1>1. row \in RestrictionRows
  BY <1>r, <1>0, RestrictionWithTyped DEF RestrictionRows
<1>2. /\ row.version > restriction[x].version /\ row.status = "REVOKED" /\ row.report = restriction[x].report
      /\ row.place = restriction[x].place /\ row.type = restriction[x].type /\ row.until = restriction[x].until
  BY <1>r, <1>0 DEF RestrictionWith, RestrictionRows
<1>3. restriction' = [restriction EXCEPT ![x] = row] /\ UNCHANGED <<infraction, appeal, raised, mitigated, now>>
      /\ announced' = announced /\ x # None
  BY <1>r DEF RevokeRestriction, Lift
<1> QED
  BY <1>0, <1>1, <1>2, <1>3, RestrictionWritten

\* A policy's restriction, on a blank row or on the active one.
LEMMA PolicyRestrictionMoves ==
    ASSUME SanctionsInv, NEW x \in Restrictions, NEW u \in Users, NEW p \in Places, NEW t \in Punishments,
           NEW until \in Terms, PolicyRestriction(x, u, p, t, until)
    PROVE  Moves
<1>r. PICK row : row = Rewritten(x, u, p, t, until)
  OBVIOUS
<1>0. restriction[x] \in RestrictionRows
  BY DEF SanctionsInv, TypeOK
<1>1. /\ row \in RestrictionRows /\ row.version > restriction[x].version /\ row.status = "ACTIVE"
      /\ row.place = p /\ row.type = t /\ row.until = until
      /\ restriction[x].status \in {"ABSENT", "ACTIVE"}
      /\ restriction[x].report # None => row.report = restriction[x].report
      /\ \A i \in Infractions : infraction[i].enforcement = x => row.report = restriction[x].report
  <2>1. CASE Active(x, u, p, t)
    BY <1>r, <1>0, <2>1 DEF Rewritten, RestrictionWith, RestrictionRows, Active
  <2>2. CASE ~Active(x, u, p, t)
    <3>1. restriction[x] = NoRestriction /\ \A i \in Infractions : infraction[i].enforcement # x
      BY <2>2, FreshRestriction DEF PolicyRestriction, Upsertable
    <3> QED
      BY <1>r, <2>2, <3>1 DEF Rewritten, NewRestriction, RestrictionRows, NoRestriction
  <2> QED
    BY <2>1, <2>2
<1>3. /\ announced' \in [Restrictions -> Terms \cup {Silent, Unclear}]
      /\ \A y \in Restrictions : y # x => announced'[y] = announced[y]
      /\ AlwaysNoticed(p, t) => announced'[x] = until
  BY DEF PolicyRestriction, SanctionsInv, TypeOK, AlwaysNoticed
<1>4. restriction' = [restriction EXCEPT ![x] = row] /\ UNCHANGED <<infraction, appeal, raised, mitigated, now>>
  BY <1>r DEF PolicyRestriction
<1>5. /\ row.status # "ABSENT"
      /\ row.status = "ACTIVE" => restriction[x].status \in {"ABSENT", "ACTIVE"}
      /\ AlwaysNoticed(row.place, row.type) => announced'[x] \in {row.until, Unclear}
  BY <1>1, <1>3
<1>6. row \in RestrictionRows
  BY <1>1
<1>7. /\ row.version > restriction[x].version /\ row.status # "ABSENT"
      /\ row.status = "ACTIVE" => restriction[x].status \in {"ABSENT", "ACTIVE"}
      /\ restriction[x].report # None => row.report = restriction[x].report
      /\ \A i \in Infractions : infraction[i].enforcement = x => row.report = restriction[x].report
  BY <1>1, <1>5
<1>8. \/ /\ row.status = "ACTIVE" => restriction[x].status = "ACTIVE"
         /\ row.place = restriction[x].place /\ row.type = restriction[x].type
         /\ row.until = restriction[x].until /\ announced'[x] = announced[x]
      \/ AlwaysNoticed(row.place, row.type) => announced'[x] \in {row.until, Unclear}
  BY <1>5
<1>9. /\ announced' \in [Restrictions -> Terms \cup {Silent, Unclear}]
      /\ \A y \in Restrictions : y # x => announced'[y] = announced[y]
  BY <1>3
<1> QED
  BY <1>4, <1>6, <1>7, <1>8, <1>9, RestrictionWritten

\* One infraction is created, and its enforcement with it if it has one.
LEMMA InfractionCreated ==
    ASSUME SanctionsInv, NEW i \in Infractions, Fresh(i, infraction), NEW new \in InfractionRows,
           infraction' = [infraction EXCEPT ![i] = new], new.status = "ACTIVE", new.version = 1,
           \A y \in Restrictions : RestrictionMoves(y),
           restriction' \in [Restrictions -> RestrictionRows],
           announced' \in [Restrictions -> Terms \cup {Silent, Unclear}],
           raised' \in SUBSET Infractions,
           \A j \in Infractions : infraction[j].enforcement # None =>
                restriction'[infraction[j].enforcement].report = restriction[infraction[j].enforcement].report,
           new.enforcement # None =>
                /\ restriction'[new.enforcement].status # "ABSENT"
                /\ new.report \in {None, restriction'[new.enforcement].report},
           UNCHANGED <<appeal, mitigated, now>>
    PROVE  Moves
<1>0. infraction[i] = NoInfraction /\ \A a \in Appeals : appeal[a].status # "ABSENT" => appeal[a].infraction # i
  BY FreshInfraction
<1>1. TypeOK'
  BY DEF SanctionsInv, TypeOK
<1>2. \A j \in Infractions : InfractionMoves(j)
  BY <1>0 DEF SanctionsInv, TypeOK, RowsNamed, InfractionMoves, NoInfraction
<1>3. \A a \in Appeals : AppealMoves(a)
  BY DEF SanctionsInv, TypeOK, AppealMoves
<1>4. PairsShareReport'
  BY DEF SanctionsInv, TypeOK, PairsShareReport
<1> QED
  BY <1>1, <1>2, <1>3, <1>4 DEF Moves

\* An infraction and the restriction that enforces it are written together.
PairWritten(i, x, new, row) ==
    /\ Fresh(i, infraction) /\ infraction' = [infraction EXCEPT ![i] = new]
    /\ new \in InfractionRows /\ new.status = "ACTIVE" /\ new.version = 1
    /\ restriction' = [restriction EXCEPT ![x] = row]
    /\ row \in RestrictionRows /\ row.version > restriction[x].version /\ row.status = "ACTIVE"
    /\ restriction[x].status \in {"ABSENT", "ACTIVE"}
    /\ restriction[x].report # None => row.report = restriction[x].report
    /\ \A j \in Infractions : infraction[j].enforcement = x => row.report = restriction[x].report
    /\ announced' \in [Restrictions -> Terms \cup {Silent, Unclear}]
    /\ \A y \in Restrictions : y # x => announced'[y] = announced[y]
    /\ AlwaysNoticed(row.place, row.type) => announced'[x] \in {row.until, Unclear}
    /\ new.enforcement = x /\ new.report \in {None, row.report}
    /\ raised' \in SUBSET Infractions
    /\ UNCHANGED <<appeal, mitigated, now>>

\* One infraction is created with the restriction that enforces it.
LEMMA PairCreated ==
    ASSUME SanctionsInv, NEW i \in Infractions, NEW x \in Restrictions, NEW new, NEW row,
           PairWritten(i, x, new, row)
    PROVE  Moves
<1> USE DEF PairWritten
<1>1. restriction \in [Restrictions -> RestrictionRows] /\ infraction \in [Infractions -> InfractionRows]
  BY DEF SanctionsInv, TypeOK
<1>2. \A y \in Restrictions : RestrictionMoves(y)
  BY <1>1 DEF RestrictionMoves
<1>3. restriction' \in [Restrictions -> RestrictionRows] /\ restriction'[x] = row
  BY <1>1
<1>4. \A j \in Infractions : infraction[j].enforcement # None =>
            restriction'[infraction[j].enforcement].report = restriction[infraction[j].enforcement].report
  BY <1>1
<1>5. new.enforcement # None =>
            /\ restriction'[new.enforcement].status # "ABSENT"
            /\ new.report \in {None, restriction'[new.enforcement].report}
  BY <1>3
<1> QED
  BY <1>2, <1>3, <1>4, <1>5, InfractionCreated

\* What a restriction put on a blank row changes.
LEMMA NewRestrictionRow ==
    ASSUME SanctionsInv, NEW x \in Restrictions, NEW u \in Users, NEW p \in Places, NEW t \in Punishments,
           NEW until \in Terms, NEW rep \in Reports \cup {None}, Insertable(x, u, p, t),
           NEW row, row = NewRestriction(u, p, t, until, rep)
    PROVE  /\ row \in RestrictionRows /\ row.version > restriction[x].version /\ row.status = "ACTIVE"
           /\ row.place = p /\ row.type = t /\ row.until = until /\ row.report = rep
           /\ restriction[x].status \in {"ABSENT", "ACTIVE"}
           /\ restriction[x].report # None => row.report = restriction[x].report
           /\ \A j \in Infractions : infraction[j].enforcement = x => row.report = restriction[x].report
<1>1. restriction[x] = NoRestriction /\ \A j \in Infractions : infraction[j].enforcement # x
  BY FreshRestriction
<1> QED
  BY <1>1 DEF NewRestriction, RestrictionRows, NoRestriction

\* An infraction that nothing enforces is created.
LEMMA PlainCreated ==
    ASSUME SanctionsInv, NEW i \in Infractions, Fresh(i, infraction), NEW new \in InfractionRows,
           infraction' = [infraction EXCEPT ![i] = new], new.status = "ACTIVE", new.version = 1,
           new.enforcement = None, raised' \in SUBSET Infractions,
           UNCHANGED <<restriction, appeal, mitigated, announced, now>>
    PROVE  Moves
<1>1. /\ restriction' \in [Restrictions -> RestrictionRows]
      /\ announced' \in [Restrictions -> Terms \cup {Silent, Unclear}]
  BY DEF SanctionsInv, TypeOK
<1>2. \A y \in Restrictions : RestrictionMoves(y)
  BY <1>1 DEF RestrictionMoves
<1>3. \A j \in Infractions : infraction[j].enforcement # None =>
            restriction'[infraction[j].enforcement].report = restriction[infraction[j].enforcement].report
  OBVIOUS
<1> QED
  BY <1>1, <1>2, <1>3, InfractionCreated

\* A moderator's infraction that nothing enforces.
LEMMA CreatePlainInfractionMoves ==
    ASSUME SanctionsInv, NEW i \in Infractions, NEW u \in Users, NEW p \in Places, NEW t \in Offences,
           NEW until \in Terms, NEW rep \in Reports \cup {None},
           CreatePlainInfraction(i, u, p, t, until, rep)
    PROVE  Moves
<1>1. PICK new : new = NewInfraction(u, p, t, until, None, rep)
  OBVIOUS
<1>2. new \in InfractionRows /\ new.status = "ACTIVE" /\ new.version = 1 /\ new.enforcement = None
  BY <1>1 DEF NewInfraction, InfractionRows
<1>3. /\ Fresh(i, infraction) /\ infraction' = [infraction EXCEPT ![i] = new]
      /\ raised' \in SUBSET Infractions /\ UNCHANGED <<restriction, appeal, mitigated, announced, now>>
  BY <1>1 DEF CreatePlainInfraction, SanctionsInv, TypeOK
<1> QED
  BY <1>2, <1>3, PlainCreated

\* A policy's infraction that nothing enforces.
LEMMA PolicyPlainInfractionMoves ==
    ASSUME SanctionsInv, NEW i \in Infractions, NEW u \in Users, NEW p \in Places, NEW t \in Offences,
           NEW until \in Terms, PolicyPlainInfraction(i, u, p, t, until)
    PROVE  Moves
<1>1. PICK new : new = NewInfraction(u, p, t, until, None, None)
  OBVIOUS
<1>2. new \in InfractionRows /\ new.status = "ACTIVE" /\ new.version = 1 /\ new.enforcement = None
  BY <1>1 DEF NewInfraction, InfractionRows
<1>3. /\ Fresh(i, infraction) /\ infraction' = [infraction EXCEPT ![i] = new]
      /\ raised' \in SUBSET Infractions /\ UNCHANGED <<restriction, appeal, mitigated, announced, now>>
  BY <1>1 DEF PolicyPlainInfraction, SanctionsInv, TypeOK
<1> QED
  BY <1>2, <1>3, PlainCreated

\* A moderator's infraction and its enforcement.
LEMMA CreateEnforcedInfractionMoves ==
    ASSUME SanctionsInv, NEW i \in Infractions, NEW x \in Restrictions, NEW u \in Users, NEW p \in Places,
           NEW t \in Offences, NEW until \in Terms, NEW rep \in Reports \cup {None},
           CreateEnforcedInfraction(i, x, u, p, t, until, rep)
    PROVE  Moves
<1>1. PICK k : k = RequiredEnforcement(t, p)
  OBVIOUS
<1>2. k \in Punishments /\ Insertable(x, u, p, k)
  BY <1>1, RequiredEnforcementTyped DEF CreateEnforcedInfraction
<1>3. PICK row : row = NewRestriction(u, p, k, until, rep)
  OBVIOUS
<1>4. PICK new : new = NewInfraction(u, p, t, until, x, rep)
  OBVIOUS
<1>5. /\ row \in RestrictionRows /\ row.version > restriction[x].version /\ row.status = "ACTIVE"
      /\ row.place = p /\ row.type = k /\ row.until = until /\ row.report = rep
      /\ restriction[x].status \in {"ABSENT", "ACTIVE"}
      /\ restriction[x].report # None => row.report = restriction[x].report
      /\ \A j \in Infractions : infraction[j].enforcement = x => row.report = restriction[x].report
  BY <1>2, <1>3, NewRestrictionRow
<1>6. new \in InfractionRows /\ new.status = "ACTIVE" /\ new.version = 1 /\ new.enforcement = x /\ new.report = rep
  BY <1>4 DEF NewInfraction, InfractionRows
<1>7. /\ announced' \in [Restrictions -> Terms \cup {Silent, Unclear}]
      /\ \A y \in Restrictions : y # x => announced'[y] = announced[y]
      /\ AlwaysNoticed(p, k) => announced'[x] = until
  BY <1>1, AnnounceWrites DEF CreateEnforcedInfraction, SanctionsInv
<1>8. /\ Fresh(i, infraction) /\ infraction' = [infraction EXCEPT ![i] = new]
      /\ restriction' = [restriction EXCEPT ![x] = row]
      /\ raised' \in SUBSET Infractions /\ UNCHANGED <<appeal, mitigated, now>>
  BY <1>1, <1>3, <1>4 DEF CreateEnforcedInfraction, SanctionsInv, TypeOK
<1>9. /\ new.report \in {None, row.report}
      /\ AlwaysNoticed(row.place, row.type) => announced'[x] \in {row.until, Unclear}
      /\ announced' \in [Restrictions -> Terms \cup {Silent, Unclear}]
      /\ \A y \in Restrictions : y # x => announced'[y] = announced[y]
  BY <1>5, <1>6, <1>7
<1>10. /\ row \in RestrictionRows /\ row.version > restriction[x].version /\ row.status = "ACTIVE"
       /\ restriction[x].status \in {"ABSENT", "ACTIVE"}
       /\ restriction[x].report # None => row.report = restriction[x].report
       /\ \A j \in Infractions : infraction[j].enforcement = x => row.report = restriction[x].report
       /\ new \in InfractionRows /\ new.status = "ACTIVE" /\ new.version = 1 /\ new.enforcement = x
  BY <1>5, <1>6
<1>11. PairWritten(i, x, new, row)
  BY <1>8, <1>9, <1>10 DEF PairWritten
<1> QED
  BY <1>11, PairCreated

\* The ban of an approved staff request.
LEMMA ApprovedBanMoves ==
    ASSUME SanctionsInv, NEW i \in Infractions, NEW x \in Restrictions, NEW u \in Users, NEW p \in Places,
           NEW until \in Terms, NEW rep \in Reports \cup {None}, ApprovedBan(i, x, u, p, until, rep)
    PROVE  Moves
<1>1. PICK k : k = RequiredEnforcement("BAN", p)
  OBVIOUS
<1>2. k \in Punishments /\ Insertable(x, u, p, k)
  BY <1>1 DEF ApprovedBan, RequiredEnforcement
<1>3. PICK row : row = NewRestriction(u, p, k, until, rep)
  OBVIOUS
<1>4. PICK new : new = NewInfraction(u, p, "BAN", until, x, rep)
  OBVIOUS
<1>5. /\ row \in RestrictionRows /\ row.version > restriction[x].version /\ row.status = "ACTIVE"
      /\ row.place = p /\ row.type = k /\ row.until = until /\ row.report = rep
      /\ restriction[x].status \in {"ABSENT", "ACTIVE"}
      /\ restriction[x].report # None => row.report = restriction[x].report
      /\ \A j \in Infractions : infraction[j].enforcement = x => row.report = restriction[x].report
  BY <1>2, <1>3, NewRestrictionRow
<1>6. new \in InfractionRows /\ new.status = "ACTIVE" /\ new.version = 1 /\ new.enforcement = x /\ new.report = rep
  BY <1>4 DEF NewInfraction, InfractionRows
<1>7. /\ announced' \in [Restrictions -> Terms \cup {Silent, Unclear}]
      /\ \A y \in Restrictions : y # x => announced'[y] = announced[y]
      /\ AlwaysNoticed(p, k) => announced'[x] = until
  BY <1>1, AnnounceWrites DEF ApprovedBan, SanctionsInv
<1>8. /\ Fresh(i, infraction) /\ infraction' = [infraction EXCEPT ![i] = new]
      /\ restriction' = [restriction EXCEPT ![x] = row]
      /\ raised' \in SUBSET Infractions /\ UNCHANGED <<appeal, mitigated, now>>
  BY <1>1, <1>3, <1>4 DEF ApprovedBan, SanctionsInv, TypeOK
<1>9. /\ new.report \in {None, row.report}
      /\ AlwaysNoticed(row.place, row.type) => announced'[x] \in {row.until, Unclear}
      /\ announced' \in [Restrictions -> Terms \cup {Silent, Unclear}]
      /\ \A y \in Restrictions : y # x => announced'[y] = announced[y]
  BY <1>5, <1>6, <1>7
<1>10. /\ row \in RestrictionRows /\ row.version > restriction[x].version /\ row.status = "ACTIVE"
       /\ restriction[x].status \in {"ABSENT", "ACTIVE"}
       /\ restriction[x].report # None => row.report = restriction[x].report
       /\ \A j \in Infractions : infraction[j].enforcement = x => row.report = restriction[x].report
       /\ new \in InfractionRows /\ new.status = "ACTIVE" /\ new.version = 1 /\ new.enforcement = x
  BY <1>5, <1>6
<1>11. PairWritten(i, x, new, row)
  BY <1>8, <1>9, <1>10 DEF PairWritten
<1> QED
  BY <1>11, PairCreated

\* What a policy writes over an active row, or on a blank one.
LEMMA RewrittenRow ==
    ASSUME SanctionsInv, NEW x \in Restrictions, NEW u \in Users, NEW p \in Places, NEW t \in Punishments,
           NEW until \in Terms, Upsertable(x, u, p, t), NEW row, row = Rewritten(x, u, p, t, until)
    PROVE  /\ row \in RestrictionRows /\ row.version > restriction[x].version /\ row.status = "ACTIVE"
           /\ row.place = p /\ row.type = t /\ row.until = until
           /\ restriction[x].status \in {"ABSENT", "ACTIVE"}
           /\ restriction[x].report # None => row.report = restriction[x].report
           /\ \A i \in Infractions : infraction[i].enforcement = x => row.report = restriction[x].report
<1>0. restriction[x] \in RestrictionRows
  BY DEF SanctionsInv, TypeOK
<1>1. CASE Active(x, u, p, t)
  BY <1>0, <1>1 DEF Rewritten, RestrictionWith, RestrictionRows, Active
<1>2. CASE ~Active(x, u, p, t)
  <2>1. restriction[x] = NoRestriction /\ \A i \in Infractions : infraction[i].enforcement # x
    BY <1>2, FreshRestriction DEF Upsertable
  <2> QED
    BY <1>2, <2>1 DEF Rewritten, NewRestriction, RestrictionRows, NoRestriction
<1> QED
  BY <1>1, <1>2

\* A policy's infraction and the restriction it writes or overwrites.
LEMMA PolicyEnforcedInfractionMoves ==
    ASSUME SanctionsInv, NEW i \in Infractions, NEW x \in Restrictions, NEW u \in Users, NEW v \in Users,
           NEW p \in Places, NEW t \in Offences, NEW k \in Punishments, NEW until \in Terms, NEW term \in Terms,
           PolicyEnforcedInfraction(i, x, u, v, p, t, k, until, term)
    PROVE  Moves
<1>1. Upsertable(x, v, p, k)
  BY DEF PolicyEnforcedInfraction
<1>2. PICK row : row = Rewritten(x, v, p, k, term)
  OBVIOUS
<1>3. PICK new : new = NewInfraction(u, p, t, until, x, None)
  OBVIOUS
<1>4. /\ row \in RestrictionRows /\ row.version > restriction[x].version /\ row.status = "ACTIVE"
      /\ row.place = p /\ row.type = k /\ row.until = term
      /\ restriction[x].status \in {"ABSENT", "ACTIVE"}
      /\ restriction[x].report # None => row.report = restriction[x].report
      /\ \A j \in Infractions : infraction[j].enforcement = x => row.report = restriction[x].report
  BY <1>1, <1>2, RewrittenRow
<1>5. new \in InfractionRows /\ new.status = "ACTIVE" /\ new.version = 1 /\ new.enforcement = x /\ new.report = None
  BY <1>3 DEF NewInfraction, InfractionRows
<1>6. PICK told : told = IF InfractionNoticed(p, t, k) /\ v = u /\ until = term THEN until ELSE Unclear
  OBVIOUS
<1>7. /\ announced' \in [Restrictions -> Terms \cup {Silent, Unclear}]
      /\ \A y \in Restrictions : y # x => announced'[y] = announced[y]
      /\ announced'[x] \in {term, Unclear}
  <2>1. announced' = [announced EXCEPT ![x] = told] /\ told \in {term, Unclear}
    BY <1>6 DEF PolicyEnforcedInfraction
  <2>2. announced \in [Restrictions -> Terms \cup {Silent, Unclear}]
    BY DEF SanctionsInv, TypeOK
  <2> QED
    BY <2>1, <2>2
<1>8. PairWritten(i, x, new, row)
  <2>1. /\ Fresh(i, infraction) /\ infraction' = [infraction EXCEPT ![i] = new]
        /\ restriction' = [restriction EXCEPT ![x] = row]
        /\ raised' \in SUBSET Infractions /\ UNCHANGED <<appeal, mitigated, now>>
    BY <1>2, <1>3 DEF PolicyEnforcedInfraction, SanctionsInv, TypeOK
  <2>2. AlwaysNoticed(row.place, row.type) => announced'[x] \in {row.until, Unclear}
    BY <1>4, <1>7
  <2>3. new.report \in {None, row.report}
    BY <1>5
  <2>4. /\ row \in RestrictionRows /\ row.version > restriction[x].version /\ row.status = "ACTIVE"
        /\ restriction[x].status \in {"ABSENT", "ACTIVE"}
        /\ restriction[x].report # None => row.report = restriction[x].report
        /\ \A j \in Infractions : infraction[j].enforcement = x => row.report = restriction[x].report
    BY <1>4
  <2>5. new \in InfractionRows /\ new.status = "ACTIVE" /\ new.version = 1 /\ new.enforcement = x
    BY <1>5
  <2>6. /\ announced' \in [Restrictions -> Terms \cup {Silent, Unclear}]
        /\ \A y \in Restrictions : y # x => announced'[y] = announced[y]
    BY <1>7
  <2> QED
    BY <2>1, <2>2, <2>3, <2>4, <2>5, <2>6 DEF PairWritten
<1> QED
  BY <1>8, PairCreated

\* An infraction is revoked, and its enforcement with it.
LEMMA RevokedMoves ==
    ASSUME SanctionsInv, NEW i \in Infractions, infraction[i].status = "ACTIVE", Revoked(i),
           UNCHANGED <<raised, announced, now>>,
           appeal' \in [Appeals -> AppealRows],
           \A a \in Appeals : /\ appeal'[a] # appeal[a] => appeal'[a].version > appeal[a].version
                              /\ appeal'[a] # appeal[a] => appeal'[a].status # "ABSENT" /\ appeal'[a].infraction = i
    PROVE  Moves
<1>0. infraction[i] \in InfractionRows /\ TypeOK
  BY DEF SanctionsInv, TypeOK
<1>1. PICK new : new = InfractionWith(infraction[i], "REVOKED", infraction[i].report)
  OBVIOUS
<1>2. /\ new \in InfractionRows /\ new.version > infraction[i].version /\ new.status = "REVOKED"
      /\ new.report = infraction[i].report /\ new.enforcement = infraction[i].enforcement
  BY <1>0, <1>1 DEF InfractionWith, InfractionRows
<1>3. infraction' = [infraction EXCEPT ![i] = new] /\ mitigated' = [mitigated EXCEPT ![i] = @ + 1]
  BY <1>1 DEF Revoked
<1>4. PICK x : x = infraction[i].enforcement
  OBVIOUS
<1>5. Lift(x) /\ x \in Restrictions \cup {None}
  BY <1>0, <1>4 DEF Revoked, InfractionRows
<1>6. /\ restriction' \in [Restrictions -> RestrictionRows]
      /\ \A y \in Restrictions : RestrictionMoves(y) /\ restriction'[y].report = restriction[y].report
      /\ x # None => restriction'[x].status # "ACTIVE"
  <2>1. CASE x # None /\ restriction[x].status = "ACTIVE"
    <3>1. PICK row : row = RestrictionWith(restriction[x], "REVOKED", restriction[x].until, restriction[x].report)
      OBVIOUS
    <3>2. restriction[x] \in RestrictionRows /\ x \in Restrictions
      BY <1>0, <1>5, <2>1 DEF TypeOK
    <3>3. /\ row \in RestrictionRows /\ row.version > restriction[x].version /\ row.status = "REVOKED"
          /\ row.report = restriction[x].report /\ row.place = restriction[x].place
          /\ row.type = restriction[x].type /\ row.until = restriction[x].until
      BY <3>1, <3>2 DEF RestrictionWith, RestrictionRows
    <3>4. restriction' = [restriction EXCEPT ![x] = row]
      BY <1>5, <2>1, <3>1 DEF Lift
    <3> QED
      BY <1>0, <3>2, <3>3, <3>4 DEF TypeOK, RestrictionMoves
  <2>2. CASE ~(x # None /\ restriction[x].status = "ACTIVE")
    <3>1. restriction' = restriction
      BY <1>5, <2>2 DEF Lift
    <3> QED
      BY <1>0, <2>2, <3>1 DEF TypeOK, RestrictionMoves
  <2> QED
    BY <2>1, <2>2
<1>7. TypeOK'
  BY <1>0, <1>2, <1>3, <1>6 DEF TypeOK
<1>8. \A j \in Infractions : InfractionMoves(j)
  BY <1>0, <1>2, <1>3, <1>4, <1>6 DEF SanctionsInv, TypeOK, RowsNamed, NoInfraction, InfractionMoves
<1>9. \A a \in Appeals : AppealMoves(a)
  BY <1>0, <1>2, <1>3 DEF TypeOK, AppealMoves
<1>10. PairsShareReport'
  BY <1>0, <1>2, <1>3, <1>6 DEF SanctionsInv, TypeOK, PairsShareReport, InfractionRows
<1> QED
  BY <1>6, <1>7, <1>8, <1>9, <1>10 DEF Moves

\* A moderator's revocation of an infraction.
LEMMA RevokeInfractionMoves ==
    ASSUME SanctionsInv, NEW i \in Infractions, RevokeInfraction(i)
    PROVE  Moves
<1>1. /\ infraction[i].status = "ACTIVE" /\ Revoked(i) /\ UNCHANGED <<appeal, raised, announced, now>>
      /\ appeal' \in [Appeals -> AppealRows]
  BY DEF RevokeInfraction, SanctionsInv, TypeOK
<1> QED
  BY <1>1, RevokedMoves

\* Only appeals change, each to a later answer or to a new row.
LEMMA AppealsAlone ==
    ASSUME SanctionsInv, UNCHANGED <<restriction, infraction, raised, mitigated, announced, now>>,
           appeal' \in [Appeals -> AppealRows], \A a \in Appeals : AppealMoves(a)
    PROVE  Moves
<1>1. TypeOK'
  BY DEF SanctionsInv, TypeOK
<1>2. \A x \in Restrictions : RestrictionMoves(x)
  BY DEF RestrictionMoves
<1>3. \A i \in Infractions : InfractionMoves(i)
  BY DEF SanctionsInv, RowsNamed, NoInfraction, InfractionMoves
<1>4. PairsShareReport'
  BY DEF SanctionsInv, PairsShareReport
<1> QED
  BY <1>1, <1>2, <1>3, <1>4 DEF Moves

\* A user's appeal.
LEMMA CreateAppealMoves ==
    ASSUME SanctionsInv, NEW a \in Appeals, NEW i \in Infractions, CreateAppeal(a, i)
    PROVE  Moves
<1>1. PICK row : row = [status |-> "PENDING", infraction |-> i, version |-> 1]
  OBVIOUS
<1>2. row \in AppealRows /\ row.version = 1 /\ row.status = "PENDING" /\ row.infraction = i
  BY <1>1 DEF AppealRows
<1>3. appeal \in [Appeals -> AppealRows] /\ appeal[a].status = "ABSENT" /\ infraction[i].status = "ACTIVE"
  BY DEF SanctionsInv, TypeOK, CreateAppeal, Fresh
<1>4. appeal' = [appeal EXCEPT ![a] = row] /\ UNCHANGED <<restriction, infraction, raised, mitigated, announced, now>>
  BY <1>1 DEF CreateAppeal
<1>5. appeal[a].version = 0
  BY <1>3 DEF SanctionsInv, RowsNamed, NoAppeal
<1>6. \A b \in Appeals : AppealMoves(b)
  BY <1>2, <1>3, <1>4, <1>5 DEF AppealMoves
<1> QED
  BY <1>2, <1>3, <1>4, <1>6, AppealsAlone

\* What the answer to an appeal is.
LEMMA AnsweredRow ==
    ASSUME SanctionsInv, NEW a \in Appeals, appeal[a].status = "PENDING",
           NEW status \in {"RESOLVED", "DISMISSED"}, NEW row, row = Answered(a, status)
    PROVE  /\ row \in AppealRows /\ row.version > appeal[a].version /\ row.status = status
           /\ row.infraction = appeal[a].infraction /\ row.infraction \in Infractions
           /\ infraction[row.infraction].status # "ABSENT"
  BY DEF SanctionsInv, TypeOK, RowsNamed, Answered, AppealRows

\* A dismissed appeal.
LEMMA DismissAppealMoves ==
    ASSUME SanctionsInv, NEW a \in Appeals, DismissAppeal(a)
    PROVE  Moves
<1>1. PICK row : row = Answered(a, "DISMISSED")
  OBVIOUS
<1>2. /\ row \in AppealRows /\ row.version > appeal[a].version /\ row.status = "DISMISSED"
      /\ row.infraction \in Infractions /\ infraction[row.infraction].status # "ABSENT"
  BY <1>1, AnsweredRow DEF DismissAppeal
<1>3. /\ appeal \in [Appeals -> AppealRows] /\ appeal' = [appeal EXCEPT ![a] = row]
      /\ UNCHANGED <<restriction, infraction, raised, mitigated, announced, now>>
  BY <1>1 DEF SanctionsInv, TypeOK, DismissAppeal
<1>4. \A b \in Appeals : AppealMoves(b)
  BY <1>2, <1>3 DEF AppealMoves
<1> QED
  BY <1>2, <1>3, <1>4, AppealsAlone

\* An accepted appeal.
LEMMA AcceptAppealMoves ==
    ASSUME SanctionsInv, NEW a \in Appeals, AcceptAppeal(a)
    PROVE  Moves
<1>1. PICK row : row = Answered(a, "RESOLVED")
  OBVIOUS
<1>2. PICK i : i = appeal[a].infraction
  OBVIOUS
<1>3. /\ row \in AppealRows /\ row.version > appeal[a].version /\ row.status = "RESOLVED"
      /\ row.infraction = i /\ i \in Infractions /\ infraction[i].status # "ABSENT"
  BY <1>1, <1>2, AnsweredRow DEF AcceptAppeal
<1>4. /\ appeal \in [Appeals -> AppealRows] /\ appeal' = [appeal EXCEPT ![a] = row]
      /\ UNCHANGED <<raised, announced, now>>
  BY <1>1 DEF SanctionsInv, TypeOK, AcceptAppeal
<1>5. CASE infraction[i].status = "ACTIVE"
  <2>1. Revoked(i)
    BY <1>2, <1>5 DEF AcceptAppeal
  <2> QED
    BY <1>3, <1>4, <1>5, <2>1, RevokedMoves
<1>6. CASE infraction[i].status # "ACTIVE"
  <2>1. UNCHANGED <<restriction, infraction, mitigated>>
    BY <1>2, <1>6 DEF AcceptAppeal
  <2>2. \A b \in Appeals : AppealMoves(b)
    BY <1>3, <1>4, <1>6, <2>1 DEF AppealMoves
  <2> QED
    BY <1>3, <1>4, <2>1, <2>2, AppealsAlone
<1> QED
  BY <1>5, <1>6

\* Rows are changed only in status and report: no row gains or loses anything
\* else, and none is put in force.
LEMMA RowsKept ==
    ASSUME SanctionsInv, UNCHANGED <<appeal, raised, mitigated, announced>>, now' \in Nat,
           restriction' \in [Restrictions -> RestrictionRows],
           infraction' \in [Infractions -> InfractionRows],
           \A x \in Restrictions : \/ restriction'[x] = restriction[x]
                                   \/ /\ restriction'[x].version > restriction[x].version
                                      /\ restriction[x].status # "ABSENT"
                                      /\ restriction'[x].status \in {restriction[x].status, "EXPIRED"}
                                      /\ restriction'[x].place = restriction[x].place
                                      /\ restriction'[x].type = restriction[x].type
                                      /\ restriction'[x].until = restriction[x].until
                                      /\ restriction[x].report # None => restriction'[x].report = restriction[x].report,
           \A i \in Infractions : \/ infraction'[i] = infraction[i]
                                  \/ /\ infraction'[i].version > infraction[i].version
                                     /\ infraction[i].status # "ABSENT"
                                     /\ \/ infraction'[i].status = infraction[i].status
                                        \/ infraction[i].status = "ACTIVE" /\ infraction'[i].status = "EXPIRED"
                                     /\ infraction'[i].enforcement = infraction[i].enforcement
                                     /\ infraction[i].report # None => infraction'[i].report = infraction[i].report,
           PairsShareReport'
    PROVE  Moves
<1>1. TypeOK'
  BY DEF SanctionsInv, TypeOK
<1>2. ASSUME NEW x \in Restrictions PROVE RestrictionMoves(x)
  <2>1. CASE restriction'[x] = restriction[x]
    BY <2>1 DEF RestrictionMoves
  <2>2. CASE restriction'[x] # restriction[x]
    BY <2>2 DEF RestrictionMoves
  <2> QED
    BY <2>1, <2>2
<1>3. ASSUME NEW i \in Infractions PROVE InfractionMoves(i)
  <2>1. CASE infraction'[i] = infraction[i]
    BY <2>1 DEF SanctionsInv, RowsNamed, NoInfraction, InfractionMoves
  <2>2. CASE infraction'[i] # infraction[i]
    BY <2>2 DEF SanctionsInv, RowsNamed, NoInfraction, InfractionMoves
  <2> QED
    BY <2>1, <2>2
<1>4. \A a \in Appeals : AppealMoves(a)
  BY DEF AppealMoves
<1> QED
  BY <1>1, <1>2, <1>3, <1>4 DEF Moves

\* What a link makes of a restriction.
LEMMA LinkedRestrictionRow ==
    ASSUME SanctionsInv, NEW x \in Restrictions, NEW rep \in Reports, Takes(restriction[x], rep),
           NEW row, row = LinkedRestriction(x, rep)
    PROVE  /\ row \in RestrictionRows /\ row.report = rep /\ row.status = restriction[x].status
           /\ row.place = restriction[x].place /\ row.type = restriction[x].type /\ row.until = restriction[x].until
           /\ row # restriction[x] => row.version > restriction[x].version
<1>1. restriction[x] \in RestrictionRows
  BY DEF SanctionsInv, TypeOK
<1> QED
  BY <1>1 DEF LinkedRestriction, RestrictionWith, RestrictionRows, Takes

\* What a link makes of an infraction.
LEMMA LinkedInfractionRow ==
    ASSUME SanctionsInv, NEW i \in Infractions, NEW rep \in Reports, Takes(infraction[i], rep),
           NEW row, row = LinkedInfraction(i, rep)
    PROVE  /\ row \in InfractionRows /\ row.report = rep /\ row.status = infraction[i].status
           /\ row.enforcement = infraction[i].enforcement
           /\ row # infraction[i] => row.version > infraction[i].version
<1>1. infraction[i] \in InfractionRows
  BY DEF SanctionsInv, TypeOK
<1> QED
  BY <1>1 DEF LinkedInfraction, InfractionWith, InfractionRows, Takes

\* A blacklisting and all it enforces take the report.
LEMMA LinkRestrictionMoves ==
    ASSUME SanctionsInv, NEW x \in Restrictions, NEW rep \in Reports, LinkRestriction(x, rep)
    PROVE  Moves
<1>0. TypeOK
  BY DEF SanctionsInv
<1>1. PICK row : row = LinkedRestriction(x, rep)
  OBVIOUS
<1>2. /\ row \in RestrictionRows /\ row.report = rep /\ row.status = restriction[x].status
      /\ row.place = restriction[x].place /\ row.type = restriction[x].type /\ row.until = restriction[x].until
      /\ row # restriction[x] => row.version > restriction[x].version
      /\ restriction[x].report # None => rep = restriction[x].report
  BY <1>1, LinkedRestrictionRow DEF LinkRestriction, Takes
<1>3. /\ restriction' = [restriction EXCEPT ![x] = row]
      /\ UNCHANGED <<appeal, raised, mitigated, announced, now>>
      /\ restriction[x].status # "ABSENT"
  BY <1>1 DEF LinkRestriction
<1>4. ASSUME NEW i \in Infractions
      PROVE  /\ infraction[i].enforcement # x => infraction'[i] = infraction[i]
             /\ infraction[i].enforcement = x =>
                    /\ infraction'[i] \in InfractionRows /\ infraction'[i].report = rep
                    /\ infraction'[i].status = infraction[i].status /\ infraction'[i].enforcement = x
                    /\ infraction'[i] # infraction[i] => infraction'[i].version > infraction[i].version
                    /\ infraction[i].report # None => rep = infraction[i].report
                    /\ infraction[i].status # "ABSENT"
  <2>1. infraction[i].enforcement # x => infraction'[i] = infraction[i]
    BY DEF LinkRestriction, EnforcedBy
  <2>2. ASSUME infraction[i].enforcement = x
        PROVE  infraction'[i] = LinkedInfraction(i, rep) /\ Takes(infraction[i], rep) /\ infraction[i].status # "ABSENT"
    <3>1. i \in EnforcedBy(x)
      BY <2>2 DEF EnforcedBy
    <3>2. infraction[i].status # "ABSENT"
      BY <2>2 DEF SanctionsInv, RowsNamed, NoInfraction, TypeOK, SanctionConstants
    <3> QED
      BY <3>1, <3>2 DEF LinkRestriction
  <2> QED
    BY <2>1, <2>2, LinkedInfractionRow DEF Takes
<1>5. infraction' \in [Infractions -> InfractionRows]
  <2>1. infraction' = [i \in Infractions |-> infraction'[i]]
    BY DEF LinkRestriction
  <2>2. \A i \in Infractions : infraction'[i] \in InfractionRows
    BY <1>0, <1>4 DEF TypeOK
  <2> QED
    BY <2>1, <2>2
<1>6. restriction' \in [Restrictions -> RestrictionRows] /\ now' \in Nat
  BY <1>0, <1>2, <1>3 DEF TypeOK
<1>7. PairsShareReport'
  BY <1>0, <1>2, <1>3, <1>4 DEF SanctionsInv, PairsShareReport, TypeOK
<1>8. \A y \in Restrictions : \/ restriction'[y] = restriction[y]
                              \/ /\ restriction'[y].version > restriction[y].version
                                 /\ restriction[y].status # "ABSENT"
                                 /\ restriction'[y].status \in {restriction[y].status, "EXPIRED"}
                                 /\ restriction'[y].place = restriction[y].place
                                 /\ restriction'[y].type = restriction[y].type
                                 /\ restriction'[y].until = restriction[y].until
                                 /\ restriction[y].report # None => restriction'[y].report = restriction[y].report
  BY <1>0, <1>2, <1>3 DEF TypeOK
<1>9. \A i \in Infractions : \/ infraction'[i] = infraction[i]
                             \/ /\ infraction'[i].version > infraction[i].version
                                /\ infraction[i].status # "ABSENT"
                                /\ \/ infraction'[i].status = infraction[i].status
                                   \/ infraction[i].status = "ACTIVE" /\ infraction'[i].status = "EXPIRED"
                                /\ infraction'[i].enforcement = infraction[i].enforcement
                                /\ infraction[i].report # None => infraction'[i].report = infraction[i].report
  BY <1>4
<1> QED
  BY <1>3, <1>5, <1>6, <1>7, <1>8, <1>9, RowsKept

\* A warning or a ban takes the report, and its enforcement with it.
LEMMA LinkInfractionMoves ==
    ASSUME SanctionsInv, NEW i \in Infractions, NEW rep \in Reports, LinkInfraction(i, rep)
    PROVE  Moves
<1>0. TypeOK /\ infraction[i] \in InfractionRows
  BY DEF SanctionsInv, TypeOK
<1>1. PICK new : new = LinkedInfraction(i, rep)
  OBVIOUS
<1>2. PICK x : x = infraction[i].enforcement
  OBVIOUS
<1>3. /\ new \in InfractionRows /\ new.report = rep /\ new.status = infraction[i].status
      /\ new.enforcement = x /\ x \in Restrictions \cup {None}
      /\ new # infraction[i] => new.version > infraction[i].version
      /\ infraction[i].report # None => rep = infraction[i].report
  BY <1>0, <1>1, <1>2, LinkedInfractionRow DEF LinkInfraction, Takes, InfractionRows
<1>4. /\ infraction' = [infraction EXCEPT ![i] = new] /\ infraction[i].status # "ABSENT"
      /\ UNCHANGED <<appeal, raised, mitigated, announced, now>>
  BY <1>1 DEF LinkInfraction
<1>5. /\ infraction' \in [Infractions -> InfractionRows] /\ now' \in Nat
      /\ \A j \in Infractions : \/ infraction'[j] = infraction[j]
                                \/ /\ infraction'[j].version > infraction[j].version
                                   /\ infraction[j].status # "ABSENT"
                                   /\ \/ infraction'[j].status = infraction[j].status
                                      \/ infraction[j].status = "ACTIVE" /\ infraction'[j].status = "EXPIRED"
                                   /\ infraction'[j].enforcement = infraction[j].enforcement
                                   /\ infraction[j].report # None => infraction'[j].report = infraction[j].report
  BY <1>0, <1>2, <1>3, <1>4 DEF TypeOK
<1>6. CASE x = None
  <2>1. restriction' = restriction
    BY <1>2, <1>6 DEF LinkInfraction
  <2>2. PairsShareReport'
    BY <1>0, <1>3, <1>4, <1>6, <2>1 DEF SanctionsInv, PairsShareReport, TypeOK
  <2>3. restriction' \in [Restrictions -> RestrictionRows] /\ \A y \in Restrictions : restriction'[y] = restriction[y]
    BY <1>0, <2>1 DEF TypeOK
  <2> QED
    BY <1>4, <1>5, <2>2, <2>3, RowsKept
<1>7. CASE x # None
  <2>1. PICK row : row = LinkedRestriction(x, rep)
    OBVIOUS
  <2>2. restriction' = [restriction EXCEPT ![x] = row] /\ Takes(restriction[x], rep) /\ x \in Restrictions
    BY <1>2, <1>3, <1>7, <2>1 DEF LinkInfraction
  <2>3. /\ row \in RestrictionRows /\ row.report = rep /\ row.status = restriction[x].status
        /\ row.place = restriction[x].place /\ row.type = restriction[x].type /\ row.until = restriction[x].until
        /\ row # restriction[x] => row.version > restriction[x].version
        /\ restriction[x].report # None => rep = restriction[x].report
    BY <2>1, <2>2, LinkedRestrictionRow DEF Takes
  <2>4. restriction[x].status # "ABSENT"
    BY <1>2, <1>7 DEF SanctionsInv, RowsNamed
  <2>5. PairsShareReport'
    BY <1>0, <1>2, <1>3, <1>4, <2>2, <2>3 DEF SanctionsInv, PairsShareReport, TypeOK, InfractionRows
  <2>6. /\ restriction' \in [Restrictions -> RestrictionRows]
        /\ \A y \in Restrictions : \/ restriction'[y] = restriction[y]
                                   \/ /\ restriction'[y].version > restriction[y].version
                                      /\ restriction[y].status # "ABSENT"
                                      /\ restriction'[y].status \in {restriction[y].status, "EXPIRED"}
                                      /\ restriction'[y].place = restriction[y].place
                                      /\ restriction'[y].type = restriction[y].type
                                      /\ restriction'[y].until = restriction[y].until
                                      /\ restriction[y].report # None => restriction'[y].report = restriction[y].report
    BY <1>0, <2>2, <2>3, <2>4 DEF TypeOK
  <2> QED
    BY <1>4, <1>5, <2>5, <2>6, RowsKept
<1> QED
  BY <1>6, <1>7

\* The expiry worker's run.
LEMMA ExpiryWorkerMoves ==
    ASSUME SanctionsInv, ExpiryWorker
    PROVE  Moves
<1>0. TypeOK
  BY DEF SanctionsInv
<1>1. ASSUME NEW x \in Restrictions
      PROVE  /\ restriction'[x] \in RestrictionRows /\ restriction'[x].report = restriction[x].report
             /\ \/ restriction'[x] = restriction[x]
                \/ /\ restriction'[x].version > restriction[x].version
                   /\ restriction[x].status # "ABSENT"
                   /\ restriction'[x].status = "EXPIRED"
                   /\ restriction'[x].place = restriction[x].place
                   /\ restriction'[x].type = restriction[x].type
                   /\ restriction'[x].until = restriction[x].until
  <2>0. restriction[x] \in RestrictionRows
    BY <1>0 DEF TypeOK
  <2>1. CASE x \in Due(restriction)
    <3>1. restriction'[x] = RestrictionWith(restriction[x], "EXPIRED", restriction[x].until, restriction[x].report)
      BY <2>1 DEF ExpiryWorker
    <3> QED
      BY <2>0, <2>1, <3>1 DEF Due, RestrictionWith, RestrictionRows
  <2>2. CASE x \notin Due(restriction)
    BY <2>0, <2>2 DEF ExpiryWorker
  <2> QED
    BY <2>1, <2>2
<1>2. ASSUME NEW i \in Infractions
      PROVE  /\ infraction'[i] \in InfractionRows /\ infraction'[i].report = infraction[i].report
             /\ infraction'[i].enforcement = infraction[i].enforcement
             /\ \/ infraction'[i] = infraction[i]
                \/ /\ infraction'[i].version > infraction[i].version
                   /\ infraction[i].status = "ACTIVE"
                   /\ infraction'[i].status = "EXPIRED"
  <2>0. infraction[i] \in InfractionRows
    BY <1>0 DEF TypeOK
  <2>1. CASE i \in Due(infraction)
    <3>1. infraction'[i] = InfractionWith(infraction[i], "EXPIRED", infraction[i].report)
      BY <2>1 DEF ExpiryWorker
    <3> QED
      BY <2>0, <2>1, <3>1 DEF Due, InfractionWith, InfractionRows
  <2>2. CASE i \notin Due(infraction)
    BY <2>0, <2>2 DEF ExpiryWorker
  <2> QED
    BY <2>1, <2>2
<1>3. UNCHANGED <<appeal, raised, mitigated, announced>> /\ now' \in Nat
  BY <1>0 DEF ExpiryWorker, TypeOK
<1>4. restriction' = [x \in Restrictions |-> restriction'[x]] /\ infraction' = [i \in Infractions |-> infraction'[i]]
  BY DEF ExpiryWorker
<1>5. restriction' \in [Restrictions -> RestrictionRows] /\ infraction' \in [Infractions -> InfractionRows]
  BY <1>1, <1>2, <1>4
<1>6. PairsShareReport'
  BY <1>0, <1>1, <1>2 DEF SanctionsInv, PairsShareReport, TypeOK, InfractionRows
<1>7. \A x \in Restrictions : \/ restriction'[x] = restriction[x]
                              \/ /\ restriction'[x].version > restriction[x].version
                                 /\ restriction[x].status # "ABSENT"
                                 /\ restriction'[x].status \in {restriction[x].status, "EXPIRED"}
                                 /\ restriction'[x].place = restriction[x].place
                                 /\ restriction'[x].type = restriction[x].type
                                 /\ restriction'[x].until = restriction[x].until
                                 /\ restriction[x].report # None => restriction'[x].report = restriction[x].report
  BY <1>1
<1>8. \A i \in Infractions : \/ infraction'[i] = infraction[i]
                             \/ /\ infraction'[i].version > infraction[i].version
                                /\ infraction[i].status # "ABSENT"
                                /\ \/ infraction'[i].status = infraction[i].status
                                   \/ infraction[i].status = "ACTIVE" /\ infraction'[i].status = "EXPIRED"
                                /\ infraction'[i].enforcement = infraction[i].enforcement
                                /\ infraction[i].report # None => infraction'[i].report = infraction[i].report
  BY <1>2
<1> QED
  BY <1>3, <1>5, <1>6, <1>7, <1>8, RowsKept

\* Time passes, or nothing happens.
LEMMA TimeMoves ==
    ASSUME SanctionsInv, Tick \/ UNCHANGED vars
    PROVE  Moves
<1>1. /\ UNCHANGED <<restriction, infraction, appeal, raised, mitigated, announced>> /\ now' \in Nat
      /\ restriction' \in [Restrictions -> RestrictionRows] /\ infraction' \in [Infractions -> InfractionRows]
  BY DEF SanctionsInv, TypeOK, Tick, vars
<1>2. PairsShareReport'
  BY <1>1 DEF SanctionsInv, PairsShareReport
<1>3. /\ \A x \in Restrictions : restriction'[x] = restriction[x]
      /\ \A i \in Infractions : infraction'[i] = infraction[i]
  BY <1>1
<1> QED
  BY <1>1, <1>2, <1>3, RowsKept

-----------------------------------------------------------------------------
(* The theorems                                                             *)

\* Every step makes moves of its rows.
LEMMA NextMoves ==
    ASSUME SanctionsInv, [Next]_vars
    PROVE  Moves
<1>0. /\ \A c \in Charges : c[1] \in Places /\ c[2] \in Offences
      /\ \A c \in Kinds : c[1] \in Places /\ c[2] \in Punishments
      /\ \A until \in Deadlines : until \in Terms
  OBVIOUS
<1>1. CASE ModeratorRestricts
  BY <1>0, <1>1, CreateRestrictionMoves, UpdateRestrictionMoves, RevokeRestrictionMoves DEF ModeratorRestricts
<1>2. CASE ModeratorPunishes
  BY <1>0, <1>2, RevokeInfractionMoves, CreatePlainInfractionMoves, CreateEnforcedInfractionMoves, ApprovedBanMoves
     DEF ModeratorPunishes
<1>3. CASE PolicyPunishes
  BY <1>0, <1>3, PolicyRestrictionMoves, PolicyPlainInfractionMoves, PolicyEnforcedInfractionMoves DEF PolicyPunishes
<1>4. CASE Links
  BY <1>4, LinkRestrictionMoves, LinkInfractionMoves DEF Links
<1>5. CASE AppealSteps
  BY <1>5, CreateAppealMoves, DismissAppealMoves, AcceptAppealMoves DEF AppealSteps
<1>6. CASE ExpiryWorker
  BY <1>6, ExpiryWorkerMoves
<1>7. CASE Tick \/ UNCHANGED vars
  BY <1>7, TimeMoves
<1> QED
  BY <1>1, <1>2, <1>3, <1>4, <1>5, <1>6, <1>7 DEF Next

\* Nothing is sanctioned when the service starts.
LEMMA InitInv == Init => SanctionsInv
<1> SUFFICES ASSUME Init PROVE SanctionsInv
  OBVIOUS
<1>1. TypeOK
  BY DEF Init, TypeOK, RestrictionRows, InfractionRows, AppealRows, NoRestriction, NoInfraction, NoAppeal
<1>2. RowsNamed
  BY DEF Init, RowsNamed, NoInfraction, NoAppeal
<1>3. RevokedIsLifted /\ MitigatedOnce /\ PairsShareReport /\ UserKnowsTheTerm
  BY DEF Init, RevokedIsLifted, MitigatedOnce, PairsShareReport, UserKnowsTheTerm,
         NoRestriction, NoInfraction, NoAppeal
<1> QED
  BY <1>1, <1>2, <1>3 DEF SanctionsInv

\* The rows keep their invariant, whatever users, records and terms there are.
THEOREM SanctionsInvHolds == Spec => []SanctionsInv
<1>1. Init => SanctionsInv
  BY InitInv
<1>2. SanctionsInv /\ [Next]_vars => SanctionsInv'
  BY NextMoves, MovesKeepInv
<1> QED
  BY <1>1, <1>2, PTL DEF Spec

\* Rows keep their types.
THEOREM SanctionsTypeCorrect == Spec => []TypeOK
<1>1. SanctionsInv => TypeOK
  BY DEF SanctionsInv
<1> QED
  BY <1>1, SanctionsInvHolds, PTL

\* The enforcement of a revoked infraction is never in force.
THEOREM RevokedBansAreLifted == Spec => []RevokedIsLifted
<1>1. SanctionsInv => RevokedIsLifted
  BY DEF SanctionsInv
<1> QED
  BY <1>1, SanctionsInvHolds, PTL

\* Revocations and accepted appeals take an infraction back once.
THEOREM InfractionsAreMitigatedOnce == Spec => []MitigatedOnce
<1>1. SanctionsInv => MitigatedOnce
  BY DEF SanctionsInv
<1> QED
  BY <1>1, SanctionsInvHolds, PTL

\* An infraction and its enforcement lead to one report.
THEOREM PairsShareTheirReport == Spec => []PairsShareReport
<1>1. SanctionsInv => PairsShareReport
  BY DEF SanctionsInv
<1> QED
  BY <1>1, SanctionsInvHolds, PTL

\* A user knows the term of a restriction in force.
THEOREM UsersKnowTheirTerms == Spec => []UserKnowsTheTerm
<1>1. SanctionsInv => UserKnowsTheTerm
  BY DEF SanctionsInv
<1> QED
  BY <1>1, SanctionsInvHolds, PTL

\* A change of a row is a change of its version.
THEOREM ChangesAreVersioned == Spec => EveryChangeIsVersioned
<1>1. SanctionsInv /\ [Next]_vars =>
        [/\ \A x \in Restrictions : restriction'[x] # restriction[x]
              => restriction'[x].version > restriction[x].version
         /\ \A i \in Infractions : infraction'[i] # infraction[i]
              => infraction'[i].version > infraction[i].version
         /\ \A a \in Appeals : appeal'[a] # appeal[a] => appeal'[a].version > appeal[a].version]_vars
  BY NextMoves DEF Moves, RestrictionMoves, InfractionMoves, AppealMoves
<1> QED
  BY <1>1, SanctionsInvHolds, PTL DEF Spec, EveryChangeIsVersioned

\* A link to a report is never changed.
THEOREM LinksStay == Spec => LinksArePermanent
<1>1. SanctionsInv /\ [Next]_vars =>
        [/\ \A x \in Restrictions : restriction[x].report # None
              => restriction'[x].report = restriction[x].report
         /\ \A i \in Infractions : infraction[i].report # None
              => infraction'[i].report = infraction[i].report]_vars
  BY NextMoves DEF Moves, RestrictionMoves, InfractionMoves
<1> QED
  BY <1>1, SanctionsInvHolds, PTL DEF Spec, LinksArePermanent
=============================================================================
