----------------------- MODULE PolicyLifecycleProofs -----------------------
(***************************************************************************)
(* Proofs about PolicyLifecycle for any versions, fixtures, administrators,*)
(* calls under way, schedules and activation workers.                      *)
(***************************************************************************)
EXTENDS PolicyLifecycle, TLAPS

USE PolicyConstants

\* A published version has been written and validated.
PublishedIsValidated ==
    \A v \in Versions : ver[v].published => ver[v].state \notin {"ABSENT", "DRAFT"}

\* The bundle and its versions.
VersionsType ==
    /\ bundle \in BundleType
    /\ ver \in [Versions -> VersionType]
    /\ last \in [Versions -> RunType \cup {None}]
    /\ evidence \in [Versions -> RunType \cup {None}]
    /\ approvals \in [Versions -> SUBSET Admins]
    /\ tester \in [Testers -> [target : Versions \cup {None}, revision : Nat]]

VersionsInv ==
    /\ VersionsType
    /\ ActiveVersionAgrees
    /\ EnforcedWasVetted
    /\ PublishedIsValidated

\* An update whose bundle has not changed since it was read may change the flag
\* only if nothing is in force; none has read a version from the future.
EditorsAreCurrent ==
    \A e \in Editors : editor[e] # NoEdit =>
        /\ editor[e].loaded \in Nat
        /\ editor[e].loaded <= bundle.version
        /\ editor[e].loaded = bundle.version => FlagMayChange(editor[e].mandatory)

EditorsInv ==
    /\ editor \in [Editors -> EditType]
    /\ foresaw \in BOOLEAN
    /\ EditorsAreCurrent

\* A worker has a job as long as it is busy, whose target exists; its job was
\* carried out when it says so.
SchedulesAreKnown ==
    /\ \A s \in Schedules : sched[s].status # "ABSENT" => sched[s].target \in Versions
    /\ \A w \in Workers : worker[w].pc # "idle" =>
          /\ worker[w].job \in Schedules
          /\ sched[worker[w].job].status # "ABSENT"
          /\ worker[w].verdict => applied[worker[w].job] = 1

SchedulesType ==
    /\ sched \in [Schedules -> ScheduleType]
    /\ applied \in [Schedules -> Nat]
    /\ worker \in [Workers -> [pc : {"idle", "check", "activate", "finish"},
                               job : Schedules \cup {None}, verdict : BOOLEAN]]
    /\ crashes \in Nat

SchedulesInv ==
    /\ SchedulesType
    /\ SchedulesAreKnown
    /\ ScheduledOnce

\* The inductive invariant.
PolicyInv == VersionsInv /\ MandatoryWasApprovedTwice /\ EditorsInv /\ SchedulesInv

-----------------------------------------------------------------------------
(* The versions. *)

\* A version whose row changes, while the active version stays the same and only
\* it may become or stop being the shadow.
LEMMA OneVersionChanges ==
    ASSUME VersionsInv, VersionsType',
           NEW v \in Versions, NEW r, ver' = [ver EXCEPT ![v] = r],
           bundle'.active = bundle.active, bundle'.shadow \in {bundle.shadow, v, None},
           \A u \in Versions \ {v} : evidence'[u] = evidence[u],
           r.state = "ACTIVE" <=> ver[v].state = "ACTIVE",
           \/ bundle'.active = v \/ bundle'.shadow = v
           \/ r.state \in {"SHADOW", "ACTIVE", "RETIRED"}
           => r.published,
           r.published => r.state \notin {"ABSENT", "DRAFT"},
           r.published /\ r.fixtures # {} =>
              evidence'[v] # None /\ evidence'[v].passed /\ evidence'[v].stamp = r.revision
    PROVE  VersionsInv'
<1>1. ver'[v] = r /\ \A u \in Versions \ {v} : ver'[u] = ver[u]
  BY DEF VersionsInv, VersionsType
<1>2. ActiveVersionAgrees'
  BY <1>1 DEF VersionsInv, ActiveVersionAgrees
<1>3. PublishedIsValidated'
  BY <1>1 DEF VersionsInv, PublishedIsValidated
<1>4. EnforcedWasVetted'
  <2>1. ASSUME NEW u \in Versions \ {v}
        PROVE  /\ \/ bundle'.active = u \/ bundle'.shadow = u
                  \/ ver'[u].state \in {"SHADOW", "ACTIVE", "RETIRED"}
                  => ver'[u].published
               /\ ver'[u].published /\ ver'[u].fixtures # {} =>
                     evidence'[u] # None /\ evidence'[u].passed
                     /\ evidence'[u].stamp = ver'[u].revision
    BY <1>1 DEF VersionsInv, EnforcedWasVetted
  <2> QED
    BY <1>1, <2>1 DEF EnforcedWasVetted
<1> QED
  BY <1>2, <1>3, <1>4 DEF VersionsInv

\* How a step changes the bundle, as far as an update under way can see: its version
\* moves on, and the flag changes only while nothing is in force or by an update that
\* foresaw its version.
BundleMoves ==
    \/ bundle' = bundle
    \/ /\ bundle'.version = bundle.version + 1
       /\ bundle'.mandatory # bundle.mandatory =>
             \/ bundle.active = None /\ bundle.shadow = None
             \/ \E e \in Editors : UpdateBundle(e) /\ Foresees(e)

\* The steps of one version that leave the bundle alone.
LEMMA AuthoringKeeps ==
    ASSUME VersionsInv, NEW v \in Versions,
           \/ ValidatePolicy(v) \/ PublishPolicyVersion(v)
           \/ \E f \in Fixtures : CreateFixture(v, f) \/ UpdateFixture(v, f) \/ DeleteFixture(v, f)
    PROVE  VersionsInv' /\ bundle' = bundle /\ approvals' = approvals /\ foresaw' = foresaw
<1>0. /\ ver[v] \in VersionType /\ bundle' = bundle /\ approvals' = approvals
      /\ foresaw' = foresaw
      /\ last' = last /\ tester' = tester /\ bundle \in BundleType
  BY DEF VersionsInv, VersionsType, ValidatePolicy, PublishPolicyVersion, CreateFixture,
         UpdateFixture, DeleteFixture, WithFixtures, others
<1>1. CASE ValidatePolicy(v)
  <2>1. PICK r : r = [ver[v] EXCEPT !.state = "VALIDATED"]
    OBVIOUS
  <2>2. /\ r \in VersionType /\ r.state = "VALIDATED" /\ r.published = ver[v].published
        /\ r.fixtures = ver[v].fixtures /\ r.revision = ver[v].revision
    BY <1>0, <2>1 DEF VersionType
  <2>3. ver' = [ver EXCEPT ![v] = r] /\ ver[v].state = "DRAFT" /\ evidence' = evidence
    BY <1>1, <2>1 DEF ValidatePolicy, others
  <2>4. VersionsType'
    BY <1>0, <2>2, <2>3 DEF VersionsInv, VersionsType
  <2> QED
    BY <1>0, <2>2, <2>3, <2>4, OneVersionChanges
       DEF VersionsInv, EnforcedWasVetted, PublishedIsValidated
<1>2. CASE PublishPolicyVersion(v)
  <2>1. PICK r : r = [ver[v] EXCEPT !.published = TRUE]
    OBVIOUS
  <2>2. /\ r \in VersionType /\ r.state = ver[v].state /\ r.published
        /\ r.fixtures = ver[v].fixtures /\ r.revision = ver[v].revision
    BY <1>0, <2>1 DEF VersionType
  <2>3. /\ ver' = [ver EXCEPT ![v] = r] /\ ver[v].state = "VALIDATED"
        /\ evidence' = [evidence EXCEPT ![v] = last[v]] /\ TestsPassed(v)
    BY <1>2, <2>1 DEF PublishPolicyVersion
  <2>4. VersionsType' /\ evidence'[v] = last[v]
    BY <1>0, <2>2, <2>3 DEF VersionsInv, VersionsType
  <2>5. \A u \in Versions \ {v} : evidence'[u] = evidence[u]
    BY <2>3 DEF VersionsInv, VersionsType
  <2> QED
    BY <1>0, <2>2, <2>3, <2>4, <2>5, OneVersionChanges DEF TestsPassed
<1>3. CASE \E fixtures \in SUBSET Fixtures : WithFixtures(v, fixtures)
  <2>1. PICK fixtures \in SUBSET Fixtures : WithFixtures(v, fixtures)
    BY <1>3
  <2>2. PICK r : r = [state |-> ver[v].state, published |-> ver[v].published,
                      continues |-> ver[v].continues, fixtures |-> fixtures,
                      revision |-> ver[v].revision + 1]
    OBVIOUS
  <2>3. r \in VersionType /\ r.state = ver[v].state /\ r.published = ver[v].published
    BY <1>0, <2>2 DEF VersionType
  <2>4. ver' = [ver EXCEPT ![v] = r] /\ ~r.published /\ evidence' = evidence
    BY <2>1, <2>2, <2>3 DEF WithFixtures, FixturesMutable, others
  <2>5. VersionsType'
    BY <1>0, <2>3, <2>4 DEF VersionsInv, VersionsType
  <2> QED
    BY <1>0, <2>3, <2>4, <2>5, OneVersionChanges
       DEF VersionsInv, EnforcedWasVetted, PublishedIsValidated
<1>4. ASSUME NEW f \in Fixtures, CreateFixture(v, f) \/ UpdateFixture(v, f) \/ DeleteFixture(v, f)
      PROVE  \E fixtures \in SUBSET Fixtures : WithFixtures(v, fixtures)
  <2>1. ver[v].fixtures \in SUBSET Fixtures
    BY <1>0 DEF VersionType
  <2> QED
    BY <1>4, <2>1 DEF CreateFixture, UpdateFixture, DeleteFixture
<1> QED
  BY <1>0, <1>1, <1>2, <1>3, <1>4

\* A new draft.
LEMMA CreateDraftKeeps ==
    ASSUME VersionsInv, NEW v \in Versions, NEW continues \in BOOLEAN, CreateDraft(v, continues)
    PROVE  /\ VersionsInv' /\ approvals' = approvals /\ BundleMoves /\ foresaw' = foresaw
           /\ bundle'.mandatory = bundle.mandatory /\ bundle'.active = bundle.active
<1>0. /\ bundle \in BundleType /\ UNCHANGED others /\ ver[v].state = "ABSENT"
      /\ ver[v] \in VersionType
  BY DEF VersionsInv, VersionsType, CreateDraft
<1>1. PICK b : b = [bundle EXCEPT !.version = @ + 1]
  OBVIOUS
<1>2. /\ bundle' = b /\ b \in BundleType /\ b.version = bundle.version + 1
      /\ b.mandatory = bundle.mandatory /\ b.active = bundle.active /\ b.shadow = bundle.shadow
  BY <1>0, <1>1 DEF CreateDraft, BundleType
<1>3. PICK r : r = [state |-> "DRAFT", published |-> FALSE, continues |-> continues,
                    fixtures |-> {}, revision |-> 0]
  OBVIOUS
<1>4. r \in VersionType /\ r.state = "DRAFT" /\ ~r.published
  BY <1>3 DEF VersionType
<1>5. ver' = [ver EXCEPT ![v] = r]
  BY <1>3 DEF CreateDraft
<1>6. VersionsType'
  BY <1>0, <1>2, <1>4, <1>5 DEF VersionsInv, VersionsType, others
<1>7. bundle.active # v /\ bundle.shadow # v
  BY <1>0 DEF VersionsInv, EnforcedWasVetted, PublishedIsValidated
<1> QED
  BY <1>0, <1>2, <1>4, <1>5, <1>6, <1>7, OneVersionChanges DEF others, BundleMoves

\* set_shadow with a version.
LEMMA EnableShadowKeeps ==
    ASSUME VersionsInv, NEW v \in Versions, EnableShadow(v)
    PROVE  /\ VersionsInv' /\ approvals' = approvals /\ BundleMoves /\ foresaw' = foresaw
           /\ bundle'.mandatory = bundle.mandatory /\ bundle'.active = bundle.active
<1>0. /\ bundle \in BundleType /\ UNCHANGED others /\ ver[v].published
      /\ ver[v] \in VersionType
  BY DEF VersionsInv, VersionsType, EnableShadow
<1>1. PICK b : b = [bundle EXCEPT !.shadow = v, !.version = @ + 1]
  OBVIOUS
<1>2. /\ bundle' = b /\ b \in BundleType /\ b.version = bundle.version + 1
      /\ b.mandatory = bundle.mandatory /\ b.active = bundle.active /\ b.shadow = v
  <2>1. bundle' = b
    BY <1>1 DEF EnableShadow
  <2>2. /\ b \in BundleType /\ b.version = bundle.version + 1
        /\ b.mandatory = bundle.mandatory /\ b.active = bundle.active /\ b.shadow = v
    <3>1. PICK q : q = [bundle EXCEPT !.shadow = v]
      OBVIOUS
    <3>2. /\ q \in BundleType /\ q.mandatory = bundle.mandatory /\ q.active = bundle.active
          /\ q.shadow = v
      BY <1>0, <3>1 DEF BundleType
    <3>3. b = [q EXCEPT !.version = bundle.version + 1]
      BY <1>1, <3>1
    <3>4. bundle.version + 1 \in Nat
      BY <1>0 DEF BundleType
    <3> QED
      BY <3>2, <3>3, <3>4 DEF BundleType
  <2> QED
    BY <2>1, <2>2
<1>3. PICK to : to = (IF ver[v].state = "VALIDATED" THEN "SHADOW" ELSE ver[v].state)
  OBVIOUS
<1>4. PICK r : r = [ver[v] EXCEPT !.state = to]
  OBVIOUS
<1>5. /\ r \in VersionType /\ r.published /\ r.fixtures = ver[v].fixtures
      /\ r.revision = ver[v].revision /\ r.state = to
  BY <1>0, <1>3, <1>4 DEF VersionType
<1>6. ver' = [ver EXCEPT ![v] = r]
  BY <1>3, <1>4 DEF EnableShadow
<1>7. VersionsType'
  BY <1>0, <1>2, <1>5, <1>6 DEF VersionsInv, VersionsType, others
<1>8. r.state # "ABSENT" /\ r.state # "DRAFT" /\ (r.state = "ACTIVE" <=> ver[v].state = "ACTIVE")
  BY <1>0, <1>3, <1>5 DEF VersionsInv, PublishedIsValidated
<1>9. r.fixtures # {} =>
         evidence'[v] # None /\ evidence'[v].passed /\ evidence'[v].stamp = r.revision
  BY <1>0, <1>5 DEF VersionsInv, EnforcedWasVetted, others
<1> QED
  BY <1>0, <1>2, <1>5, <1>6, <1>7, <1>8, <1>9, OneVersionChanges DEF others, BundleMoves

\* set_shadow without one.
LEMMA DisableShadowKeeps ==
    ASSUME VersionsInv, DisableShadow
    PROVE  /\ VersionsInv' /\ approvals' = approvals /\ BundleMoves /\ foresaw' = foresaw
           /\ bundle'.mandatory = bundle.mandatory /\ bundle'.active = bundle.active
<1>0. bundle \in BundleType /\ UNCHANGED others /\ ver \in [Versions -> VersionType]
  BY DEF VersionsInv, VersionsType, DisableShadow
<1>1. PICK b : b = [bundle EXCEPT !.shadow = None, !.version = @ + 1]
  OBVIOUS
<1>2. /\ bundle' = b /\ b \in BundleType /\ b.version = bundle.version + 1
      /\ b.mandatory = bundle.mandatory /\ b.active = bundle.active /\ b.shadow = None
  <2>1. bundle' = b
    BY <1>1 DEF DisableShadow
  <2>2. /\ b \in BundleType /\ b.version = bundle.version + 1
        /\ b.mandatory = bundle.mandatory /\ b.active = bundle.active /\ b.shadow = None
    <3>1. PICK q : q = [bundle EXCEPT !.shadow = None]
      OBVIOUS
    <3>2. /\ q \in BundleType /\ q.mandatory = bundle.mandatory /\ q.active = bundle.active
          /\ q.shadow = None
      BY <1>0, <3>1 DEF BundleType
    <3>3. b = [q EXCEPT !.version = bundle.version + 1]
      BY <1>1, <3>1
    <3>4. bundle.version + 1 \in Nat
      BY <1>0 DEF BundleType
    <3> QED
      BY <3>2, <3>3, <3>4 DEF BundleType
  <2> QED
    BY <2>1, <2>2
<1>3. ver' = [v \in Versions |->
                  IF v = bundle.shadow /\ ver[v].state = "SHADOW"
                  THEN [ver[v] EXCEPT !.state = "VALIDATED"] ELSE ver[v]]
  BY DEF DisableShadow
<1>4. ASSUME NEW v \in Versions
      PROVE  /\ ver'[v] \in VersionType
             /\ ver'[v].published = ver[v].published /\ ver'[v].fixtures = ver[v].fixtures
             /\ ver'[v].revision = ver[v].revision
             /\ \/ ver'[v].state = ver[v].state
                \/ ver[v].state = "SHADOW" /\ ver'[v].state = "VALIDATED"
  <2>1. PICK r : r = [ver[v] EXCEPT !.state = "VALIDATED"]
    OBVIOUS
  <2>2. /\ r \in VersionType /\ r.published = ver[v].published /\ r.fixtures = ver[v].fixtures
        /\ r.revision = ver[v].revision /\ r.state = "VALIDATED"
    BY <1>0, <2>1 DEF VersionType
  <2>3. ver'[v] = IF v = bundle.shadow /\ ver[v].state = "SHADOW" THEN r ELSE ver[v]
    BY <1>3, <2>1
  <2> QED
    BY <1>0, <2>2, <2>3
<1>5. VersionsType'
  BY <1>0, <1>2, <1>3, <1>4 DEF VersionsInv, VersionsType, others
<1>6. ActiveVersionAgrees' /\ PublishedIsValidated'
  BY <1>2, <1>4 DEF VersionsInv, ActiveVersionAgrees, PublishedIsValidated
<1>7. EnforcedWasVetted'
  BY <1>0, <1>2, <1>4 DEF VersionsInv, EnforcedWasVetted, others
<1> QED
  BY <1>0, <1>2, <1>5, <1>6, <1>7 DEF VersionsInv, others, BundleMoves

\* What activate leaves of a version: the new one is ACTIVE, the old one RETIRED.
LEMMA ActivatedShape ==
    ASSUME VersionsInv, NEW v \in Versions, NEW u \in Versions
    PROVE  /\ Activated(v)[u] \in VersionType
           /\ Activated(v)[u].published = ver[u].published
           /\ Activated(v)[u].fixtures = ver[u].fixtures
           /\ Activated(v)[u].revision = ver[u].revision
           /\ Activated(v)[u].state = IF u = v THEN "ACTIVE"
                                      ELSE IF u = bundle.active THEN "RETIRED" ELSE ver[u].state
<1>1. ver[u] \in VersionType
  BY DEF VersionsInv, VersionsType
<1>2. PICK r : r = [ver[u] EXCEPT !.state = "ACTIVE"]
  OBVIOUS
<1>3. PICK q : q = [ver[u] EXCEPT !.state = "RETIRED"]
  OBVIOUS
<1>4. Activated(v)[u] = IF u = v THEN r ELSE IF u = bundle.active THEN q ELSE ver[u]
  BY <1>2, <1>3 DEF Activated
<1>5. /\ r \in VersionType /\ r.published = ver[u].published /\ r.fixtures = ver[u].fixtures
      /\ r.revision = ver[u].revision /\ r.state = "ACTIVE"
  BY <1>1, <1>2 DEF VersionType
<1>6. /\ q \in VersionType /\ q.published = ver[u].published /\ q.fixtures = ver[u].fixtures
      /\ q.revision = ver[u].revision /\ q.state = "RETIRED"
  BY <1>1, <1>3 DEF VersionType
<1> QED
  BY <1>1, <1>4, <1>5, <1>6

\* activate, under whatever key.
LEMMA ActivateKeeps ==
    ASSUME VersionsInv, MandatoryWasApprovedTwice, NEW v \in Versions, Activate(v),
           UNCHANGED <<last, evidence, approvals, tester>>
    PROVE  VersionsInv' /\ MandatoryWasApprovedTwice' /\ BundleMoves
<1>0. bundle \in BundleType /\ ver \in [Versions -> VersionType] /\ ver[v].published
  BY DEF VersionsInv, VersionsType, Activate, Activatable
<1>1. bundle' = [state |-> bundle.state, mandatory |-> bundle.mandatory, active |-> v,
                 shadow |-> IF bundle.shadow = v THEN None ELSE bundle.shadow,
                 version |-> bundle.version + 1]
  BY DEF Activate
<1>2. /\ bundle' \in BundleType /\ bundle'.version = bundle.version + 1
      /\ bundle'.mandatory = bundle.mandatory /\ bundle'.active = v
      /\ bundle'.shadow \in {None, bundle.shadow}
  BY <1>0, <1>1 DEF BundleType
<1>3. /\ ver' = [u \in Versions |-> ver'[u]]
      /\ \A u \in Versions :
            /\ ver'[u] \in VersionType
            /\ ver'[u].published = ver[u].published
            /\ ver'[u].fixtures = ver[u].fixtures
            /\ ver'[u].revision = ver[u].revision
            /\ ver'[u].state = IF u = v THEN "ACTIVE"
                               ELSE IF u = bundle.active THEN "RETIRED" ELSE ver[u].state
  <2>1. ver' = Activated(v)
    BY DEF Activate
  <2>2. ver' = [u \in Versions |-> ver'[u]]
    BY <2>1 DEF Activated
  <2> QED
    BY <2>1, <2>2, ActivatedShape
<1>4. VersionsType'
  <2>1. ver' \in [Versions -> VersionType]
    BY <1>3
  <2> QED
    BY <1>2, <2>1 DEF VersionsInv, VersionsType
<1>5. ActiveVersionAgrees'
  BY <1>2, <1>3 DEF VersionsInv, ActiveVersionAgrees
<1>6. PublishedIsValidated'
  BY <1>3 DEF VersionsInv, PublishedIsValidated
<1>7. EnforcedWasVetted'
  <2>1. \A u \in Versions : bundle.active = u => ver[u].published
    BY DEF VersionsInv, EnforcedWasVetted
  <2> QED
    BY <1>0, <1>2, <1>3, <2>1 DEF VersionsInv, EnforcedWasVetted
<1>8. MandatoryWasApprovedTwice'
  BY <1>2 DEF MandatoryWasApprovedTwice, GlobalMandatory, Activate, Activatable
<1>9. BundleMoves
  BY <1>2 DEF BundleMoves
<1> QED
  BY <1>4, <1>5, <1>6, <1>7, <1>8, <1>9 DEF VersionsInv

\* Approvals are only added, so who is in force stays approved.
LEMMA ApprovedStays ==
    ASSUME VersionsInv, MandatoryWasApprovedTwice,
           \A v \in Versions : approvals[v] \subseteq approvals'[v],
           bundle'.active = bundle.active,
           foresaw' = foresaw, bundle'.mandatory = bundle.mandatory \/ bundle.active = None
    PROVE  MandatoryWasApprovedTwice'
<1>1. ASSUME GlobalMandatory', ~foresaw', NEW v \in Versions, bundle'.active = v
      PROVE  \E a, b \in approvals'[v] : a # b
  <2>1. GlobalMandatory
    BY <1>1 DEF GlobalMandatory
  <2> QED
    BY <1>1, <2>1 DEF MandatoryWasApprovedTwice
<1> QED
  BY <1>1 DEF MandatoryWasApprovedTwice

\* A step that leaves the versions and what is in force as they are.
LEMMA VersionsRest ==
    ASSUME VersionsInv, VersionsType', UNCHANGED <<ver, evidence>>,
           bundle'.active = bundle.active, bundle'.shadow = bundle.shadow
    PROVE  VersionsInv'
BY DEF VersionsInv, ActiveVersionAgrees, EnforcedWasVetted, PublishedIsValidated

\* update_bundle: the flag it writes was checked on the very version it replaces, or it
\* foresaw that version.
LEMMA UpdateBundleKeeps ==
    ASSUME VersionsInv, MandatoryWasApprovedTwice, EditorsInv, NEW e \in Editors, UpdateBundle(e)
    PROVE  VersionsInv' /\ MandatoryWasApprovedTwice' /\ BundleMoves
<1>0. /\ bundle \in BundleType /\ UNCHANGED <<ver, last, evidence, approvals, tester>>
      /\ editor[e] \in EditType /\ editor[e] # NoEdit
  BY DEF VersionsInv, VersionsType, EditorsInv, UpdateBundle
<1>1. CASE ~UpdateAccepted(e)
  <2>1. bundle' = bundle /\ foresaw' = (foresaw \/ FALSE)
    BY <1>1 DEF UpdateBundle
  <2>2. foresaw' = foresaw
    BY <2>1 DEF EditorsInv
  <2> QED
    BY <1>0, <2>1, <2>2, VersionsRest, ApprovedStays DEF VersionsInv, VersionsType, BundleMoves
<1>2. CASE UpdateAccepted(e)
  <2>1. bundle' = [state |-> bundle.state, mandatory |-> editor[e].mandatory,
                   active |-> bundle.active, shadow |-> bundle.shadow,
                   version |-> bundle.version + 1]
    BY <1>2 DEF UpdateBundle, Updated
  <2>2. /\ bundle' \in BundleType /\ bundle'.active = bundle.active
        /\ bundle'.shadow = bundle.shadow /\ bundle'.version = bundle.version + 1
        /\ bundle'.mandatory = editor[e].mandatory
    BY <1>0, <2>1 DEF BundleType, EditType
  <2>3. bundle'.mandatory # bundle.mandatory =>
           (bundle.active = None /\ bundle.shadow = None) \/ Foresees(e)
    <3>1. /\ editor[e].loaded \in Nat /\ editor[e].loaded <= bundle.version
          /\ editor[e].loaded = bundle.version => FlagMayChange(editor[e].mandatory)
          /\ editor[e].expected = bundle.version /\ bundle.version \in Nat
      BY <1>0, <1>2 DEF UpdateAccepted, EditorsInv, EditorsAreCurrent, BundleType
    <3> QED
      BY <2>2, <3>1 DEF FlagMayChange, Foresees
  <2>4. VersionsType'
    BY <1>0, <2>2 DEF VersionsInv, VersionsType
  <2>5. VersionsInv' /\ BundleMoves
    BY <1>0, <2>2, <2>3, <2>4, VersionsRest DEF BundleMoves
  <2>6. foresaw' = (foresaw \/ Foresees(e))
    BY <1>2 DEF UpdateBundle
  <2>7. MandatoryWasApprovedTwice'
    <3>1. CASE bundle'.mandatory # bundle.mandatory /\ Foresees(e)
      BY <2>6, <3>1 DEF MandatoryWasApprovedTwice
    <3>2. CASE bundle'.mandatory = bundle.mandatory \/ bundle.active = None
      <4>1. CASE foresaw'
        BY <4>1 DEF MandatoryWasApprovedTwice
      <4>2. CASE ~foresaw'
        BY <1>0, <2>2, <2>6, <3>2, <4>2, ApprovedStays DEF EditorsInv
      <4> QED
        BY <4>1, <4>2
    <3> QED
      BY <2>3, <3>1, <3>2
  <2> QED
    BY <2>5, <2>7
<1> QED
  BY <1>1, <1>2

\* A bundle is disabled or retired.
LEMMA TransitionKeeps ==
    ASSUME VersionsInv, MandatoryWasApprovedTwice, NEW target \in {"DISABLED", "RETIRED"},
           TransitionBundle(target)
    PROVE  VersionsInv' /\ MandatoryWasApprovedTwice' /\ BundleMoves
<1>0. bundle \in BundleType /\ UNCHANGED <<ver, last, evidence, approvals, tester, foresaw>>
  BY DEF VersionsInv, VersionsType, TransitionBundle, others
<1>1. PICK b : b = [bundle EXCEPT !.state = target, !.version = @ + 1]
  OBVIOUS
<1>2. PICK q : q = [bundle EXCEPT !.state = target]
  OBVIOUS
<1>3. /\ q \in BundleType /\ q.mandatory = bundle.mandatory /\ q.active = bundle.active
      /\ q.shadow = bundle.shadow
  BY <1>0, <1>2 DEF BundleType
<1>4. b = [q EXCEPT !.version = bundle.version + 1] /\ bundle.version + 1 \in Nat
  BY <1>0, <1>1, <1>2 DEF BundleType
<1>5. /\ b \in BundleType /\ b.mandatory = bundle.mandatory /\ b.active = bundle.active
      /\ b.shadow = bundle.shadow /\ b.version = bundle.version + 1
  BY <1>3, <1>4 DEF BundleType
<1>6. bundle' = b
  BY <1>1 DEF TransitionBundle
<1>7. VersionsType'
  BY <1>0, <1>5, <1>6 DEF VersionsInv, VersionsType
<1> QED
  BY <1>0, <1>5, <1>6, <1>7, VersionsRest, ApprovedStays DEF BundleMoves

\* Test runs and approvals.
LEMMA TestsAndApprovalsKeep ==
    ASSUME VersionsInv, MandatoryWasApprovedTwice,
           \/ \E t \in Testers, v \in Versions : StartTests(t, v)
           \/ \E t \in Testers : AbandonTests(t) \/ \E passed \in BOOLEAN : RecordTestRun(t, passed)
           \/ \E a \in Admins, v \in Versions : ApprovePolicyVersion(a, v)
    PROVE  VersionsInv' /\ MandatoryWasApprovedTwice' /\ bundle' = bundle
<1> DEFINE Kept == VersionsInv' /\ MandatoryWasApprovedTwice' /\ bundle' = bundle
<1>0. VersionsType /\ ver \in [Versions -> VersionType]
  BY DEF VersionsInv, VersionsType
<1>a. NoRun \in [target : Versions \cup {None}, revision : Nat]
  BY DEF NoRun
<1>1. ASSUME NEW t \in Testers, NEW v \in Versions, StartTests(t, v) PROVE Kept
  <2>1. ver[v].revision \in Nat
    BY <1>0 DEF VersionType
  <2>2. UNCHANGED policy /\ tester' \in [Testers -> [target : Versions \cup {None}, revision : Nat]]
    BY <1>0, <1>1, <2>1 DEF StartTests, VersionsType
  <2>3. VersionsType'
    BY <1>0, <2>2 DEF VersionsType, policy
  <2> QED
    BY <2>2, <2>3, VersionsRest, ApprovedStays DEF policy
<1>2. ASSUME NEW t \in Testers, AbandonTests(t) PROVE Kept
  <2>1. UNCHANGED policy /\ tester' \in [Testers -> [target : Versions \cup {None}, revision : Nat]]
    BY <1>0, <1>a, <1>2 DEF AbandonTests, VersionsType
  <2>2. VersionsType'
    BY <1>0, <2>1 DEF VersionsType, policy
  <2> QED
    BY <2>1, <2>2, VersionsRest, ApprovedStays DEF policy
<1>3. ASSUME NEW t \in Testers, NEW passed \in BOOLEAN, RecordTestRun(t, passed) PROVE Kept
  <2>1. UNCHANGED <<bundle, ver, evidence, approvals, foresaw>>
    BY <1>3 DEF RecordTestRun
  <2>2. tester' \in [Testers -> [target : Versions \cup {None}, revision : Nat]]
    BY <1>0, <1>a, <1>3 DEF RecordTestRun, VersionsType
  <2>3. last' \in [Versions -> RunType \cup {None}]
    <3>1. PICK v, run : v = tester[t].target /\ run = TestRun(t, passed)
      OBVIOUS
    <3>2. last' = [last EXCEPT ![v] = run]
      BY <1>3, <3>1 DEF RecordTestRun
    <3>3. v \in Versions => run \in RunType
      BY <1>0, <3>1 DEF VersionsType, VersionType, TestRun, RunType
    <3> QED
      BY <1>0, <3>2, <3>3 DEF VersionsType
  <2>4. VersionsType'
    BY <1>0, <2>1, <2>2, <2>3 DEF VersionsType
  <2> QED
    BY <2>1, <2>4, VersionsRest, ApprovedStays
<1>4. ASSUME NEW a \in Admins, NEW v \in Versions, ApprovePolicyVersion(a, v) PROVE Kept
  <2>1. /\ UNCHANGED <<bundle, ver, evidence, last, tester, foresaw>>
        /\ approvals' = [approvals EXCEPT ![v] = @ \cup {a}]
    BY <1>4 DEF ApprovePolicyVersion
  <2>2. /\ approvals' \in [Versions -> SUBSET Admins]
        /\ \A u \in Versions : approvals[u] \subseteq approvals'[u]
    BY <1>0, <2>1 DEF VersionsType
  <2>3. VersionsType'
    BY <1>0, <2>1, <2>2 DEF VersionsType
  <2> QED
    BY <2>1, <2>2, <2>3, VersionsRest, ApprovedStays
<1> QED
  BY <1>1, <1>2, <1>3, <1>4

-----------------------------------------------------------------------------
(* Updates under way. *)

\* Whatever happens to the bundle, an update that read it before stays current or
\* is out of date.
LEMMA EditorsKeep ==
    ASSUME EditorsInv, bundle \in BundleType, BundleMoves, foresaw' \in BOOLEAN,
           editor' \in [Editors -> EditType],
           \A e \in Editors : editor'[e] = editor[e] \/ editor'[e] = NoEdit
    PROVE  EditorsInv'
<1>1. bundle.version \in Nat
  BY DEF BundleType
<1>2. ASSUME NEW e \in Editors, editor'[e] # NoEdit
      PROVE  /\ editor'[e].loaded \in Nat
             /\ editor'[e].loaded <= bundle'.version
             /\ editor'[e].loaded = bundle'.version => FlagMayChange(editor[e].mandatory)'
  <2>1. editor'[e] = editor[e] /\ editor[e] # NoEdit
    BY <1>2
  <2>2. CASE bundle' = bundle
    BY <2>1, <2>2 DEF EditorsInv, EditorsAreCurrent, FlagMayChange
  <2>3. CASE bundle'.version = bundle.version + 1
    <3>1. editor[e].loaded \in Nat /\ editor[e].loaded <= bundle.version
      BY <2>1 DEF EditorsInv, EditorsAreCurrent
    <3> QED
      BY <1>1, <2>1, <2>3, <3>1
  <2> QED
    BY <2>2, <2>3 DEF BundleMoves
<1> QED
  BY <1>2 DEF EditorsInv, EditorsAreCurrent

\* An update reads the bundle and checks the flag.
LEMMA LoadForUpdateKeeps ==
    ASSUME EditorsInv, bundle \in BundleType, NEW e \in Editors, NEW ahead \in 0 .. MaxAhead,
           NEW m \in BOOLEAN, LoadForUpdate(e, bundle.version + ahead, m)
    PROVE  EditorsInv'
<1>1. PICK n : n = [loaded |-> bundle.version, expected |-> bundle.version + ahead,
                    mandatory |-> m]
  OBVIOUS
<1>2. /\ editor' = [editor EXCEPT ![e] = n] /\ bundle' = bundle /\ FlagMayChange(m)
      /\ foresaw' = foresaw
  BY <1>1 DEF LoadForUpdate, policy
<1>3. /\ n.loaded = bundle.version /\ n.mandatory = m /\ bundle.version \in Nat
      /\ n \in EditType
  BY <1>1 DEF BundleType, EditType
<1>4. editor' \in [Editors -> EditType]
  BY <1>2, <1>3 DEF EditorsInv
<1>5. editor'[e] = n /\ \A d \in Editors \ {e} : editor'[d] = editor[d]
  BY <1>2 DEF EditorsInv
<1>6. EditorsAreCurrent'
  BY <1>2, <1>3, <1>5 DEF EditorsInv, EditorsAreCurrent, FlagMayChange
<1> QED
  BY <1>2, <1>4, <1>6 DEF EditorsInv

-----------------------------------------------------------------------------
(* Scheduled activations. *)

\* What may be known of a worker after a step.
WorkerMay(n) ==
    n.pc # "idle" =>
        /\ n.job \in Schedules
        /\ sched'[n.job].status # "ABSENT"
        /\ n.verdict => applied'[n.job] = 1

\* A step of schedules and workers, when no schedule is forgotten, none is carried
\* out twice, and APPLIED are those that were.
LEMMA ScheduleStep ==
    ASSUME SchedulesInv, SchedulesType',
           \A s \in Schedules : sched'[s].status # "ABSENT" => sched'[s].target \in Versions,
           \A s \in Schedules : sched[s].status # "ABSENT" => sched'[s].status # "ABSENT",
           \A s \in Schedules : applied[s] = 1 => applied'[s] = 1,
           \A s \in Schedules : applied'[s] <= 1,
           \A s \in Schedules : sched'[s].status = "APPLIED" => applied'[s] = 1,
           \A w \in Workers : worker'[w] = worker[w] \/ WorkerMay(worker'[w])
    PROVE  SchedulesInv'
<1>1. ScheduledOnce'
  BY DEF ScheduledOnce
<1>2. ASSUME NEW w \in Workers
      PROVE  WorkerMay(worker'[w])
  BY DEF WorkerMay, SchedulesInv, SchedulesAreKnown
<1>3. SchedulesAreKnown'
  BY <1>2 DEF SchedulesAreKnown, WorkerMay
<1> QED
  BY <1>1, <1>3 DEF SchedulesInv

\* Nothing about the schedules.
LEMMA SchedulesRest ==
    ASSUME SchedulesInv, UNCHANGED <<sched, applied, worker, crashes>>
    PROVE  SchedulesInv'
BY DEF SchedulesInv, SchedulesType, SchedulesAreKnown, ScheduledOnce

\* One schedule is made, falls due, or loses its lease.
LEMMA OneScheduleKeeps ==
    ASSUME SchedulesInv, NEW s \in Schedules, NEW r \in ScheduleType,
           sched' = [sched EXCEPT ![s] = r], UNCHANGED <<applied, worker, crashes>>,
           r.status # "ABSENT", r.target \in Versions, r.status # "APPLIED"
    PROVE  SchedulesInv'
<1>1. /\ sched' \in [Schedules -> ScheduleType] /\ sched'[s] = r
      /\ \A u \in Schedules \ {s} : sched'[u] = sched[u]
  BY DEF SchedulesInv, SchedulesType
<1>2. SchedulesType'
  BY <1>1 DEF SchedulesInv, SchedulesType
<1> QED
  BY <1>1, <1>2, ScheduleStep DEF SchedulesInv, SchedulesAreKnown, ScheduledOnce

\* The steps of a schedule without a worker.
LEMMA SchedulingKeeps ==
    ASSUME SchedulesInv, VersionsInv,
           \/ \E s \in Schedules, v \in Versions, ahead \in 0 .. MaxAhead :
                 ScheduleActivation(s, v, bundle.version + ahead)
           \/ \E s \in Schedules : FallsDue(s) \/ LeaseEnds(s)
    PROVE  SchedulesInv'
<1>1. ASSUME NEW s \in Schedules, NEW v \in Versions, NEW ahead \in 0 .. MaxAhead,
             ScheduleActivation(s, v, bundle.version + ahead)
      PROVE  SchedulesInv'
  <2>1. bundle.version + ahead \in Nat
    BY DEF VersionsInv, VersionsType, BundleType
  <2>2. PICK r : r = [status |-> "PENDING", target |-> v,
                      expected |-> bundle.version + ahead, due |-> FALSE, leased |-> FALSE]
    OBVIOUS
  <2>3. r \in ScheduleType /\ r.status = "PENDING" /\ r.target = v
    BY <2>1, <2>2 DEF ScheduleType
  <2>4. sched' = [sched EXCEPT ![s] = r] /\ UNCHANGED <<applied, worker, crashes>>
    BY <1>1, <2>2 DEF ScheduleActivation
  <2> QED
    BY <2>3, <2>4, OneScheduleKeeps
<1>2. ASSUME NEW s \in Schedules, FallsDue(s) PROVE SchedulesInv'
  <2>1. PICK r : r = [sched[s] EXCEPT !.due = TRUE]
    OBVIOUS
  <2>2. sched[s] \in ScheduleType /\ sched[s].status = "PENDING"
    BY <1>2 DEF SchedulesInv, SchedulesType, FallsDue
  <2>3. r \in ScheduleType /\ r.status = "PENDING" /\ r.target = sched[s].target
    BY <2>1, <2>2 DEF ScheduleType
  <2>4. sched' = [sched EXCEPT ![s] = r] /\ UNCHANGED <<applied, worker, crashes>>
    BY <1>2, <2>1 DEF FallsDue
  <2> QED
    BY <2>2, <2>3, <2>4, OneScheduleKeeps DEF SchedulesInv, SchedulesAreKnown
<1>3. ASSUME NEW s \in Schedules, LeaseEnds(s) PROVE SchedulesInv'
  <2>1. PICK r : r = [sched[s] EXCEPT !.leased = FALSE]
    OBVIOUS
  <2>2. sched[s] \in ScheduleType /\ sched[s].status = "PROCESSING"
    BY <1>3 DEF SchedulesInv, SchedulesType, LeaseEnds
  <2>3. r \in ScheduleType /\ r.status = "PROCESSING" /\ r.target = sched[s].target
    BY <2>1, <2>2 DEF ScheduleType
  <2>4. sched' = [sched EXCEPT ![s] = r] /\ UNCHANGED <<applied, worker, crashes>>
    BY <1>3, <2>1 DEF LeaseEnds
  <2> QED
    BY <2>2, <2>3, <2>4, OneScheduleKeeps DEF SchedulesInv, SchedulesAreKnown
<1> QED
  BY <1>1, <1>2, <1>3

\* The type of one worker.
WorkerType == [pc : {"idle", "check", "activate", "finish"},
               job : Schedules \cup {None}, verdict : BOOLEAN]

\* A worker that moves on without touching a schedule.
LEMMA WorkerMovesOn ==
    ASSUME SchedulesInv, NEW w \in Workers, NEW n \in WorkerType,
           worker' = [worker EXCEPT ![w] = n], UNCHANGED <<sched, applied>>, crashes' \in Nat,
           WorkerMay(n)
    PROVE  SchedulesInv'
<1>1. /\ worker' \in [Workers -> WorkerType] /\ worker'[w] = n
      /\ \A u \in Workers \ {w} : worker'[u] = worker[u]
  BY DEF SchedulesInv, SchedulesType, WorkerType
<1>2. SchedulesType'
  BY <1>1 DEF SchedulesInv, SchedulesType, WorkerType
<1> QED
  BY <1>1, <1>2, ScheduleStep DEF SchedulesInv, SchedulesAreKnown, ScheduledOnce

\* What is known of a busy worker.
LEMMA BusyWorker ==
    ASSUME SchedulesInv, NEW w \in Workers, worker[w].pc # "idle"
    PROVE  /\ worker[w] \in WorkerType /\ worker[w].job \in Schedules
           /\ sched[worker[w].job] \in ScheduleType
           /\ sched[worker[w].job].status # "ABSENT"
           /\ sched[worker[w].job].target \in Versions
           /\ applied[worker[w].job] \in {0, 1}
<1>1. worker[w] \in WorkerType
  BY DEF SchedulesInv, SchedulesType, WorkerType
<1>2. PICK s \in Schedules : s = worker[w].job
  BY DEF SchedulesInv, SchedulesAreKnown
<1>3. sched[s] \in ScheduleType /\ sched[s].status # "ABSENT" /\ sched[s].target \in Versions
  BY <1>2 DEF SchedulesInv, SchedulesType, SchedulesAreKnown
<1>4. applied[s] \in {0, 1}
  <2>1. applied[s] \in Nat
    BY DEF SchedulesInv, SchedulesType
  <2>2. applied[s] <= 1
    BY DEF SchedulesInv, ScheduledOnce
  <2> QED
    BY <2>1, <2>2
<1> QED
  BY <1>1, <1>2, <1>3, <1>4

\* A worker without a job knows nothing.
LEMMA IdleMay == Idle \in WorkerType /\ WorkerMay(Idle)
BY DEF Idle, WorkerType, WorkerMay

\* due_activations.
LEMMA ClaimDueKeeps ==
    ASSUME SchedulesInv, NEW w \in Workers, NEW s \in Schedules, ClaimDue(w, s)
    PROVE  SchedulesInv'
<1>1. sched[s] \in ScheduleType /\ sched[s].status \in {"PENDING", "PROCESSING"}
  BY DEF SchedulesInv, SchedulesType, ClaimDue, Claimable
<1>2. PICK q : q = [sched[s] EXCEPT !.status = "PROCESSING"]
  OBVIOUS
<1>3. q \in ScheduleType /\ q.status = "PROCESSING" /\ q.target = sched[s].target
  BY <1>1, <1>2 DEF ScheduleType
<1>4. PICK r : r = [q EXCEPT !.leased = TRUE]
  OBVIOUS
<1>5. r \in ScheduleType /\ r.status = "PROCESSING" /\ r.target = sched[s].target
  BY <1>3, <1>4 DEF ScheduleType
<1>6. sched' = [sched EXCEPT ![s] = r]
  <2>1. sched' = [sched EXCEPT ![s].status = "PROCESSING", ![s].leased = TRUE]
    BY DEF ClaimDue
  <2>2. sched' = [[sched EXCEPT ![s] = q] EXCEPT ![s] = [q EXCEPT !.leased = TRUE]]
    BY <2>1, <1>2 DEF SchedulesInv, SchedulesType
  <2> QED
    BY <2>2, <1>4 DEF SchedulesInv, SchedulesType
<1>7. /\ worker' = [worker EXCEPT ![w] = [pc |-> "check", job |-> s, verdict |-> FALSE]]
      /\ UNCHANGED <<applied, crashes>>
  BY DEF ClaimDue
<1>8. /\ sched' \in [Schedules -> ScheduleType] /\ sched'[s] = r
      /\ \A u \in Schedules \ {s} : sched'[u] = sched[u]
      /\ worker' \in [Workers -> WorkerType]
      /\ worker'[w] = [pc |-> "check", job |-> s, verdict |-> FALSE]
      /\ \A u \in Workers \ {w} : worker'[u] = worker[u]
  BY <1>5, <1>6, <1>7 DEF SchedulesInv, SchedulesType, WorkerType
<1>9. SchedulesType'
  BY <1>7, <1>8 DEF SchedulesInv, SchedulesType, WorkerType
<1>10. WorkerMay(worker'[w])
  BY <1>5, <1>8 DEF WorkerMay
<1>11. r.target \in Versions
  BY <1>1, <1>5 DEF SchedulesInv, SchedulesAreKnown
<1> QED
  BY <1>5, <1>7, <1>8, <1>9, <1>10, <1>11, ScheduleStep
     DEF SchedulesInv, SchedulesAreKnown, ScheduledOnce

\* The providers answer, the activation is refused or turns out to be done, or the
\* process stops.
LEMMA WorkerKeeps ==
    ASSUME SchedulesInv, NEW w \in Workers,
           \/ \E healthy \in BOOLEAN : CheckProviders(w, healthy)
           \/ ActivateReplayed(w) \/ ActivateRefused(w) \/ WorkerCrash(w)
    PROVE  SchedulesInv'
<1>0. crashes \in Nat /\ UNCHANGED <<sched, applied>>
  BY DEF SchedulesInv, SchedulesType, CheckProviders, ActivateReplayed, ActivateRefused,
         WorkerCrash
<1>1. ASSUME NEW healthy \in BOOLEAN, CheckProviders(w, healthy) PROVE SchedulesInv'
  <2>1. PICK pc : pc = (IF healthy THEN "activate" ELSE "finish")
    OBVIOUS
  <2>2. PICK n : n = [worker[w] EXCEPT !.pc = pc]
    OBVIOUS
  <2>3. worker[w].pc = "check" /\ worker' = [worker EXCEPT ![w] = n] /\ crashes' = crashes
    BY <1>1, <2>1, <2>2 DEF CheckProviders
  <2>4. worker[w] \in WorkerType /\ worker[w].pc # "idle"
    BY <2>3, BusyWorker
  <2>5. /\ n \in WorkerType /\ n.job = worker[w].job /\ n.verdict = worker[w].verdict
        /\ n.pc = pc
    BY <2>1, <2>2, <2>4 DEF WorkerType
  <2>6. WorkerMay(n)
    BY <1>0, <2>4, <2>5 DEF WorkerMay, SchedulesInv, SchedulesAreKnown
  <2> QED
    BY <1>0, <2>3, <2>5, <2>6, WorkerMovesOn
<1>2. ASSUME NEW verdict \in BOOLEAN, worker[w].pc = "activate",
             verdict => applied[worker[w].job] > 0,
             worker' = [worker EXCEPT ![w] = Done(w, verdict)], crashes' = crashes
      PROVE  SchedulesInv'
  <2>1. PICK n : n = [pc |-> "finish", job |-> worker[w].job, verdict |-> verdict]
    OBVIOUS
  <2>2. n \in WorkerType /\ worker' = [worker EXCEPT ![w] = n]
    BY <1>2, <2>1, BusyWorker DEF WorkerType, Done
  <2>3. WorkerMay(n)
    BY <1>0, <1>2, <2>1, BusyWorker DEF WorkerMay
  <2> QED
    BY <1>0, <1>2, <2>2, <2>3, WorkerMovesOn
<1>3. CASE ActivateReplayed(w)
  BY <1>2, <1>3 DEF ActivateReplayed
<1>4. CASE ActivateRefused(w)
  BY <1>2, <1>4 DEF ActivateRefused
<1>5. CASE WorkerCrash(w)
  <2>1. worker' = [worker EXCEPT ![w] = Idle] /\ crashes' \in Nat
    BY <1>0, <1>5 DEF WorkerCrash
  <2> QED
    BY <1>0, <2>1, IdleMay, WorkerMovesOn
<1> QED
  BY <1>1, <1>3, <1>4, <1>5

\* finish_scheduled_activation: APPLIED when the worker knows it was.
LEMMA FinishKeeps ==
    ASSUME SchedulesInv, NEW w \in Workers, FinishScheduled(w)
    PROVE  SchedulesInv'
<1> DEFINE s == worker[w].job
<1>1. /\ s \in Schedules /\ sched[s] \in ScheduleType /\ sched[s].target \in Versions
      /\ worker' = [worker EXCEPT ![w] = Idle] /\ UNCHANGED <<applied, crashes>>
  BY BusyWorker DEF FinishScheduled
<1>2. CASE sched[s].status # "PROCESSING"
  <2>1. sched' = sched /\ crashes' \in Nat
    BY <1>1, <1>2 DEF FinishScheduled, SchedulesInv, SchedulesType
  <2> QED
    BY <1>1, <2>1, IdleMay, WorkerMovesOn
<1>3. CASE sched[s].status = "PROCESSING"
  <2>1. PICK to : to = FinalStatus(w)
    OBVIOUS
  <2>2. PICK q : q = [sched[s] EXCEPT !.status = to]
    OBVIOUS
  <2>3. PICK r : r = [q EXCEPT !.leased = FALSE]
    OBVIOUS
  <2>4. to \in {"APPLIED", "FAILED"} /\ (to = "APPLIED" => applied[s] = 1)
    BY <1>1, <2>1 DEF FinalStatus, FinishScheduled, SchedulesInv, SchedulesAreKnown
  <2>5. q \in ScheduleType /\ q.status = to /\ q.target = sched[s].target
    BY <1>1, <2>2, <2>4 DEF ScheduleType
  <2>6. r \in ScheduleType /\ r.status = to /\ r.target = sched[s].target
    BY <2>3, <2>5 DEF ScheduleType
  <2>7. sched' = [sched EXCEPT ![s] = r]
    <3>1. sched' = [sched EXCEPT ![s].status = to, ![s].leased = FALSE]
      BY <1>3, <2>1 DEF FinishScheduled
    <3>2. sched' = [[sched EXCEPT ![s] = q] EXCEPT ![s] = [q EXCEPT !.leased = FALSE]]
      BY <1>1, <2>2, <3>1 DEF SchedulesInv, SchedulesType
    <3> QED
      BY <2>3, <3>2 DEF SchedulesInv, SchedulesType
  <2> HIDE DEF s
  <2>8. /\ sched' \in [Schedules -> ScheduleType] /\ sched'[s] = r
        /\ \A u \in Schedules \ {s} : sched'[u] = sched[u]
    BY <1>1, <2>6, <2>7 DEF SchedulesInv, SchedulesType
  <2>9. /\ worker' \in [Workers -> WorkerType] /\ worker'[w] = Idle
        /\ \A u \in Workers \ {w} : worker'[u] = worker[u]
    BY <1>1, IdleMay DEF SchedulesInv, SchedulesType, WorkerType
  <2>10. SchedulesType'
    BY <1>1, <2>8, <2>9 DEF SchedulesInv, SchedulesType, WorkerType
  <2> QED
    BY <1>1, <2>4, <2>6, <2>8, <2>9, <2>10, IdleMay, ScheduleStep
       DEF SchedulesInv, SchedulesAreKnown, ScheduledOnce
<1> QED
  BY <1>2, <1>3

\* The transaction of activate under the schedule's id.
LEMMA ActivateScheduledKeeps ==
    ASSUME SchedulesInv, NEW w \in Workers, NEW seen \in BOOLEAN, ActivateScheduled(w, seen)
    PROVE  SchedulesInv'
<1> DEFINE s == worker[w].job
<1>1. /\ s \in Schedules /\ applied[s] = 0 /\ sched[s].status # "ABSENT"
      /\ sched' = sched /\ crashes' = crashes
      /\ applied' = [applied EXCEPT ![s] = @ + 1]
  BY BusyWorker DEF ActivateScheduled
<1>2. PICK n : n = [pc |-> "finish", job |-> s, verdict |-> seen]
  OBVIOUS
<1>3. worker' = [worker EXCEPT ![w] = n] /\ n \in WorkerType
  BY <1>1, <1>2 DEF ActivateScheduled, Done, WorkerType
<1> HIDE DEF s
<1>4. /\ applied' \in [Schedules -> Nat] /\ applied'[s] = 1
      /\ \A u \in Schedules \ {s} : applied'[u] = applied[u]
  BY <1>1 DEF SchedulesInv, SchedulesType
<1>5. /\ worker' \in [Workers -> WorkerType] /\ worker'[w] = n
      /\ \A u \in Workers \ {w} : worker'[u] = worker[u]
  BY <1>3 DEF SchedulesInv, SchedulesType, WorkerType
<1>6. WorkerMay(n)
  BY <1>1, <1>2, <1>4 DEF WorkerMay
<1>7. SchedulesType'
  BY <1>1, <1>4, <1>5 DEF SchedulesInv, SchedulesType, WorkerType
<1> QED
  BY <1>1, <1>4, <1>5, <1>6, <1>7, ScheduleStep
     DEF SchedulesInv, SchedulesAreKnown, ScheduledOnce

-----------------------------------------------------------------------------
(* The theorems. *)

\* A bundle that was just created.
LEMMA PolicyInit == ASSUME Init PROVE PolicyInv
<1>1. VersionsInv
  <2>1. Unwritten \in VersionType /\ Unwritten.state = "ABSENT" /\ ~Unwritten.published
    BY DEF Unwritten, VersionType
  <2>2. NoRun \in [target : Versions \cup {None}, revision : Nat]
    BY DEF NoRun
  <2>3. bundle \in BundleType /\ bundle.active = None /\ bundle.shadow = None
    BY DEF Init, BundleType
  <2>4. VersionsType
    BY <2>1, <2>2, <2>3 DEF Init, VersionsType
  <2> QED
    BY <2>1, <2>3, <2>4 DEF Init, VersionsInv, ActiveVersionAgrees, EnforcedWasVetted,
       PublishedIsValidated
<1>2. MandatoryWasApprovedTwice
  BY DEF Init, MandatoryWasApprovedTwice
<1>3. EditorsInv
  BY DEF Init, EditorsInv, EditorsAreCurrent, NoEdit, EditType
<1>4. SchedulesInv
  BY DEF Init, SchedulesInv, SchedulesType, SchedulesAreKnown, ScheduledOnce, Idle, NoSchedule,
     ScheduleType
<1> QED
  BY <1>1, <1>2, <1>3, <1>4 DEF PolicyInv

\* The variables of the schedules, and those of updates under way.
scheduling == <<sched, applied, worker, crashes>>

\* A step leaves the versions and what is in force in order, and changes the bundle only
\* as BundleMoves says.
LEMMA VersionsStep ==
    ASSUME PolicyInv, [Next]_vars
    PROVE  VersionsInv' /\ MandatoryWasApprovedTwice' /\ BundleMoves
<1> DEFINE Kept == VersionsInv' /\ MandatoryWasApprovedTwice' /\ BundleMoves
<1> USE DEF PolicyInv
<1>0. CASE UNCHANGED <<policy, tester>>
  <2>1. VersionsType'
    BY <1>0 DEF VersionsInv, VersionsType, policy
  <2> QED
    BY <1>0, <2>1, VersionsRest, ApprovedStays DEF policy, BundleMoves
<1>1. ASSUME NEW v \in Versions, Author(v) PROVE Kept
  <2>1. ASSUME NEW continues \in BOOLEAN, CreateDraft(v, continues) PROVE Kept
    BY <2>1, CreateDraftKeeps, ApprovedStays
  <2>2. CASE \/ ValidatePolicy(v) \/ PublishPolicyVersion(v)
             \/ \E f \in Fixtures :
                   CreateFixture(v, f) \/ UpdateFixture(v, f) \/ DeleteFixture(v, f)
    BY <2>2, AuthoringKeeps, ApprovedStays DEF BundleMoves
  <2>3. CASE \/ \E t \in Testers : StartTests(t, v)
             \/ \E a \in Admins : ApprovePolicyVersion(a, v)
    BY <2>3, TestsAndApprovalsKeep DEF BundleMoves
  <2>4. CASE EnableShadow(v)
    BY <2>4, EnableShadowKeeps, ApprovedStays
  <2>5. CASE ActivateNow(v)
    BY <2>5, ActivateKeeps DEF ActivateNow, beside
  <2>6. CASE \E s \in Schedules, ahead \in 0 .. MaxAhead :
                ScheduleActivation(s, v, bundle.version + ahead)
    BY <1>0, <2>6 DEF ScheduleActivation
  <2> QED
    BY <1>1, <2>1, <2>2, <2>3, <2>4, <2>5, <2>6 DEF Author
<1>2. CASE \E t \in Testers : AbandonTests(t) \/ \E passed \in BOOLEAN : RecordTestRun(t, passed)
  BY <1>2, TestsAndApprovalsKeep DEF BundleMoves
<1>3. ASSUME NEW e \in Editors, UpdateBundle(e) PROVE Kept
  BY <1>3, UpdateBundleKeeps
<1>4. ASSUME NEW e \in Editors, NEW ahead \in 0 .. MaxAhead, NEW m \in BOOLEAN,
             LoadForUpdate(e, bundle.version + ahead, m)
      PROVE  Kept
  BY <1>0, <1>4 DEF LoadForUpdate
<1>5. ASSUME NEW target \in {"DISABLED", "RETIRED"}, TransitionBundle(target) PROVE Kept
  BY <1>5, TransitionKeeps
<1>6. CASE DisableShadow
  BY <1>6, DisableShadowKeeps, ApprovedStays
<1>7. CASE \E s \in Schedules : FallsDue(s) \/ LeaseEnds(s)
  BY <1>0, <1>7 DEF FallsDue, LeaseEnds
<1>8. ASSUME NEW w \in Workers,
             WorkerStep(w) \/ WorkerCrash(w) \/ \E s \in Schedules : ClaimDue(w, s)
      PROVE  Kept
  <2>1. ASSUME NEW seen \in BOOLEAN, ActivateScheduled(w, seen) PROVE Kept
    <3>1. sched[worker[w].job].target \in Versions
      BY <2>1, BusyWorker DEF ActivateScheduled
    <3> QED
      BY <2>1, <3>1, ActivateKeeps DEF ActivateScheduled
  <2>2. CASE ~ \E seen \in BOOLEAN : ActivateScheduled(w, seen)
    BY <1>0, <1>8, <2>2 DEF WorkerStep, CheckProviders, ActivateReplayed, ActivateRefused,
       FinishScheduled, WorkerCrash, ClaimDue
  <2> QED
    BY <2>1, <2>2
<1>9. CASE UNCHANGED vars
  BY <1>0, <1>9 DEF vars, policy
<1> QED
  BY <1>1, <1>2, <1>3, <1>4, <1>5, <1>6, <1>7, <1>8, <1>9 DEF Next

\* What is remembered of updates that foresaw their version.
LEMMA ForesawStep ==
    ASSUME foresaw \in BOOLEAN, [Next]_vars
    PROVE  foresaw' \in BOOLEAN
<1>1. ASSUME NEW v \in Versions, Author(v) PROVE foresaw' \in BOOLEAN
  BY <1>1 DEF Author, CreateDraft, ValidatePolicy, CreateFixture, UpdateFixture, DeleteFixture,
     WithFixtures, StartTests, PublishPolicyVersion, ApprovePolicyVersion, EnableShadow,
     ActivateNow, Activate, ScheduleActivation, others, policy
<1>2. ASSUME NEW t \in Testers, AbandonTests(t) \/ \E passed \in BOOLEAN : RecordTestRun(t, passed)
      PROVE  foresaw' = foresaw
  BY <1>2 DEF AbandonTests, RecordTestRun, policy
<1>3. ASSUME NEW e \in Editors, UpdateBundle(e) PROVE foresaw' \in BOOLEAN
  BY <1>3 DEF UpdateBundle
<1>4. ASSUME NEW e \in Editors, NEW ahead \in 0 .. MaxAhead, NEW m \in BOOLEAN,
             LoadForUpdate(e, bundle.version + ahead, m)
      PROVE  foresaw' = foresaw
  BY <1>4 DEF LoadForUpdate, policy
<1>5. ASSUME \/ \E target \in {"DISABLED", "RETIRED"} : TransitionBundle(target)
             \/ DisableShadow
             \/ \E s \in Schedules : FallsDue(s) \/ LeaseEnds(s)
      PROVE  foresaw' = foresaw
  BY <1>5 DEF TransitionBundle, DisableShadow, FallsDue, LeaseEnds, others, policy
<1>6. ASSUME NEW w \in Workers,
             WorkerStep(w) \/ WorkerCrash(w) \/ \E s \in Schedules : ClaimDue(w, s)
      PROVE  foresaw' \in BOOLEAN
  BY <1>6 DEF WorkerStep, WorkerCrash, ClaimDue, CheckProviders, ActivateScheduled, Activate,
     ActivateReplayed, ActivateRefused, FinishScheduled, policy
<1>7. CASE UNCHANGED vars
  BY <1>7 DEF vars
<1> QED
  BY <1>1, <1>2, <1>3, <1>4, <1>5, <1>6, <1>7 DEF Next

\* Updates under way see every change of the bundle.
LEMMA EditorsStep ==
    ASSUME PolicyInv, [Next]_vars
    PROVE  EditorsInv'
<1>1. bundle \in BundleType /\ EditorsInv
      /\ editor \in [Editors -> EditType]
  BY DEF PolicyInv, VersionsInv, VersionsType, EditorsInv
<1>a. foresaw' \in BOOLEAN
  BY <1>1, ForesawStep DEF EditorsInv
<1>2. CASE editor' = editor
  BY <1>1, <1>2, <1>a, VersionsStep, EditorsKeep
<1>3. ASSUME NEW e \in Editors, UpdateBundle(e) PROVE EditorsInv'
  <2>1. editor' = [editor EXCEPT ![e] = NoEdit]
    BY <1>3 DEF UpdateBundle
  <2>2. NoEdit \in EditType
    BY DEF NoEdit, EditType
  <2>3. /\ editor' \in [Editors -> EditType]
        /\ \A d \in Editors : editor'[d] = editor[d] \/ editor'[d] = NoEdit
    BY <1>1, <2>1, <2>2
  <2> QED
    BY <1>1, <1>a, <2>3, VersionsStep, EditorsKeep
<1>4. ASSUME NEW e \in Editors, NEW ahead \in 0 .. MaxAhead, NEW m \in BOOLEAN,
             LoadForUpdate(e, bundle.version + ahead, m)
      PROVE  EditorsInv'
  BY <1>1, <1>4, LoadForUpdateKeeps
<1>5. ASSUME NEW v \in Versions, Author(v) PROVE editor' = editor
  BY <1>5 DEF Author, CreateDraft, ValidatePolicy, CreateFixture, UpdateFixture, DeleteFixture,
     WithFixtures, StartTests, PublishPolicyVersion, ApprovePolicyVersion, EnableShadow,
     ActivateNow, ScheduleActivation, others, beside
<1>6. ASSUME NEW t \in Testers, AbandonTests(t) \/ \E passed \in BOOLEAN : RecordTestRun(t, passed)
      PROVE  editor' = editor
  BY <1>6 DEF AbandonTests, RecordTestRun
<1>7. ASSUME \/ \E target \in {"DISABLED", "RETIRED"} : TransitionBundle(target)
             \/ DisableShadow
             \/ \E s \in Schedules : FallsDue(s) \/ LeaseEnds(s)
      PROVE  editor' = editor
  BY <1>7 DEF TransitionBundle, DisableShadow, FallsDue, LeaseEnds, others
<1>8. ASSUME NEW w \in Workers,
             WorkerStep(w) \/ WorkerCrash(w) \/ \E s \in Schedules : ClaimDue(w, s)
      PROVE  editor' = editor
  BY <1>8 DEF WorkerStep, WorkerCrash, ClaimDue, CheckProviders, ActivateScheduled,
     ActivateReplayed, ActivateRefused, FinishScheduled
<1>9. CASE UNCHANGED vars
  BY <1>2, <1>9 DEF vars
<1> QED
  BY <1>2, <1>3, <1>4, <1>5, <1>6, <1>7, <1>8, <1>9 DEF Next

\* Schedules and their workers.
LEMMA SchedulesStep ==
    ASSUME PolicyInv, [Next]_vars
    PROVE  SchedulesInv'
<1> USE DEF PolicyInv
<1>0. CASE UNCHANGED scheduling
  BY <1>0, SchedulesRest DEF scheduling
<1>1. ASSUME NEW v \in Versions, Author(v) PROVE SchedulesInv'
  <2>1. CASE \E s \in Schedules, ahead \in 0 .. MaxAhead :
                ScheduleActivation(s, v, bundle.version + ahead)
    BY <2>1, SchedulingKeeps
  <2>2. CASE ~ \E s \in Schedules, ahead \in 0 .. MaxAhead :
                ScheduleActivation(s, v, bundle.version + ahead)
    BY <1>0, <1>1, <2>2 DEF Author, CreateDraft, ValidatePolicy, CreateFixture, UpdateFixture,
       DeleteFixture, WithFixtures, StartTests, PublishPolicyVersion, ApprovePolicyVersion,
       EnableShadow, ActivateNow, others, beside, scheduling
  <2> QED
    BY <2>1, <2>2
<1>2. ASSUME NEW t \in Testers, AbandonTests(t) \/ \E passed \in BOOLEAN : RecordTestRun(t, passed)
      PROVE  SchedulesInv'
  BY <1>0, <1>2 DEF AbandonTests, RecordTestRun, scheduling
<1>3. ASSUME NEW e \in Editors,
             \/ UpdateBundle(e)
             \/ \E ahead \in 0 .. MaxAhead, m \in BOOLEAN :
                   LoadForUpdate(e, bundle.version + ahead, m)
      PROVE  SchedulesInv'
  BY <1>0, <1>3 DEF UpdateBundle, LoadForUpdate, scheduling
<1>4. ASSUME \/ \E target \in {"DISABLED", "RETIRED"} : TransitionBundle(target)
             \/ DisableShadow
      PROVE  SchedulesInv'
  BY <1>0, <1>4 DEF TransitionBundle, DisableShadow, others, scheduling
<1>5. CASE \E s \in Schedules : FallsDue(s) \/ LeaseEnds(s)
  BY <1>5, SchedulingKeeps
<1>6. ASSUME NEW w \in Workers,
             WorkerStep(w) \/ WorkerCrash(w) \/ \E s \in Schedules : ClaimDue(w, s)
      PROVE  SchedulesInv'
  BY <1>6, WorkerKeeps, ActivateScheduledKeeps, FinishKeeps, ClaimDueKeeps DEF WorkerStep
<1>7. CASE UNCHANGED vars
  BY <1>0, <1>7 DEF vars, scheduling
<1> QED
  BY <1>1, <1>2, <1>3, <1>4, <1>5, <1>6, <1>7 DEF Next

\* The inductive invariant holds for any versions, calls under way and workers, and
\* without the bounds on versions and revisions mattering.
THEOREM PolicyInvariant == Spec => []PolicyInv
<1>1. PolicyInv /\ [Next]_vars => PolicyInv'
  BY VersionsStep, EditorsStep, SchedulesStep DEF PolicyInv
<1> QED
  BY <1>1, PolicyInit, PTL DEF Spec

\* Every variable of the policy tables and workers keeps its type.
THEOREM PolicyTypes == Spec => []TypeOK
<1>1. PolicyInv => TypeOK
  BY DEF PolicyInv, VersionsInv, VersionsType, EditorsInv, SchedulesInv, SchedulesType, TypeOK
<1> QED
  BY <1>1, PolicyInvariant, PTL

\* activate, set_shadow and rollback keep the bundle's active version and the states of
\* its versions in agreement.
THEOREM OneActiveVersion == Spec => []ActiveVersionAgrees
<1>1. PolicyInv => ActiveVersionAgrees
  BY DEF PolicyInv, VersionsInv
<1> QED
  BY <1>1, PolicyInvariant, PTL

\* Nothing comes into force, or into shadow, that was not published, and a published
\* version's fixtures stay at the revision they had when the passing run it was published
\* on was recorded.
THEOREM NothingUnvetted == Spec => []EnforcedWasVetted
<1>1. PolicyInv => EnforcedWasVetted
  BY DEF PolicyInv, VersionsInv
<1> QED
  BY <1>1, PolicyInvariant, PTL

\* A mandatory platform version in force was approved by two administrators, although
\* update_bundle checks the flag it writes before its transaction; only an update that
\* named a version of the bundle before it was reached may have set the flag since.
THEOREM TwoApprovals == Spec => []MandatoryWasApprovedTwice
<1>1. PolicyInv => MandatoryWasApprovedTwice
  BY DEF PolicyInv
<1> QED
  BY <1>1, PolicyInvariant, PTL

\* A scheduled activation is carried out at most once, whatever ended leases, crashes
\* and lost answers its workers meet, and is APPLIED only if it was.
THEOREM AppliedOnce == Spec => []ScheduledOnce
<1>1. PolicyInv => ScheduledOnce
  BY DEF PolicyInv, SchedulesInv
<1> QED
  BY <1>1, PolicyInvariant, PTL

\* The mandatory flag changes only while nothing is in force or in shadow, or by an update
\* that named a later version than the one its check had read.
THEOREM FlagFrozen == Spec => FlagIsFrozen
<1>1. PolicyInv /\ [Next]_vars =>
         [bundle'.mandatory # bundle.mandatory =>
             \/ bundle.active = None /\ bundle.shadow = None
             \/ \E e \in Editors : UpdateBundle(e) /\ Foresees(e)]_vars
  BY VersionsStep DEF BundleMoves
<1> QED
  BY <1>1, PolicyInvariant, PTL DEF Spec, FlagIsFrozen

-----------------------------------------------------------------------------
(* Refinement of PolicyPromise. *)

\* The newest verdict is about a revision the version has had, of which one that is
\* not written has none; an activation that is not booked names no version.
RunsAndBookings ==
    /\ \A v \in Versions : last[v] # None => last[v].stamp <= ver[v].revision
    /\ \A v \in Versions : ver[v].state = "ABSENT" => ver[v].revision = 0
    /\ \A s \in Schedules : sched[s].status = "ABSENT" => sched[s].target = None

\* A version's row before and after a step that the promise does not see.
Restates(r, q) ==
    /\ r.published = q.published
    /\ r.continues = q.continues
    /\ r.fixtures = q.fixtures
    /\ r.revision = q.revision
    /\ r.state = "ABSENT" => q.state = "ABSENT"

VersionsStay ==
    /\ last' = last
    /\ \A v \in Versions : Restates(ver'[v], ver[v])

BookingsStay ==
    \A s \in Schedules :
        /\ sched'[s].target = sched[s].target
        /\ sched'[s].status = "ABSENT" => sched[s].status = "ABSENT"

\* Steps that change states of versions, but nothing they say.
LEMMA SaysTheSame ==
    ASSUME VersionsStay
    PROVE  UNCHANGED <<contentOf, publishedOf, passingOf>>
<1>1. contentOf' = contentOf
  BY DEF VersionsStay, Restates, contentOf
<1>2. publishedOf' = publishedOf
  BY DEF VersionsStay, Restates, publishedOf
<1>3. passingOf' = passingOf
  BY DEF VersionsStay, Restates, passingOf, TestsPassed
<1> QED
  BY <1>1, <1>2, <1>3

LEMMA BooksTheSame ==
    ASSUME BookingsStay
    PROVE  bookedOf' = bookedOf
BY DEF BookingsStay, bookedOf

LEMMA NothingNewKeeps ==
    ASSUME RunsAndBookings, VersionsStay, BookingsStay
    PROVE  RunsAndBookings'
BY DEF RunsAndBookings, VersionsStay, BookingsStay, Restates

\* A new state, other than ABSENT, is all that is new.
LEMMA NewState ==
    ASSUME NEW u \in Versions, ver[u] \in VersionType, NEW to, to # "ABSENT",
           ver'[u] = [ver[u] EXCEPT !.state = to]
    PROVE  Restates(ver'[u], ver[u])
<1>1. PICK r : r = [ver[u] EXCEPT !.state = to]
  OBVIOUS
<1>2. /\ r.published = ver[u].published /\ r.continues = ver[u].continues
      /\ r.fixtures = ver[u].fixtures /\ r.revision = ver[u].revision /\ r.state = to
  BY <1>1 DEF VersionType
<1> QED
  BY <1>1, <1>2 DEF Restates

LEMMA RestatesItself == \A q : Restates(q, q)
BY DEF Restates

\* mark_validated, set_shadow and activate write states of versions only.
LEMMA StatesOnly ==
    ASSUME PolicyInv,
           \/ \E v \in Versions : ValidatePolicy(v) \/ EnableShadow(v)
           \/ DisableShadow
           \/ last' = last /\ \E v \in Versions : Activate(v)
    PROVE  VersionsStay
<1>0. ver \in [Versions -> VersionType]
  BY DEF PolicyInv, VersionsInv, VersionsType
<1>1. ASSUME NEW v \in Versions, ValidatePolicy(v) PROVE VersionsStay
  <2>1. ver' = [ver EXCEPT ![v].state = "VALIDATED"] /\ last' = last
    BY <1>1 DEF ValidatePolicy, others
  <2>2. ASSUME NEW u \in Versions PROVE Restates(ver'[u], ver[u])
    <3>1. CASE u = v
      <4>1. ver'[u] = [ver[u] EXCEPT !.state = "VALIDATED"]
        BY <1>0, <2>1, <3>1
      <4> QED
        BY <1>0, <4>1, NewState
    <3>2. CASE u # v
      <4>1. ver'[u] = ver[u]
        BY <1>0, <2>1, <3>2
      <4> QED
        BY <4>1, RestatesItself
    <3> QED
      BY <3>1, <3>2
  <2> QED
    BY <2>1, <2>2 DEF VersionsStay
<1>2. ASSUME NEW v \in Versions, EnableShadow(v) PROVE VersionsStay
  <2>1. PICK to : to = (IF ver[v].state = "VALIDATED" THEN "SHADOW" ELSE ver[v].state)
    OBVIOUS
  <2>2. ver' = [ver EXCEPT ![v] = [ver[v] EXCEPT !.state = to]] /\ last' = last
    BY <1>2, <2>1 DEF EnableShadow, others
  <2>3. to # "ABSENT"
    BY <1>2, <2>1 DEF EnableShadow, PolicyInv, VersionsInv, PublishedIsValidated
  <2>4. ASSUME NEW u \in Versions PROVE Restates(ver'[u], ver[u])
    <3>1. CASE u = v
      <4>1. ver'[u] = [ver[u] EXCEPT !.state = to]
        BY <1>0, <2>2, <3>1
      <4> QED
        BY <1>0, <2>3, <4>1, NewState
    <3>2. CASE u # v
      <4>1. ver'[u] = ver[u]
        BY <1>0, <2>2, <3>2
      <4> QED
        BY <4>1, RestatesItself
    <3> QED
      BY <3>1, <3>2
  <2> QED
    BY <2>2, <2>4 DEF VersionsStay
<1>3. CASE DisableShadow
  <2>1. last' = last
    BY <1>3 DEF DisableShadow, others
  <2>2. ASSUME NEW u \in Versions PROVE Restates(ver'[u], ver[u])
    <3>1. ver'[u] = ver[u] \/ ver'[u] = [ver[u] EXCEPT !.state = "VALIDATED"]
      BY <1>3 DEF DisableShadow
    <3>2. ver[u] \in VersionType
      BY <1>0
    <3>3. CASE ver'[u] = ver[u]
      BY <3>3, RestatesItself
    <3>4. CASE ver'[u] = [ver[u] EXCEPT !.state = "VALIDATED"]
      BY <3>2, <3>4, NewState
    <3> QED
      BY <3>1, <3>3, <3>4
  <2> QED
    BY <2>1, <2>2 DEF VersionsStay
<1>4. ASSUME NEW v \in Versions, Activate(v), last' = last PROVE VersionsStay
  <2>2. ASSUME NEW u \in Versions PROVE Restates(ver'[u], ver[u])
    <3>1. \/ ver'[u] = ver[u]
          \/ ver'[u] = [ver[u] EXCEPT !.state = "ACTIVE"]
          \/ ver'[u] = [ver[u] EXCEPT !.state = "RETIRED"]
      BY <1>4 DEF Activate, Activated
    <3>2. ver[u] \in VersionType
      BY <1>0
    <3>3. CASE ver'[u] = ver[u]
      BY <3>3, RestatesItself
    <3>4. CASE ver'[u] = [ver[u] EXCEPT !.state = "ACTIVE"]
      BY <3>2, <3>4, NewState
    <3>5. CASE ver'[u] = [ver[u] EXCEPT !.state = "RETIRED"]
      BY <3>2, <3>5, NewState
    <3> QED
      BY <3>1, <3>3, <3>4, <3>5
  <2> QED
    BY <1>4, <2>2 DEF VersionsStay
<1> QED
  BY <1>1, <1>2, <1>3, <1>4

\* A version's content is written; it has to be tested again.
LEMMA WritingWrites ==
    ASSUME PolicyInv, RunsAndBookings, NEW v \in Versions, NEW r \in VersionType,
           ver' = [ver EXCEPT ![v] = r], UNCHANGED <<last, sched>>,
           ~ver[v].published, ~r.published, r.state # "ABSENT",
           r.revision \in 0 .. MaxRevision, r.revision >= ver[v].revision,
           r.fixtures = {} \/ r.revision > ver[v].revision
    PROVE  /\ RunsAndBookings'
           /\ publishedOf' = publishedOf
           /\ v \notin publishedOf
           /\ \E c \in Content :
                 /\ contentOf' = [contentOf EXCEPT ![v] = c]
                 /\ passingOf' = IF c \in {d \in Content : d.fixtures = {}}
                                 THEN passingOf \cup {v} ELSE passingOf \ {v}
<1>1. ver'[v] = r /\ \A u \in Versions \ {v} : ver'[u] = ver[u]
  BY DEF PolicyInv, VersionsInv, VersionsType
<1>2. ver[v] \in VersionType /\ last[v] \in RunType \cup {None}
  BY DEF PolicyInv, VersionsInv, VersionsType
<1>3. RunsAndBookings'
  <2>1. last'[v] # None => last'[v].stamp <= ver'[v].revision
    <3>1. CASE last[v] # None
      <4>1. last[v].stamp \in Nat /\ ver[v].revision \in Nat /\ r.revision \in Nat
        BY <1>2, <3>1 DEF RunType, VersionType
      <4>2. last[v].stamp <= ver[v].revision
        BY <3>1 DEF RunsAndBookings
      <4> QED
        BY <1>1, <4>1, <4>2
    <3> QED
      BY <3>1
  <2> QED
    BY <1>1, <2>1 DEF RunsAndBookings
<1>4. publishedOf' = publishedOf /\ v \notin publishedOf
  BY <1>1 DEF publishedOf
<1>5. PICK c : c = [continues |-> r.continues, fixtures |-> r.fixtures, revision |-> r.revision]
  OBVIOUS
<1>6. c \in Content /\ c.fixtures = r.fixtures
  BY <1>5 DEF Content, VersionType
<1>7. contentOf' = [contentOf EXCEPT ![v] = c]
  BY <1>1, <1>5 DEF contentOf
<1>8. TestsPassed(v)' <=> r.fixtures = {}
  <2>1. CASE r.fixtures # {} /\ last[v] # None
    <3>1. last[v].stamp \in Nat /\ ver[v].revision \in Nat /\ r.revision \in Nat
      BY <1>2, <2>1 DEF RunType, VersionType
    <3>2. last[v].stamp <= ver[v].revision
      BY <2>1 DEF RunsAndBookings
    <3>3. last[v].stamp # r.revision
      BY <2>1, <3>1, <3>2
    <3> QED
      BY <1>1, <2>1, <3>3 DEF TestsPassed
  <2> QED
    BY <1>1, <2>1 DEF TestsPassed
<1>9. \A u \in Versions \ {v} : TestsPassed(u)' <=> TestsPassed(u)
  BY <1>1 DEF TestsPassed
<1>10. passingOf' = IF r.fixtures = {} THEN passingOf \cup {v} ELSE passingOf \ {v}
  BY <1>8, <1>9 DEF passingOf
<1> QED
  BY <1>3, <1>4, <1>6, <1>7, <1>10

\* A step of the promise, or none.
PromiseMoves == [Promise!PromiseNext]_(Promise!promiseVars)

\* What the promise does not see.
LEMMA Unseen ==
    ASSUME VersionsStay, BookingsStay, UNCHANGED <<approvals, carriedOf>>,
           bundle'.active = bundle.active, bundle'.shadow = bundle.shadow,
           bundle'.mandatory = bundle.mandatory
    PROVE  PromiseMoves
BY SaysTheSame, BooksTheSame DEF PromiseMoves, Promise!promiseVars

\* Steps of handlers and workers that have not written yet, or write no more.
LEMMA UnwrittenStep ==
    ASSUME RunsAndBookings, UNCHANGED <<policy, applied>>, BookingsStay
    PROVE  PromiseMoves /\ RunsAndBookings'
<1>1. VersionsStay
  BY RestatesItself DEF VersionsStay, policy
<1>2. carriedOf' = carriedOf
  BY DEF carriedOf
<1> QED
  BY <1>1, <1>2, Unseen, NothingNewKeeps DEF policy

\* A draft's row, when something to test it against is new, of a new revision.
Writes(v, r) ==
    /\ ver' = [ver EXCEPT ![v] = r]
    /\ ~ver[v].published /\ ~r.published /\ r.state # "ABSENT"
    /\ r.revision \in 0 .. MaxRevision /\ r.revision >= ver[v].revision
    /\ r.fixtures = {} \/ r.revision > ver[v].revision

\* A draft or its fixtures are written.
LEMMA WriteStep ==
    ASSUME PolicyInv, RunsAndBookings, NEW v \in Versions,
           \/ \E continues \in BOOLEAN : CreateDraft(v, continues)
           \/ \E f \in Fixtures : CreateFixture(v, f) \/ UpdateFixture(v, f) \/ DeleteFixture(v, f)
    PROVE  PromiseMoves /\ RunsAndBookings'
<1>0. ver[v] \in VersionType /\ bundle \in BundleType
  BY DEF PolicyInv, VersionsInv, VersionsType
<1>1. PICK r \in VersionType : Writes(v, r)
  <2>1. CASE \E continues \in BOOLEAN : CreateDraft(v, continues)
    <3>1. PICK continues \in BOOLEAN : CreateDraft(v, continues)
      BY <2>1
    <3>2. PICK r : r = [state |-> "DRAFT", published |-> FALSE, continues |-> continues,
                        fixtures |-> {}, revision |-> 0]
      OBVIOUS
    <3>3. /\ r \in VersionType /\ r.state = "DRAFT" /\ ~r.published /\ r.fixtures = {}
          /\ r.revision = 0 /\ ver' = [ver EXCEPT ![v] = r]
      BY <3>1, <3>2 DEF VersionType, CreateDraft
    <3>4. ver[v].revision = 0 /\ ~ver[v].published
      BY <3>1 DEF CreateDraft, RunsAndBookings, PolicyInv, VersionsInv, PublishedIsValidated
    <3>5. Writes(v, r)
      BY <3>3, <3>4 DEF Writes
    <3> QED
      BY <3>3, <3>5
  <2>2. CASE \E fixtures \in SUBSET Fixtures : WithFixtures(v, fixtures)
    <3>1. PICK fixtures \in SUBSET Fixtures : WithFixtures(v, fixtures)
      BY <2>2
    <3>2. PICK r : r = [state |-> ver[v].state, published |-> ver[v].published,
                        continues |-> ver[v].continues, fixtures |-> fixtures,
                        revision |-> ver[v].revision + 1]
      OBVIOUS
    <3>3. /\ r \in VersionType /\ r.state = ver[v].state /\ r.published = ver[v].published
          /\ r.revision = ver[v].revision + 1
      BY <1>0, <3>2 DEF VersionType
    <3>4. /\ ver' = [ver EXCEPT ![v] = r] /\ ~ver[v].published
          /\ ver[v].state \in {"DRAFT", "VALIDATED"} /\ ver[v].revision < MaxRevision
      BY <3>1, <3>2 DEF WithFixtures, FixturesMutable
    <3>5. ver[v].revision \in Nat
      BY <1>0 DEF VersionType
    <3>6. Writes(v, r)
      BY <3>3, <3>4, <3>5 DEF Writes
    <3> QED
      BY <3>3, <3>6
  <2>3. ASSUME NEW f \in Fixtures, CreateFixture(v, f) \/ UpdateFixture(v, f) \/ DeleteFixture(v, f)
        PROVE  \E fixtures \in SUBSET Fixtures : WithFixtures(v, fixtures)
    <3>1. ver[v].fixtures \in SUBSET Fixtures
      BY <1>0 DEF VersionType
    <3> QED
      BY <2>3, <3>1 DEF CreateFixture, UpdateFixture, DeleteFixture
  <2> QED
    BY <2>1, <2>2, <2>3
<1>2. UNCHANGED others
  BY DEF CreateDraft, CreateFixture, UpdateFixture, DeleteFixture, WithFixtures
<1>3. /\ bundle'.active = bundle.active /\ bundle'.shadow = bundle.shadow
      /\ bundle'.mandatory = bundle.mandatory
  <2>1. bundle' = bundle \/ bundle' = [bundle EXCEPT !.version = @ + 1]
    BY DEF CreateDraft, CreateFixture, UpdateFixture, DeleteFixture, WithFixtures
  <2> QED
    BY <1>0, <2>1 DEF BundleType
<1>4. UNCHANGED <<last, sched>>
  BY <1>2 DEF others
<1>5. /\ RunsAndBookings' /\ publishedOf' = publishedOf /\ v \notin publishedOf
      /\ \E c \in Content :
            /\ contentOf' = [contentOf EXCEPT ![v] = c]
            /\ passingOf' = IF c \in {d \in Content : d.fixtures = {}}
                            THEN passingOf \cup {v} ELSE passingOf \ {v}
  BY <1>1, <1>4, WritingWrites DEF Writes
<1>6. UNCHANGED <<approvals, bookedOf, carriedOf>>
  BY <1>2 DEF others, bookedOf, carriedOf
<1>7. \E c \in Content : Promise!Write(v, c)
  BY <1>3, <1>5, <1>6 DEF Promise!Write
<1> QED
  BY <1>5, <1>7 DEF PromiseMoves, Promise!PromiseNext

\* A test run is recorded: a verdict, if there are fixtures.
LEMMA RecordStep ==
    ASSUME PolicyInv, RunsAndBookings, NEW t \in Testers, NEW passed \in BOOLEAN,
           RecordTestRun(t, passed)
    PROVE  PromiseMoves /\ RunsAndBookings'
<1>0. /\ ver \in [Versions -> VersionType] /\ last \in [Versions -> RunType \cup {None}]
      /\ UNCHANGED <<bundle, ver, approvals, sched, applied>>
  BY DEF PolicyInv, VersionsInv, VersionsType, RecordTestRun
<1>1. PICK v, run : v = tester[t].target /\ run = TestRun(t, passed)
  OBVIOUS
<1>2. last' = [last EXCEPT ![v] = run]
  BY <1>1 DEF RecordTestRun
<1>3. BookingsStay /\ UNCHANGED <<contentOf, publishedOf, bookedOf, carriedOf>>
  BY <1>0 DEF BookingsStay, contentOf, publishedOf, bookedOf, carriedOf
<1>4. CASE v \notin Versions
  <2>1. last' = last
    BY <1>0, <1>2, <1>4
  <2> QED
    BY <1>0, <1>3, <2>1, RestatesItself, Unseen, NothingNewKeeps DEF VersionsStay
<1>5. CASE v \in Versions
  <2>1. run.stamp = ver[v].revision /\ ver[v].revision \in Nat
    BY <1>0, <1>1, <1>5 DEF TestRun, VersionType
  <2>2. last'[v] = run /\ \A u \in Versions \ {v} : last'[u] = last[u]
    BY <1>0, <1>2, <1>5
  <2>3. RunsAndBookings'
    BY <1>0, <2>1, <2>2 DEF RunsAndBookings
  <2>4. \A u \in Versions \ {v} : TestsPassed(u)' <=> TestsPassed(u)
    BY <1>0, <2>2 DEF TestsPassed
  <2>5. CASE ver[v].fixtures = {}
    <3>1. TestsPassed(v)' <=> TestsPassed(v)
      BY <1>0, <2>5 DEF TestsPassed
    <3>2. passingOf' = passingOf
      BY <2>4, <3>1 DEF passingOf
    <3> QED
      BY <1>0, <1>3, <2>3, <3>2 DEF PromiseMoves, Promise!promiseVars
  <2>6. CASE ver[v].fixtures # {}
    <3>1. passingOf' \in {passingOf \cup {v}, passingOf \ {v}}
      BY <1>5, <2>4 DEF passingOf
    <3>2. contentOf[v].fixtures # {}
      BY <1>5, <2>6 DEF contentOf
    <3>3. Promise!Judge(v)
      BY <1>0, <1>3, <3>1, <3>2 DEF Promise!Judge
    <3> QED
      BY <1>5, <2>3, <3>3 DEF PromiseMoves, Promise!PromiseNext
  <2> QED
    BY <2>5, <2>6
<1> QED
  BY <1>4, <1>5

\* A version is published, for the first time or again.
LEMMA PublishStep ==
    ASSUME PolicyInv, RunsAndBookings, NEW v \in Versions, PublishPolicyVersion(v)
    PROVE  PromiseMoves /\ RunsAndBookings'
<1>0. /\ ver \in [Versions -> VersionType] /\ TestsPassed(v) /\ ver[v].state = "VALIDATED"
      /\ ver' = [ver EXCEPT ![v].published = TRUE]
      /\ UNCHANGED <<bundle, last, approvals, sched, applied>>
  BY DEF PolicyInv, VersionsInv, VersionsType, PublishPolicyVersion
<1>1. PICK r : r = [ver[v] EXCEPT !.published = TRUE]
  OBVIOUS
<1>2. /\ r.published /\ r.fixtures = ver[v].fixtures /\ r.continues = ver[v].continues
      /\ r.revision = ver[v].revision /\ r.state = ver[v].state
  BY <1>0, <1>1 DEF VersionType
<1>3. ver'[v] = r /\ \A u \in Versions \ {v} : ver'[u] = ver[u]
  BY <1>0, <1>1
<1>4. RunsAndBookings'
  BY <1>0, <1>2, <1>3 DEF RunsAndBookings
<1>5. contentOf' = contentOf
  BY <1>2, <1>3 DEF contentOf
<1>6. passingOf' = passingOf /\ v \in passingOf
  BY <1>0, <1>2, <1>3 DEF passingOf, TestsPassed
<1>7. publishedOf' = publishedOf \cup {v}
  BY <1>2, <1>3 DEF publishedOf
<1>8. UNCHANGED <<bookedOf, carriedOf>>
  BY <1>0 DEF bookedOf, carriedOf
<1>9. Promise!Publish(v)
  BY <1>0, <1>5, <1>6, <1>7, <1>8 DEF Promise!Publish
<1> QED
  BY <1>4, <1>9 DEF PromiseMoves, Promise!PromiseNext

LEMMA ApproveStep ==
    ASSUME RunsAndBookings, NEW a \in Admins, NEW v \in Versions, ApprovePolicyVersion(a, v)
    PROVE  PromiseMoves /\ RunsAndBookings'
<1>1. UNCHANGED <<bundle, ver, last, sched, applied>> /\ Platform /\ bundle.mandatory
  BY DEF ApprovePolicyVersion, GlobalMandatory
<1>2. VersionsStay /\ BookingsStay
  BY <1>1, RestatesItself DEF VersionsStay, BookingsStay
<1>3. v \in publishedOf
  BY DEF ApprovePolicyVersion, publishedOf
<1>4. UNCHANGED <<contentOf, publishedOf, passingOf, bookedOf, carriedOf>>
  BY <1>1, <1>2, SaysTheSame, BooksTheSame DEF carriedOf
<1>5. Promise!Approve(a, v)
  BY <1>1, <1>3, <1>4 DEF Promise!Approve, ApprovePolicyVersion
<1> QED
  BY <1>2, <1>5, NothingNewKeeps DEF PromiseMoves, Promise!PromiseNext

\* mark_validated, and set_shadow with and without a version.
LEMMA StateStep ==
    ASSUME PolicyInv, RunsAndBookings,
           \/ \E v \in Versions : ValidatePolicy(v) \/ EnableShadow(v)
           \/ DisableShadow
    PROVE  PromiseMoves /\ RunsAndBookings'
<1>0. /\ VersionsStay /\ bundle \in BundleType /\ UNCHANGED others
      /\ \A v \in Versions : bundle.shadow = v => ver[v].published
  BY StatesOnly DEF PolicyInv, VersionsInv, VersionsType, EnforcedWasVetted, ValidatePolicy,
     EnableShadow, DisableShadow
<1>1. /\ BookingsStay /\ UNCHANGED <<approvals, bookedOf, carriedOf>>
      /\ UNCHANGED <<contentOf, publishedOf, passingOf>>
  BY <1>0, SaysTheSame DEF BookingsStay, others, bookedOf, carriedOf
<1>2. RunsAndBookings'
  BY <1>0, <1>1, NothingNewKeeps
<1>3. ASSUME NEW v \in Versions, ValidatePolicy(v) PROVE PromiseMoves
  BY <1>0, <1>1, <1>3, Unseen DEF ValidatePolicy
<1>4. ASSUME NEW v \in Versions, EnableShadow(v) PROVE PromiseMoves
  <2>1. bundle' = [bundle EXCEPT !.shadow = v, !.version = @ + 1] /\ ver[v].published
    BY <1>4 DEF EnableShadow
  <2>2. /\ bundle'.active = bundle.active /\ bundle'.shadow = v
        /\ bundle'.mandatory = bundle.mandatory
    BY <1>0, <2>1 DEF BundleType
  <2>3. v \in publishedOf
    BY <2>1 DEF publishedOf
  <2>4. Promise!Observe(v)
    BY <1>1, <2>2, <2>3 DEF Promise!Observe
  <2> QED
    BY <2>4 DEF PromiseMoves, Promise!PromiseNext
<1>5. CASE DisableShadow
  <2>1. bundle' = [bundle EXCEPT !.shadow = None, !.version = @ + 1]
    BY <1>5 DEF DisableShadow
  <2>2. /\ bundle'.active = bundle.active /\ bundle'.shadow = None
        /\ bundle'.mandatory = bundle.mandatory
    BY <1>0, <2>1 DEF BundleType
  <2>3. Promise!StopObserving
    BY <1>1, <2>2 DEF Promise!StopObserving
  <2> QED
    BY <1>2, <2>3 DEF PromiseMoves, Promise!PromiseNext
<1> QED
  BY <1>2, <1>3, <1>4, <1>5

\* activate: what it leaves of the bundle, and that it was allowed to.
LEMMA ActivateEnforces ==
    ASSUME PolicyInv, NEW v \in Versions, Activate(v),
           UNCHANGED <<last, approvals, bookedOf>>
    PROVE  VersionsStay /\ Promise!Enforce(v)
<1>1. VersionsStay
  BY StatesOnly
<1>2. bundle' = [state |-> bundle.state, mandatory |-> bundle.mandatory, active |-> v,
                 shadow |-> IF bundle.shadow = v THEN None ELSE bundle.shadow,
                 version |-> bundle.version + 1]
  BY DEF Activate
<1>3. /\ bundle'.active = v /\ bundle'.mandatory = bundle.mandatory
      /\ bundle'.shadow = IF bundle.shadow = v THEN None ELSE bundle.shadow
  BY <1>2
<1>4. /\ v \in publishedOf
      /\ Platform /\ bundle.mandatory => \E a, b \in approvals[v] : a # b
  BY DEF Activate, Activatable, GlobalMandatory, publishedOf
<1>5. UNCHANGED <<contentOf, publishedOf, passingOf>>
  BY <1>1, SaysTheSame
<1> QED
  BY <1>1, <1>3, <1>4, <1>5 DEF Promise!Enforce

\* ActivatePolicyVersion and RollbackPolicy.
LEMMA ActivateNowStep ==
    ASSUME PolicyInv, RunsAndBookings, NEW v \in Versions, ActivateNow(v)
    PROVE  PromiseMoves /\ RunsAndBookings'
<1>1. Activate(v) /\ UNCHANGED <<last, approvals, sched, applied>>
  BY DEF ActivateNow, beside
<1>2. BookingsStay /\ UNCHANGED <<bookedOf, carriedOf>>
  BY <1>1 DEF BookingsStay, bookedOf, carriedOf
<1>3. VersionsStay /\ Promise!Enforce(v)
  BY <1>1, <1>2, ActivateEnforces
<1>4. Promise!EnforceNow(v)
  BY <1>2, <1>3 DEF Promise!EnforceNow
<1> QED
  BY <1>2, <1>3, <1>4, NothingNewKeeps DEF PromiseMoves, Promise!PromiseNext

\* A worker carries out what was booked, for the first time.
LEMMA ActivateScheduledStep ==
    ASSUME PolicyInv, RunsAndBookings, NEW w \in Workers, NEW seen \in BOOLEAN,
           ActivateScheduled(w, seen)
    PROVE  PromiseMoves /\ RunsAndBookings'
<1>1. PICK s \in Schedules : s = worker[w].job
  BY BusyWorker DEF PolicyInv, ActivateScheduled
<1>2. PICK v \in Versions : v = sched[s].target
  BY <1>1, BusyWorker DEF PolicyInv, ActivateScheduled
<1>3. /\ Activate(v) /\ UNCHANGED <<last, approvals, sched>> /\ applied[s] = 0
      /\ applied' = [applied EXCEPT ![s] = @ + 1]
  BY <1>1, <1>2 DEF ActivateScheduled
<1>4. BookingsStay /\ bookedOf' = bookedOf /\ bookedOf[s] = v
  BY <1>2, <1>3 DEF BookingsStay, bookedOf
<1>5. VersionsStay /\ Promise!Enforce(v)
  BY <1>3, <1>4, ActivateEnforces
<1>6. s \notin carriedOf
  BY <1>3 DEF carriedOf
<1>7. carriedOf' = carriedOf \cup {s}
  <2>1. applied \in [Schedules -> Nat]
    BY DEF PolicyInv, SchedulesInv, SchedulesType
  <2>2. applied'[s] = 1 /\ \A u \in Schedules \ {s} : applied'[u] = applied[u]
    BY <1>3, <2>1
  <2> QED
    BY <2>2 DEF carriedOf
<1>8. Promise!CarryOut(s)
  BY <1>4, <1>5, <1>6, <1>7 DEF Promise!CarryOut
<1> QED
  BY <1>4, <1>5, <1>8, NothingNewKeeps DEF PromiseMoves, Promise!PromiseNext

\* update_bundle writes a flag, and update_bundle_state changes nothing the promise sees.
LEMMA BundleStep ==
    ASSUME PolicyInv, RunsAndBookings,
           \/ \E e \in Editors : UpdateBundle(e)
           \/ \E target \in {"DISABLED", "RETIRED"} : TransitionBundle(target)
    PROVE  PromiseMoves /\ RunsAndBookings'
<1>0. bundle \in BundleType /\ UNCHANGED <<ver, last, approvals, sched, applied>>
  BY DEF PolicyInv, VersionsInv, VersionsType, UpdateBundle, TransitionBundle, others
<1>1. VersionsStay /\ BookingsStay
  BY <1>0, RestatesItself DEF VersionsStay, BookingsStay
<1>2. UNCHANGED <<approvals, contentOf, publishedOf, passingOf, bookedOf, carriedOf>>
  BY <1>0, <1>1, SaysTheSame, BooksTheSame DEF carriedOf
<1>3. RunsAndBookings'
  BY <1>1, NothingNewKeeps
<1>4. /\ bundle'.active = bundle.active /\ bundle'.shadow = bundle.shadow
      /\ bundle'.mandatory \in BOOLEAN
  <2>1. ASSUME NEW e \in Editors, UpdateBundle(e)
        PROVE  /\ bundle'.active = bundle.active /\ bundle'.shadow = bundle.shadow
               /\ bundle'.mandatory \in BOOLEAN
    BY <1>0, <2>1 DEF UpdateBundle, Updated, BundleType, PolicyInv, EditorsInv, EditType
  <2>2. ASSUME NEW target \in {"DISABLED", "RETIRED"}, TransitionBundle(target)
        PROVE  /\ bundle'.active = bundle.active /\ bundle'.shadow = bundle.shadow
               /\ bundle'.mandatory \in BOOLEAN
    BY <1>0, <2>2 DEF TransitionBundle, BundleType
  <2> QED
    BY <2>1, <2>2
<1>6. CASE bundle'.mandatory = bundle.mandatory
  BY <1>0, <1>1, <1>2, <1>3, <1>4, <1>6, Unseen
<1>7. CASE bundle'.mandatory # bundle.mandatory
  <2>1. Promise!SetFlag(bundle'.mandatory)
    BY <1>2, <1>4 DEF Promise!SetFlag
  <2> QED
    BY <1>3, <1>4, <2>1 DEF PromiseMoves, Promise!PromiseNext
<1> QED
  BY <1>6, <1>7

\* An activation is scheduled: booked.
LEMMA ScheduleStepBooks ==
    ASSUME PolicyInv, RunsAndBookings, NEW s \in Schedules, NEW v \in Versions, NEW expected,
           ScheduleActivation(s, v, expected)
    PROVE  PromiseMoves /\ RunsAndBookings'
<1>1. PICK r : r = [status |-> "PENDING", target |-> v, expected |-> expected,
                    due |-> FALSE, leased |-> FALSE]
  OBVIOUS
<1>2. r.status = "PENDING" /\ r.target = v
  BY <1>1
<1>3. /\ sched[s].status = "ABSENT" /\ sched' = [sched EXCEPT ![s] = r]
      /\ UNCHANGED <<policy, applied>> /\ sched \in [Schedules -> ScheduleType]
  BY <1>1 DEF ScheduleActivation, PolicyInv, SchedulesInv, SchedulesType
<1>4. sched'[s] = r /\ \A u \in Schedules \ {s} : sched'[u] = sched[u]
  BY <1>3
<1>5. UNCHANGED <<bundle, ver, last, approvals, applied>>
  BY <1>3 DEF policy
<1>6. RunsAndBookings'
  BY <1>2, <1>4, <1>5 DEF RunsAndBookings
<1>7. bookedOf[s] = None /\ bookedOf' = [bookedOf EXCEPT ![s] = v]
  BY <1>2, <1>3, <1>4 DEF bookedOf, RunsAndBookings
<1>8. UNCHANGED <<contentOf, publishedOf, passingOf, carriedOf>>
  BY <1>5, RestatesItself, SaysTheSame DEF VersionsStay, carriedOf
<1>9. Promise!Book(s, v)
  BY <1>5, <1>7, <1>8 DEF Promise!Book
<1> QED
  BY <1>6, <1>9 DEF PromiseMoves, Promise!PromiseNext

\* A row of the schedule whose status, lease or due time changes keeps what it books.
LEMMA OneRow ==
    ASSUME NEW s \in Schedules, sched \in [Schedules -> ScheduleType], NEW r \in ScheduleType,
           sched' = [sched EXCEPT ![s] = r], r.target = sched[s].target, r.status # "ABSENT"
    PROVE  BookingsStay
<1>1. sched'[s] = r /\ \A u \in Schedules \ {s} : sched'[u] = sched[u]
  OBVIOUS
<1> QED
  BY <1>1 DEF BookingsStay

\* Schedules and workers, except for the booking and its activation, and handlers that
\* have not written yet.
LEMMA UnseenStep ==
    ASSUME PolicyInv, RunsAndBookings,
           \/ \E t \in Testers : AbandonTests(t) \/ \E v \in Versions : StartTests(t, v)
           \/ \E e \in Editors, ahead \in 0 .. MaxAhead, m \in BOOLEAN :
                 LoadForUpdate(e, bundle.version + ahead, m)
           \/ \E s \in Schedules : FallsDue(s) \/ LeaseEnds(s)
           \/ \E w \in Workers :
                 \/ \E healthy \in BOOLEAN : CheckProviders(w, healthy)
                 \/ ActivateReplayed(w) \/ ActivateRefused(w)
                 \/ FinishScheduled(w) \/ WorkerCrash(w)
                 \/ \E s \in Schedules : ClaimDue(w, s)
           \/ UNCHANGED vars
    PROVE  PromiseMoves /\ RunsAndBookings'
<1>0. SchedulesInv /\ sched \in [Schedules -> ScheduleType]
  BY DEF PolicyInv, SchedulesInv, SchedulesType
<1>1. UNCHANGED <<policy, applied>>
  BY DEF AbandonTests, StartTests, LoadForUpdate, FallsDue, LeaseEnds, CheckProviders,
     ActivateReplayed, ActivateRefused, FinishScheduled, WorkerCrash, ClaimDue, vars, policy
<1>2. CASE sched' = sched
  <2>1. BookingsStay
    BY <1>2 DEF BookingsStay
  <2> QED
    BY <1>1, <2>1, UnwrittenStep
<1>3. ASSUME NEW s \in Schedules, FallsDue(s) PROVE BookingsStay
  <2>1. PICK r : r = [sched[s] EXCEPT !.due = TRUE]
    OBVIOUS
  <2>2. sched[s] \in ScheduleType /\ sched[s].status = "PENDING"
    BY <1>0, <1>3 DEF FallsDue
  <2>3. r \in ScheduleType /\ r.status = "PENDING" /\ r.target = sched[s].target
    BY <2>1, <2>2 DEF ScheduleType
  <2>4. sched' = [sched EXCEPT ![s] = r]
    BY <1>3, <2>1 DEF FallsDue
  <2> QED
    BY <1>0, <2>3, <2>4, OneRow
<1>4. ASSUME NEW s \in Schedules, LeaseEnds(s) PROVE BookingsStay
  <2>1. PICK r : r = [sched[s] EXCEPT !.leased = FALSE]
    OBVIOUS
  <2>2. sched[s] \in ScheduleType /\ sched[s].status = "PROCESSING"
    BY <1>0, <1>4 DEF LeaseEnds
  <2>3. r \in ScheduleType /\ r.status = "PROCESSING" /\ r.target = sched[s].target
    BY <2>1, <2>2 DEF ScheduleType
  <2>4. sched' = [sched EXCEPT ![s] = r]
    BY <1>4, <2>1 DEF LeaseEnds
  <2> QED
    BY <1>0, <2>3, <2>4, OneRow
<1>5. ASSUME NEW s \in Schedules, NEW to \in {"PROCESSING", "APPLIED", "FAILED"},
             NEW leased \in BOOLEAN,
             sched' = [sched EXCEPT ![s].status = to, ![s].leased = leased]
      PROVE  BookingsStay
  <2>1. PICK q : q = [sched[s] EXCEPT !.status = to]
    OBVIOUS
  <2>2. PICK r : r = [q EXCEPT !.leased = leased]
    OBVIOUS
  <2>3. sched[s] \in ScheduleType
    BY <1>0
  <2>4. q \in ScheduleType /\ q.status = to /\ q.target = sched[s].target
    BY <2>1, <2>3 DEF ScheduleType
  <2>5. r \in ScheduleType /\ r.status = to /\ r.target = sched[s].target
    BY <2>2, <2>4 DEF ScheduleType
  <2>6. sched' = [sched EXCEPT ![s] = r]
    <3>1. sched' = [[sched EXCEPT ![s] = q] EXCEPT ![s] = [q EXCEPT !.leased = leased]]
      BY <1>0, <1>5, <2>1
    <3> QED
      BY <1>0, <2>2, <3>1
  <2> QED
    BY <1>0, <2>5, <2>6, OneRow
<1>6. ASSUME NEW w \in Workers, NEW s \in Schedules, ClaimDue(w, s) PROVE BookingsStay
  <2>1. sched' = [sched EXCEPT ![s].status = "PROCESSING", ![s].leased = TRUE]
    BY <1>6 DEF ClaimDue
  <2> QED
    BY <1>5, <2>1
<1>7. ASSUME NEW w \in Workers, FinishScheduled(w), sched' # sched PROVE BookingsStay
  <2>1. PICK s \in Schedules : s = worker[w].job
    BY <1>0, <1>7, BusyWorker DEF FinishScheduled
  <2>2. sched' = [sched EXCEPT ![s].status = FinalStatus(w), ![s].leased = FALSE]
    BY <1>7, <2>1 DEF FinishScheduled
  <2>3. FinalStatus(w) \in {"PROCESSING", "APPLIED", "FAILED"}
    BY DEF FinalStatus
  <2> QED
    BY <1>5, <2>2, <2>3
<1>8. CASE sched' # sched
  <2>1. \/ \E s \in Schedules : FallsDue(s) \/ LeaseEnds(s)
        \/ \E w \in Workers : FinishScheduled(w) \/ \E s \in Schedules : ClaimDue(w, s)
    BY <1>8 DEF AbandonTests, StartTests, LoadForUpdate, CheckProviders,
       ActivateReplayed, ActivateRefused, WorkerCrash, vars
  <2>2. BookingsStay
    BY <1>3, <1>4, <1>6, <1>7, <1>8, <2>1
  <2> QED
    BY <1>1, <2>2, UnwrittenStep
<1> QED
  BY <1>2, <1>8

\* Each operation is the step of the promise it stands for, or none.
LEMMA PromiseStep ==
    ASSUME PolicyInv, RunsAndBookings, [Next]_vars
    PROVE  PromiseMoves /\ RunsAndBookings'
<1> DEFINE Kept == PromiseMoves /\ RunsAndBookings'
<1> SUFFICES Kept
  OBVIOUS
<1>1. ASSUME NEW v \in Versions, Author(v) PROVE Kept
  <2>1. CASE \/ \E continues \in BOOLEAN : CreateDraft(v, continues)
             \/ \E f \in Fixtures :
                   CreateFixture(v, f) \/ UpdateFixture(v, f) \/ DeleteFixture(v, f)
    BY <2>1, WriteStep
  <2>2. CASE ValidatePolicy(v) \/ EnableShadow(v)
    BY <2>2, StateStep
  <2>3. CASE \E t \in Testers : StartTests(t, v)
    BY <2>3, UnseenStep
  <2>4. CASE PublishPolicyVersion(v)
    BY <2>4, PublishStep
  <2>5. CASE \E a \in Admins : ApprovePolicyVersion(a, v)
    BY <2>5, ApproveStep
  <2>6. CASE ActivateNow(v)
    BY <2>6, ActivateNowStep
  <2>7. CASE \E s \in Schedules, ahead \in 0 .. MaxAhead :
                ScheduleActivation(s, v, bundle.version + ahead)
    BY <2>7, ScheduleStepBooks
  <2> HIDE DEF Kept
  <2> QED
    BY <1>1, <2>1, <2>2, <2>3, <2>4, <2>5, <2>6, <2>7 DEF Author
<1>2. ASSUME NEW t \in Testers, AbandonTests(t) \/ \E passed \in BOOLEAN : RecordTestRun(t, passed)
      PROVE  Kept
  BY <1>2, UnseenStep, RecordStep
<1>3. ASSUME NEW e \in Editors,
             \/ UpdateBundle(e)
             \/ \E ahead \in 0 .. MaxAhead, m \in BOOLEAN :
                   LoadForUpdate(e, bundle.version + ahead, m)
      PROVE  Kept
  BY <1>3, BundleStep, UnseenStep
<1>4. CASE \E target \in {"DISABLED", "RETIRED"} : TransitionBundle(target)
  BY <1>4, BundleStep
<1>5. CASE DisableShadow
  BY <1>5, StateStep
<1>6. CASE \E s \in Schedules : FallsDue(s) \/ LeaseEnds(s)
  BY <1>6, UnseenStep
<1>7. ASSUME NEW w \in Workers,
             WorkerStep(w) \/ WorkerCrash(w) \/ \E s \in Schedules : ClaimDue(w, s)
      PROVE  Kept
  <2>1. CASE \E seen \in BOOLEAN : ActivateScheduled(w, seen)
    BY <2>1, ActivateScheduledStep
  <2>2. CASE ~ \E seen \in BOOLEAN : ActivateScheduled(w, seen)
    <3>1. \/ \E healthy \in BOOLEAN : CheckProviders(w, healthy)
          \/ ActivateReplayed(w) \/ ActivateRefused(w)
          \/ FinishScheduled(w) \/ WorkerCrash(w)
          \/ \E s \in Schedules : ClaimDue(w, s)
      BY <1>7, <2>2 DEF WorkerStep
    <3> QED
      BY <3>1, UnseenStep
  <2> QED
    BY <2>1, <2>2
<1>8. CASE UNCHANGED vars
  BY <1>8, UnseenStep
<1> HIDE DEF Kept
<1> QED
  BY <1>1, <1>2, <1>3, <1>4, <1>5, <1>6, <1>7, <1>8 DEF Next

\* A bundle that was just created has promised nothing yet.
LEMMA PromiseStarts == ASSUME Init PROVE Promise!PromiseInit /\ RunsAndBookings
<1>1. RunsAndBookings
  BY DEF Init, RunsAndBookings, Unwritten, NoSchedule
<1>2. bundle.active = None /\ bundle.shadow = None /\ bundle.mandatory \in BOOLEAN
  BY DEF Init
<1>3. contentOf = [v \in Versions |-> [continues |-> FALSE, fixtures |-> {}, revision |-> 0]]
  BY DEF Init, contentOf, Unwritten
<1>4. publishedOf = {} /\ carriedOf = {}
  BY DEF Init, publishedOf, carriedOf, Unwritten
<1>5. bookedOf = [s \in Schedules |-> None] /\ approvals = [v \in Versions |-> {}]
  BY DEF Init, bookedOf, NoSchedule
<1>6. passingOf = Versions
  BY DEF Init, passingOf, TestsPassed, Unwritten
<1>7. [continues |-> FALSE, fixtures |-> {}, revision |-> 0] \in {c \in Content : c.fixtures = {}}
  BY DEF Content
<1> QED
  BY <1>1, <1>2, <1>3, <1>4, <1>5, <1>6, <1>7 DEF Promise!PromiseInit

\* Policies keep the promise of PolicyPromise, for any versions, administrators, calls
\* under way, schedules and workers.
THEOREM PoliciesKeepPromise == Spec => KeepsPromise
<1>1. Init => Promise!PromiseInit /\ RunsAndBookings
  BY PromiseStarts
<1>2. PolicyInv /\ RunsAndBookings /\ [Next]_vars =>
         [Promise!PromiseNext]_(Promise!promiseVars) /\ RunsAndBookings'
  BY PromiseStep DEF PromiseMoves
<1> QED
  BY <1>1, <1>2, PolicyInvariant, PTL DEF Spec, KeepsPromise, Promise!PromiseSpec
=============================================================================
