--------------------------- MODULE ReleasesProofs ---------------------------
(* Theorems about Releases, for any number of revisions and jobs. *)
EXTENDS Releases, TLAPS

Playbook == {"ready", "check", "build", "verify", "unit", "inspect", "preserve",
             "activate", "service", "start"}

\* A job inside the lock's section is the one that holds it.
LockInv == \A j \in Job : pc[j] \in Steps => lock = j

\* What a job has established where it stands.
JobInv(j) ==
    /\ pc[j] \in Playbook => local[j].rev \in Commit
    /\ pc[j] = "build" => release[local[j].rev] = "partial"
    /\ pc[j] \in {"unit", "inspect", "preserve", "activate"} =>
          release[local[j].rev] \in Passing
    /\ pc[j] = "preserve" => local[j].old = current
    /\ pc[j] = "activate" => current \in {NoCommit, previous, local[j].rev}
    /\ pc[j] = "prune" =>
          \A c \in Commit : release[c] # "absent" => c \in local[j].todo \cup Protected

IInv == TypeOK /\ LockInv /\ LinksResolve /\ \A j \in Job : JobInv(j)

Moves(j) ==
    \/ Install(j) \/ PruneReleases(j) \/ Stop(j)

-----------------------------------------------------------------------------
(* What a step leaves alone. *)

\* A step of job j is one of a job that has the lock, or takes it free, and
\* leaves the other jobs' program counters and variables alone.
LEMMA JobFrame ==
    ASSUME TypeOK, LockInv, NEW j \in Job, Moves(j)
    PROVE  /\ \A i \in Job \ {j} : pc'[i] = pc[i] /\ local'[i] = local[i]
           /\ lock \in {j, Nobody}
           /\ lock' \in {j, Nobody}
           /\ pc'[j] \in Steps => lock' = j
  <1> USE DEF TypeOK
  <1>1. CASE Install(j)
    <2>1. CASE \E c \in Commit, args, manage \in BOOLEAN : Deploy(j, c, args, manage)
      BY <2>1 DEF Deploy, Enter, Steps, Ended, serviceVars
    <2>2. CASE Skip(j)
      BY <2>2 DEF Skip, Leave, Steps, LockInv, serviceVars
    <2>3. CASE StartPlaybook(j)
      BY <2>3 DEF StartPlaybook, Goto, Steps, LockInv, serviceVars
    <2>4. CASE UseExisting(j)
      BY <2>4 DEF UseExisting, Goto, Assign, Steps, LockInv, serviceVars
    <2>5. CASE CreateDirectory(j)
      BY <2>5 DEF CreateDirectory, Goto, Steps, LockInv, serviceVars
    <2>6. CASE \E outcome \in {"partial", "whole"} : Build(j, outcome)
      BY <2>6 DEF Build, Goto, Steps, LockInv, serviceVars
    <2>7. CASE Verify(j)
      BY <2>7 DEF Verify, Goto, Steps, LockInv, serviceVars
    <2>8. CASE \E changed \in BOOLEAN : InstallUnit(j, changed)
      BY <2>8 DEF InstallUnit, Goto, Assign, Steps, LockInv, serviceVars
    <2>9. CASE InspectCurrent(j)
      BY <2>9 DEF InspectCurrent, Goto, Assign, Steps, LockInv, serviceVars
    <2>10. CASE Preserve(j)
      BY <2>10 DEF Preserve, Goto, Steps, LockInv, serviceVars
    <2>11. CASE Activate(j)
      BY <2>11 DEF Activate, Goto, Steps, LockInv, serviceVars
    <2>12. CASE EnableService(j)
      BY <2>12 DEF EnableService, Goto, Steps, LockInv
    <2>13. CASE StartService(j)
      BY <2>13 DEF StartService, Leave, Steps, LockInv
    <2>14. QED
      BY <1>1, <2>1, <2>2, <2>3, <2>4, <2>5, <2>6, <2>7, <2>8, <2>9, <2>10, <2>11,
         <2>12, <2>13 DEF Install
  <1>2. CASE PruneReleases(j)
    <2>1. CASE Prune(j)
      BY <2>1 DEF Prune, Enter, Steps, Ended, serviceVars
    <2>2. CASE Plan(j)
      BY <2>2 DEF Plan, Goto, Assign, Steps, LockInv, serviceVars
    <2>3. CASE \E c \in Commit : RemoveRelease(j, c)
      BY <2>3 DEF RemoveRelease, Goto, Assign, Steps, LockInv, serviceVars
    <2>4. CASE \E c \in Commit : RemovalStops(j, c)
      BY <2>4 DEF RemovalStops, Leave, Steps, LockInv, serviceVars
    <2>5. CASE PruneCompletes(j)
      BY <2>5 DEF PruneCompletes, Leave, Steps, LockInv, serviceVars
    <2>6. QED
      BY <1>2, <2>1, <2>2, <2>3, <2>4, <2>5 DEF PruneReleases
  <1>3. CASE Stop(j)
    BY <1>3 DEF Stop, Leave, Steps, LockInv, serviceVars
  <1>4. QED
    BY <1>1, <1>2, <1>3 DEF Moves

LEMMA ServiceFrame ==
    ASSUME Service
    PROVE  UNCHANGED <<linkVars, lock, pc, local>>
  BY DEF Service, ServiceDies, ServiceStarts, linkVars

-----------------------------------------------------------------------------
(* Types *)

LEMMA NoLocalsTyped == NoLocals \in Locals
  BY DEF NoLocals, Locals, Maybe

LEMMA InstallTyped ==
    ASSUME TypeOK, NEW j \in Job, Install(j)
    PROVE  TypeOK'
  <1> USE NoLocalsTyped DEF TypeOK, linkVars, serviceVars, Goto, Leave, Assign, Steps, Ended
  <1>1. CASE \E c \in Commit, args, manage \in BOOLEAN : Deploy(j, c, args, manage)
    <2> PICK c \in Commit, args \in BOOLEAN, manage \in BOOLEAN : Deploy(j, c, args, manage)
      BY <1>1
    <2>1. [NoLocals EXCEPT !.rev = c, !.args = args, !.manage = manage] \in Locals
      BY DEF NoLocals, Locals, Maybe
    <2>2. QED
      BY <2>1 DEF Deploy, Enter
  <1>2. CASE Skip(j)
    BY <1>2 DEF Skip
  <1>3. CASE StartPlaybook(j)
    BY <1>3 DEF StartPlaybook
  <1>4. CASE UseExisting(j)
    <2>1. [local[j] EXCEPT !.existing = TRUE] \in Locals
      BY DEF Locals
    <2>2. QED
      BY <1>4, <2>1 DEF UseExisting
  <1>5. CASE CreateDirectory(j)
    BY <1>5 DEF CreateDirectory, State
  <1>6. CASE \E outcome \in {"partial", "whole"} : Build(j, outcome)
    BY <1>6 DEF Build, State
  <1>7. CASE Verify(j)
    BY <1>7 DEF Verify
  <1>8. CASE \E changed \in BOOLEAN : InstallUnit(j, changed)
    <2> PICK changed \in BOOLEAN : InstallUnit(j, changed)
      BY <1>8
    <2>1. [local[j] EXCEPT !.changed = changed] \in Locals
      BY DEF Locals
    <2>2. QED
      BY <2>1 DEF InstallUnit
  <1>9. CASE InspectCurrent(j)
    <2>1. [local[j] EXCEPT !.old = current] \in Locals
      BY DEF Locals
    <2>2. QED
      BY <1>9, <2>1 DEF InspectCurrent
  <1>10. CASE Preserve(j)
    <2>1. local[j].old \in Maybe
      BY DEF Locals
    <2>2. QED
      BY <1>10, <2>1 DEF Preserve
  <1>11. CASE Activate(j)
    <2>1. local[j].rev \in Maybe
      BY DEF Locals
    <2>2. QED
      BY <1>11, <2>1 DEF Activate
  <1>12. CASE EnableService(j)
    <2>1. local[j].manage \in BOOLEAN
      BY DEF Locals
    <2>2. QED
      BY <1>12, <2>1 DEF EnableService
  <1>13. CASE StartService(j)
    <2>1. Started \in Maybe
      BY DEF Started, Maybe
    <2>2. QED
      BY <1>13, <2>1 DEF StartService
  <1>14. QED
    BY <1>1, <1>2, <1>3, <1>4, <1>5, <1>6, <1>7, <1>8, <1>9, <1>10, <1>11, <1>12, <1>13
    DEF Install

LEMMA PruneTyped ==
    ASSUME TypeOK, NEW j \in Job, PruneReleases(j) \/ Stop(j)
    PROVE  TypeOK'
  <1> USE NoLocalsTyped DEF TypeOK, linkVars, serviceVars, Goto, Leave, Assign, Steps, Ended
  <1>1. CASE Prune(j)
    BY <1>1 DEF Prune, Enter
  <1>2. CASE Plan(j)
    <2>1. [local[j] EXCEPT !.todo = Candidates] \in Locals
      BY DEF Locals, Candidates
    <2>2. QED
      BY <1>2, <2>1 DEF Plan
  <1>3. CASE \E c \in Commit : RemoveRelease(j, c)
    <2> PICK c \in Commit : RemoveRelease(j, c)
      BY <1>3
    <2>1. [local[j] EXCEPT !.todo = @ \ {c}] \in Locals
      BY DEF Locals
    <2>2. QED
      BY <2>1 DEF RemoveRelease, State
  <1>4. CASE \E c \in Commit : RemovalStops(j, c)
    BY <1>4 DEF RemovalStops, State
  <1>5. CASE PruneCompletes(j)
    BY <1>5 DEF PruneCompletes
  <1>6. CASE Stop(j)
    BY <1>6 DEF Stop
  <1>7. QED
    BY <1>1, <1>2, <1>3, <1>4, <1>5, <1>6 DEF PruneReleases

LEMMA ServiceTyped ==
    ASSUME TypeOK, Service
    PROVE  TypeOK'
  <1>1. Started \in Maybe
    BY DEF TypeOK, Started, Maybe
  <1>2. QED
    BY <1>1 DEF TypeOK, Service, ServiceDies, ServiceStarts, linkVars, Maybe

-----------------------------------------------------------------------------
(* The links, the mover's own facts, and the abstract step *)

Intact == {c \in Commit : release[c] \in Passing}

\* What every step of a job does: its facts and the links hold on, and the
\* links move as ReleaseLinks allows.
Keeps(j) ==
    /\ JobInv(j)'
    /\ LinksResolve'
    /\ Links!LinksNext \/ UNCHANGED <<current, previous, Intact>>

\* Steps that touch neither releases nor links.
LEMMA LinksStill ==
    ASSUME LinksResolve, UNCHANGED linkVars
    PROVE  LinksResolve' /\ UNCHANGED <<current, previous, Intact>>
  BY DEF LinksResolve, linkVars, Intact

\* A release that no link names may change in any way.
LEMMA UnlinkedChanges ==
    ASSUME TypeOK, LinksResolve, NEW c \in Commit, NEW s \in State,
           release' = [release EXCEPT ![c] = s],
           UNCHANGED <<current, previous>>,
           c \notin {current, previous}
    PROVE  /\ LinksResolve'
           /\ Links!LinksNext \/ UNCHANGED <<current, previous, Intact>>
  <1> USE ReleaseAssumption DEF TypeOK
  <1>1. LinksResolve'
    BY DEF LinksResolve, Maybe
  <1>2. CASE s \in Passing
    <2>1. Intact' = Intact \cup {c}
      BY <1>2 DEF Intact
    <2>2. Links!Add(c)
      BY <2>1 DEF Links!Add, Intact
    <2>3. QED
      BY <1>1, <2>2 DEF Links!LinksNext
  <1>3. CASE s \notin Passing
    <2>1. Intact' = Intact \ {c}
      BY <1>3 DEF Intact
    <2>2. Links!Remove(c)
      BY <2>1 DEF Links!Remove, Intact
    <2>3. QED
      BY <1>1, <2>2 DEF Links!LinksNext
  <1>4. QED
    BY <1>2, <1>3

LEMMA DeployKeeps ==
    ASSUME IInv, NEW j \in Job,
           \/ \E c \in Commit, args, manage \in BOOLEAN : Deploy(j, c, args, manage)
           \/ Skip(j) \/ StartPlaybook(j)
    PROVE  Keeps(j)
  <1> USE DEF IInv, TypeOK
  <1>1. UNCHANGED linkVars
    BY DEF Deploy, Skip, StartPlaybook
  <1>2. JobInv(j)'
    <2>1. CASE \E c \in Commit, args, manage \in BOOLEAN : Deploy(j, c, args, manage)
      BY <2>1 DEF Deploy, Enter, JobInv, Playbook, NoLocals
    <2>2. CASE Skip(j)
      BY <2>2 DEF Skip, Leave, JobInv, Playbook
    <2>3. CASE StartPlaybook(j)
      BY <2>3 DEF StartPlaybook, Goto, JobInv, Playbook
    <2>4. QED
      BY <2>1, <2>2, <2>3
  <1>3. QED
    BY <1>1, <1>2, LinksStill DEF Keeps

\* The playbook up to the check of what it has built.
LEMMA BuildKeeps ==
    ASSUME IInv, NEW j \in Job,
           \/ UseExisting(j) \/ CreateDirectory(j)
           \/ \E outcome \in {"partial", "whole"} : Build(j, outcome)
           \/ Verify(j)
    PROVE  Keeps(j)
  <1> USE ReleaseAssumption DEF IInv, TypeOK
  <1>a. JobInv(j)
    OBVIOUS
  <1>1. CASE UseExisting(j)
    <2>1. JobInv(j)'
      BY <1>1, <1>a DEF UseExisting, Goto, Assign, JobInv, Playbook, Locals
    <2>2. QED
      BY <1>1, <2>1, LinksStill DEF UseExisting, Keeps
  <1>2. CASE CreateDirectory(j)
    <2>1. local[j].rev \in Commit
      BY <1>2, <1>a DEF CreateDirectory, Goto, JobInv, Playbook
    <2>2. JobInv(j)'
      BY <1>2, <2>1 DEF CreateDirectory, Goto, JobInv, Playbook
    <2>3. local[j].rev \notin {current, previous}
      BY <1>2, <2>1 DEF CreateDirectory, LinksResolve, Passing
    <2>4. QED
      BY <1>2, <2>1, <2>2, <2>3, UnlinkedChanges DEF CreateDirectory, Keeps, State
  <1>3. CASE \E outcome \in {"partial", "whole"} : Build(j, outcome)
    <2> PICK outcome \in {"partial", "whole"} : Build(j, outcome)
      BY <1>3
    <2>1. local[j].rev \in Commit /\ release[local[j].rev] = "partial"
      BY <1>a DEF Build, Goto, JobInv, Playbook
    <2>2. JobInv(j)'
      BY <2>1 DEF Build, Goto, JobInv, Playbook
    <2>3. local[j].rev \notin {current, previous}
      BY <2>1 DEF LinksResolve, Passing
    <2>4. QED
      BY <2>1, <2>2, <2>3, UnlinkedChanges DEF Build, Keeps, State
  <1>4. CASE Verify(j)
    <2>1. JobInv(j)'
      BY <1>4, <1>a DEF Verify, Goto, JobInv, Playbook, linkVars
    <2>2. QED
      BY <1>4, <2>1, LinksStill DEF Verify, Keeps
  <1>5. QED
    BY <1>1, <1>2, <1>3, <1>4

\* The playbook from the unit to the service.
LEMMA SwitchKeeps ==
    ASSUME IInv, NEW j \in Job,
           \/ \E changed \in BOOLEAN : InstallUnit(j, changed)
           \/ InspectCurrent(j) \/ Preserve(j) \/ Activate(j)
           \/ EnableService(j) \/ StartService(j)
    PROVE  Keeps(j)
  <1> USE ReleaseAssumption DEF IInv, TypeOK
  <1>a. JobInv(j)
    OBVIOUS
  <1>1. CASE \E changed \in BOOLEAN : InstallUnit(j, changed)
    <2>1. JobInv(j)'
      BY <1>1, <1>a DEF InstallUnit, Goto, Assign, JobInv, Playbook, Locals, linkVars
    <2>2. QED
      BY <1>1, <2>1, LinksStill DEF InstallUnit, Keeps
  <1>2. CASE InspectCurrent(j)
    <2>1. JobInv(j)'
      BY <1>2, <1>a DEF InspectCurrent, Goto, Assign, JobInv, Playbook, Locals, linkVars
    <2>2. QED
      BY <1>2, <2>1, LinksStill DEF InspectCurrent, Keeps
  <1>3. CASE Preserve(j)
    <2>1. /\ local[j].rev \in Commit
          /\ release[local[j].rev] \in Passing
          /\ local[j].old = current
      BY <1>3, <1>a DEF Preserve, Goto, JobInv, Playbook
    <2>2. JobInv(j)'
      BY <1>3, <2>1 DEF Preserve, Goto, JobInv, Playbook
    <2>3. LinksResolve'
      BY <1>3, <2>1 DEF Preserve, LinksResolve
    <2>4. CASE current \in {NoCommit, local[j].rev}
      BY <1>3, <2>1, <2>2, <2>3, <2>4 DEF Preserve, Keeps, Intact
    <2>5. CASE current \notin {NoCommit, local[j].rev}
      <3>1. Links!Keep
        BY <1>3, <2>1, <2>5 DEF Preserve, Links!Keep
      <3>2. QED
        BY <2>2, <2>3, <3>1 DEF Keeps, Links!LinksNext
    <2>6. QED
      BY <2>4, <2>5
  <1>4. CASE Activate(j)
    <2>1. /\ local[j].rev \in Commit
          /\ release[local[j].rev] \in Passing
          /\ current \in {NoCommit, previous, local[j].rev}
      BY <1>4, <1>a DEF Activate, Goto, JobInv, Playbook
    <2>2. JobInv(j)'
      BY <1>4, <2>1 DEF Activate, Goto, JobInv, Playbook
    <2>3. LinksResolve'
      BY <1>4, <2>1 DEF Activate, LinksResolve
    <2>4. CASE current = local[j].rev
      BY <1>4, <2>2, <2>3, <2>4 DEF Activate, Keeps, Intact
    <2>5. CASE current # local[j].rev
      <3>1. Links!Switch(local[j].rev)
        BY <1>4, <2>1, <2>5 DEF Activate, Links!Switch
      <3>2. QED
        BY <2>1, <2>2, <2>3, <3>1 DEF Keeps, Links!LinksNext
    <2>6. QED
      BY <2>4, <2>5
  <1>5. CASE EnableService(j)
    <2>1. JobInv(j)'
      BY <1>5, <1>a DEF EnableService, Goto, JobInv, Playbook
    <2>2. QED
      BY <1>5, <2>1, LinksStill DEF EnableService, Keeps
  <1>6. CASE StartService(j)
    <2>1. JobInv(j)'
      BY <1>6 DEF StartService, Leave, JobInv, Playbook
    <2>2. QED
      BY <1>6, <2>1, LinksStill DEF StartService, Keeps
  <1>7. QED
    BY <1>1, <1>2, <1>3, <1>4, <1>5, <1>6

\* A pruning, and any job that stops.
LEMMA PruneKeeps ==
    ASSUME IInv, NEW j \in Job, PruneReleases(j) \/ Stop(j)
    PROVE  Keeps(j)
  <1> USE ReleaseAssumption DEF IInv, TypeOK
  <1>a. JobInv(j)
    OBVIOUS
  <1>1. CASE Prune(j)
    <2>1. JobInv(j)'
      BY <1>1 DEF Prune, Enter, JobInv, Playbook
    <2>2. QED
      BY <1>1, <2>1, LinksStill DEF Prune, Keeps
  <1>2. CASE Plan(j)
    <2>1. local'[j].todo = Candidates
      BY <1>2 DEF Plan, Assign, Locals
    <2>2. JobInv(j)'
      BY <1>2, <2>1 DEF Plan, Goto, JobInv, Playbook, Candidates, Protected, linkVars
    <2>3. QED
      BY <1>2, <2>2, LinksStill DEF Plan, Keeps
  <1>3. CASE \E c \in Commit : RemoveRelease(j, c)
    <2> PICK c \in Commit : RemoveRelease(j, c)
      BY <1>3
    <2>1. local'[j].todo = local[j].todo \ {c}
      BY DEF RemoveRelease, Assign, Locals
    <2>2. JobInv(j)'
      BY <1>a, <2>1 DEF RemoveRelease, Goto, JobInv, Playbook, Protected
    <2>3. c \notin {current, previous}
      BY DEF RemoveRelease, Candidates, Protected
    <2>4. QED
      BY <2>2, <2>3, UnlinkedChanges DEF RemoveRelease, Keeps, State
  <1>4. CASE \E c \in Commit : RemovalStops(j, c)
    <2> PICK c \in Commit : RemovalStops(j, c)
      BY <1>4
    <2>1. JobInv(j)'
      BY DEF RemovalStops, Leave, JobInv, Playbook
    <2>2. c \notin {current, previous}
      BY DEF RemovalStops, Candidates, Protected
    <2>3. QED
      BY <2>1, <2>2, UnlinkedChanges DEF RemovalStops, Keeps, State
  <1>5. CASE PruneCompletes(j)
    <2>1. JobInv(j)'
      BY <1>5 DEF PruneCompletes, Leave, JobInv, Playbook
    <2>2. QED
      BY <1>5, <2>1, LinksStill DEF PruneCompletes, Keeps
  <1>6. CASE Stop(j)
    <2>1. JobInv(j)'
      BY <1>6 DEF Stop, Leave, JobInv, Playbook
    <2>2. QED
      BY <1>6, <2>1, LinksStill DEF Stop, Keeps
  <1>7. QED
    BY <1>1, <1>2, <1>3, <1>4, <1>5, <1>6 DEF PruneReleases

-----------------------------------------------------------------------------
LEMMA Initially == Init => IInv
  BY NoLocalsTyped DEF Init, IInv, TypeOK, State, Maybe, Ended, Steps, LockInv, LinksResolve,
     JobInv, Playbook

LEMMA JobStep ==
    ASSUME IInv, NEW j \in Job, Moves(j)
    PROVE  IInv' /\ Keeps(j)
  <1>1. Keeps(j)
    BY DeployKeeps, BuildKeeps, SwitchKeeps, PruneKeeps DEF Moves, Install
  <1>2. TypeOK'
    BY InstallTyped, PruneTyped DEF IInv, Moves
  <1>3. /\ \A i \in Job \ {j} : pc'[i] = pc[i] /\ local'[i] = local[i] /\ pc[i] \notin Steps
        /\ pc'[j] \in Steps => lock' = j
    BY JobFrame, ReleaseAssumption DEF IInv, LockInv
  <1>4. LockInv'
    BY <1>3 DEF LockInv
  <1>5. ASSUME NEW i \in Job \ {j} PROVE JobInv(i)'
    BY <1>3 DEF JobInv, Playbook, Steps
  <1>6. QED
    BY <1>1, <1>2, <1>4, <1>5 DEF IInv, Keeps

LEMMA ServiceStep ==
    ASSUME IInv, Service
    PROVE  IInv' /\ UNCHANGED <<current, previous, Intact>>
  <1>1. UNCHANGED <<linkVars, lock, pc, local>>
    BY ServiceFrame
  <1>2. TypeOK'
    BY ServiceTyped DEF IInv
  <1>3. QED
    BY <1>1, <1>2 DEF IInv, LockInv, LinksResolve, JobInv, Protected, linkVars, Intact

LEMMA Inductive == IInv /\ [Next]_vars => IInv'
  <1> SUFFICES ASSUME IInv, [Next]_vars PROVE IInv'
    OBVIOUS
  <1>1. CASE Service
    BY <1>1, ServiceStep
  <1>2. CASE \E j \in Job : Install(j) \/ PruneReleases(j) \/ Stop(j)
    BY <1>2, JobStep DEF Moves
  <1>3. CASE UNCHANGED vars
    BY <1>3 DEF vars, linkVars, serviceVars, IInv, TypeOK, LockInv, LinksResolve, JobInv, Protected
  <1>4. QED
    BY <1>1, <1>2, <1>3 DEF Next

LEMMA AlwaysIInv == Spec => []IInv
  BY Initially, Inductive, PTL DEF Spec

\* Every variable keeps its type.
THEOREM ReleasesTyped == Spec => []TypeOK
  <1>1. IInv => TypeOK
    BY DEF IInv
  <1>2. QED
    BY <1>1, AlwaysIInv, PTL

\* Whatever is built, removed and interrupted, in whatever order, the links
\* name releases that pass the check.
THEOREM LinksAlwaysResolve == Spec => []LinksResolve
  <1>1. IInv => LinksResolve
    BY DEF IInv
  <1>2. QED
    BY <1>1, AlwaysIInv, PTL

\* A pruning that completes has removed every candidate there was.
THEOREM PruningIsThorough == Spec => PruneIsThorough
  <1>1. ASSUME IInv, [Next]_vars
        PROVE  [\A j \in Job : pc[j] = "prune" /\ pc'[j] = "completed" => Candidates = {}]_vars
    <2> SUFFICES ASSUME NEW j \in Job, pc[j] = "prune", pc'[j] = "completed"
                 PROVE  Candidates = {}
      OBVIOUS
    <2>1. PICK i \in Job : Moves(i)
      BY <1>1, ServiceFrame DEF Next, Moves, vars
    <2>2. i = j
      BY <1>1, <2>1, JobFrame DEF IInv
    <2>3. PruneCompletes(j)
      <3> USE <1>1, <2>1, <2>2 DEF IInv, TypeOK
      <3>1. ~Stop(j)
        BY DEF Stop, Leave
      <3>2. ~Install(j)
        BY DEF Install, Deploy, Enter, Ended, Skip, StartPlaybook, UseExisting,
           CreateDirectory, Build, Verify, InstallUnit, InspectCurrent, Preserve,
           Activate, EnableService, StartService, Goto
      <3>3. ~Prune(j) /\ ~Plan(j)
        BY DEF Prune, Enter, Ended, Plan, Goto
      <3>4. ~\E d \in Commit : RemoveRelease(j, d) \/ RemovalStops(j, d)
        BY DEF RemoveRelease, RemovalStops, Goto, Leave
      <3>5. QED
        BY <3>1, <3>2, <3>3, <3>4 DEF Moves, PruneReleases
    <2>4. QED
      BY <1>1, <2>3 DEF PruneCompletes, IInv, JobInv, Candidates, Protected
  <1>2. QED
    BY <1>1, AlwaysIInv, PTL DEF Spec, PruneIsThorough

\* The links move as ReleaseLinks allows: the active release is left only when
\* `previous` names it, and nothing a link names is removed.
THEOREM ReleasesKeepLinks == Spec => LinksKept
  <1>1. Init => Links!LinksInit
    BY DEF Init, Links!LinksInit, Passing
  <1>2. ASSUME IInv, [Next]_vars
        PROVE  [Links!LinksNext]_(Links!linkVars)
    <2>1. CASE Service
      BY <1>2, <2>1, ServiceStep DEF Links!linkVars, Intact
    <2>2. CASE \E j \in Job : Install(j) \/ PruneReleases(j) \/ Stop(j)
      BY <1>2, <2>2, JobStep DEF Moves, Keeps, Links!linkVars, Intact
    <2>3. CASE UNCHANGED vars
      BY <2>3 DEF vars, linkVars, Links!linkVars
    <2>4. QED
      BY <1>2, <2>1, <2>2, <2>3 DEF Next
  <1>3. QED
    BY <1>1, <1>2, AlwaysIInv, PTL DEF Spec, LinksKept, Links!LinksSpec
=============================================================================
