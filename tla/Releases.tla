------------------------------ MODULE Releases ------------------------------
(***************************************************************************)
(* Installing, activating and pruning immutable releases: deploy.sh with   *)
(* the playbook install.yml, release_prune.py --apply, and the service     *)
(* that systemd runs from the active release.  Jobs are started over and   *)
(* over, may stop at any step, and exclude each other by deploy.lock.      *)
(***************************************************************************)
EXTENDS Naturals, FiniteSets

CONSTANTS Commit,    \* revisions, and so the names of releases
          NoCommit,  \* a link that is not there, a service that does not run
          Job,       \* processes of the release owner
          Nobody,    \* the holder of a free lock
          Limit      \* LIMIT, the candidates one pruning may have

ASSUME ReleaseAssumption ==
    /\ NoCommit \notin Commit
    /\ Nobody \notin Job
    /\ Limit \in Nat

VARIABLES
    release,   \* the state of each release directory
    current,   \* the links
    previous,
    lock,      \* the holder of deploy.lock
    pc,
    local,     \* the variables of a playbook or of execute()
    enabled,   \* the unit is installed and enabled
    running    \* the release the service's process was started from

linkVars    == <<release, current, previous>>
serviceVars == <<enabled, running>>
vars        == <<linkVars, lock, pc, local, serviceVars>>

\* A release passes the check of lines 48-56 and 104-110 (import gway_rfid,
\* version) when it is whole, and also when the part that is missing is not
\* one the check looks at.
State   == {"absent", "partial", "damaged", "whole"}
Passing == {"whole", "damaged"}

Ended  == {"idle", "skipped", "completed"}
Steps  == {"ready", "check", "build", "verify", "unit", "inspect", "preserve",
           "activate", "service", "start", "plan", "prune"}
Maybe  == Commit \cup {NoCommit}

Locals == [rev : Maybe, manage : BOOLEAN, args : BOOLEAN, existing : BOOLEAN,
           changed : BOOLEAN, old : Maybe, todo : SUBSET Commit]

NoLocals == [rev |-> NoCommit, manage |-> FALSE, args |-> FALSE, existing |-> FALSE,
             changed |-> FALSE, old |-> NoCommit, todo |-> {}]

TypeOK ==
    /\ release \in [Commit -> State]
    /\ current \in Maybe
    /\ previous \in Maybe
    /\ lock \in Job \cup {Nobody}
    /\ pc \in [Job -> Ended \cup Steps]
    /\ local \in [Job -> Locals]
    /\ enabled \in BOOLEAN
    /\ running \in Maybe

Init ==
    /\ release = [c \in Commit |-> "absent"]
    /\ current = NoCommit
    /\ previous = NoCommit
    /\ lock = Nobody
    /\ pc = [j \in Job |-> "idle"]
    /\ local = [j \in Job |-> NoLocals]
    /\ enabled = FALSE
    /\ running = NoCommit

-----------------------------------------------------------------------------
\* flock -n: a job that does not get the lock ends without having done a thing.
Enter(j, to, locals) ==
    /\ pc[j] \in Ended
    /\ lock = Nobody
    /\ lock' = j
    /\ pc' = [pc EXCEPT ![j] = to]
    /\ local' = [local EXCEPT ![j] = locals]

Goto(j, from, to) ==
    /\ pc[j] = from
    /\ pc' = [pc EXCEPT ![j] = to]
    /\ lock' = lock

\* The end of a process frees its lock.
Leave(j, to) ==
    /\ pc' = [pc EXCEPT ![j] = to]
    /\ lock' = Nobody
    /\ local' = [local EXCEPT ![j] = NoLocals]

Assign(j, locals) == local' = [local EXCEPT ![j] = locals]

-----------------------------------------------------------------------------
(* deploy.sh *)

\* Arguments (-e rfid_manage_service=false) go to the playbook, and a
\* deployment with arguments never takes the short cut.
Deploy(j, c, args, manage) ==
    /\ args \/ manage
    /\ Enter(j, "ready", [NoLocals EXCEPT !.rev = c, !.args = args, !.manage = manage])
    /\ UNCHANGED <<linkVars, serviceVars>>

\* Lines 26-34.  is-active asks whether a process runs, not which.
MaySkip(j) ==
    /\ ~local[j].args
    /\ current = local[j].rev
    /\ release[local[j].rev] \in Passing
    /\ enabled
    /\ running # NoCommit

Skip(j) ==
    /\ pc[j] = "ready"
    /\ MaySkip(j)
    /\ Leave(j, "skipped")
    /\ UNCHANGED <<linkVars, serviceVars>>

StartPlaybook(j) ==
    /\ Goto(j, "ready", "check")
    /\ ~MaySkip(j)
    /\ UNCHANGED <<linkVars, local, serviceVars>>

-----------------------------------------------------------------------------
(* install.yml *)

\* Lines 43-56: a release that is there is used as it is, or not at all.
UseExisting(j) ==
    /\ Goto(j, "check", "verify")
    /\ release[local[j].rev] \in Passing
    /\ Assign(j, [local[j] EXCEPT !.existing = TRUE])
    /\ UNCHANGED <<linkVars, serviceVars>>

\* Lines 57-62.
CreateDirectory(j) ==
    /\ Goto(j, "check", "build")
    /\ release[local[j].rev] = "absent"
    /\ release' = [release EXCEPT ![local[j].rev] = "partial"]
    /\ UNCHANGED <<current, previous, local, serviceVars>>

\* Lines 64-102.  What pip installs may turn out not to be importable.
Build(j, outcome) ==
    /\ Goto(j, "build", "verify")
    /\ release' = [release EXCEPT ![local[j].rev] = outcome]
    /\ UNCHANGED <<current, previous, local, serviceVars>>

\* Lines 104-110.
Verify(j) ==
    /\ Goto(j, "verify", "unit")
    /\ release[local[j].rev] \in Passing
    /\ UNCHANGED <<linkVars, local, serviceVars>>

\* Lines 112-121.  Whether the template differs from the unit in place depends
\* on the two revisions.
InstallUnit(j, changed) ==
    /\ Goto(j, "unit", "inspect")
    /\ changed => local[j].manage
    /\ Assign(j, [local[j] EXCEPT !.changed = changed])
    /\ UNCHANGED <<linkVars, serviceVars>>

\* Lines 123-140.
InspectCurrent(j) ==
    /\ Goto(j, "inspect", "preserve")
    /\ Assign(j, [local[j] EXCEPT !.old = current])
    /\ UNCHANGED <<linkVars, serviceVars>>

\* Mutant: previous keeps what it named once it is there.
PreserveFirst(j) ==
    /\ Goto(j, "preserve", "activate")
    /\ previous' = IF previous = NoCommit THEN local[j].old ELSE previous
    /\ UNCHANGED <<release, current, local, serviceVars>>

\* Lines 142-151.
Preserve(j) ==
    /\ Goto(j, "preserve", "activate")
    /\ previous' = IF local[j].old \in {NoCommit, local[j].rev} THEN previous
                   ELSE local[j].old
    /\ UNCHANGED <<release, current, local, serviceVars>>

\* Lines 153-159.
Activate(j) ==
    /\ Goto(j, "activate", "service")
    /\ current' = local[j].rev
    /\ UNCHANGED <<release, previous, local, serviceVars>>

\* The process systemd starts comes from `current` as it is then; with a part
\* of the release missing it does not stay up.
Started == IF current # NoCommit /\ release[current] = "whole" THEN current ELSE NoCommit

\* Lines 161-180, as systemd_service does it: enable, then restart after a
\* build or a new unit, else start what does not run.
EnableService(j) ==
    /\ Goto(j, "service", "start")
    /\ enabled' = (enabled \/ local[j].manage)
    /\ UNCHANGED <<linkVars, local, running>>

Restarts(j) == local[j].changed \/ ~local[j].existing

StartService(j) ==
    /\ pc[j] = "start"
    /\ running' = IF local[j].manage /\ (Restarts(j) \/ running = NoCommit)
                  THEN Started ELSE running
    /\ Leave(j, "idle")
    /\ UNCHANGED <<linkVars, enabled>>

\* A step that fails ends the playbook; so does whoever kills it.  What has
\* been done stays.
Stop(j) ==
    /\ pc[j] \in Steps
    /\ Leave(j, "idle")
    /\ UNCHANGED <<linkVars, serviceVars>>

-----------------------------------------------------------------------------
(* release_prune.py --apply *)

Prune(j) ==
    /\ Enter(j, "plan", NoLocals)
    /\ UNCHANGED <<linkVars, serviceVars>>

\* Mutant: only the active release is protected.
ActiveOnly == {current}

Protected == {current, previous}

\* inventory(): both links resolve, `previous` if it is there at all.
\* Entries that are no releases are the business of Stop.
Resolves ==
    /\ current # NoCommit
    /\ \A c \in Protected \ {NoCommit} : release[c] # "absent"

\* Mutant: without a previous release its missing link is listed.
CandidatesUnseen ==
    {c \in (Commit \cup {NoCommit}) \ {current} : c \in Commit \ Protected => release[c] # "absent"}

\* The links are all that protects a release: inventory() looks for no other
\* reference to it, "installed CLI references" (README.md:120) included.
Candidates == {c \in Commit \ Protected : release[c] # "absent"}

\* Lines 77-88.
Plan(j) ==
    /\ Goto(j, "plan", "prune")
    /\ Resolves
    /\ Cardinality(Candidates) <= Limit
    /\ Assign(j, [local[j] EXCEPT !.todo = Candidates])
    /\ UNCHANGED <<linkVars, serviceVars>>

\* Lines 90-104: each candidate is looked up again before it is removed.  The
\* lock keeps them what they were, so none is ever skipped.
RemoveRelease(j, c) ==
    /\ c \in local[j].todo
    /\ Resolves
    /\ c \in Candidates
    /\ Goto(j, "prune", "prune")
    /\ release' = [release EXCEPT ![c] = "absent"]
    /\ Assign(j, [local[j] EXCEPT !.todo = @ \ {c}])
    /\ UNCHANGED <<current, previous, serviceVars>>

\* Mutant: an error ends the loop and is not reported.
RemovalStopsUnreported(j, c) ==
    /\ pc[j] = "prune"
    /\ c \in local[j].todo
    /\ Resolves
    /\ c \in Candidates
    /\ \E rest \in {"partial", "damaged"} :
          /\ rest = "damaged" => release[c] \in Passing
          /\ release' = [release EXCEPT ![c] = rest]
    /\ Leave(j, "completed")
    /\ UNCHANGED <<current, previous, serviceVars>>

\* Lines 105-107, or a kill: rmtree stops anywhere, and in no known order.
RemovalStops(j, c) ==
    /\ pc[j] = "prune"
    /\ c \in local[j].todo
    /\ Resolves
    /\ c \in Candidates
    /\ \E rest \in {"partial", "damaged"} :
          /\ rest = "damaged" => release[c] \in Passing
          /\ release' = [release EXCEPT ![c] = rest]
    /\ Leave(j, "idle")
    /\ UNCHANGED <<current, previous, serviceVars>>

\* Line 108.
PruneCompletes(j) ==
    /\ pc[j] = "prune"
    /\ local[j].todo = {}
    /\ Leave(j, "completed")
    /\ UNCHANGED <<linkVars, serviceVars>>

-----------------------------------------------------------------------------
(* systemd *)

ServiceDies ==
    /\ running # NoCommit
    /\ running' = NoCommit
    /\ UNCHANGED <<linkVars, lock, pc, local, enabled>>

\* Restart=on-failure, or a boot.
ServiceStarts ==
    /\ enabled
    /\ running = NoCommit
    /\ Started # NoCommit
    /\ running' = Started
    /\ UNCHANGED <<linkVars, lock, pc, local, enabled>>

-----------------------------------------------------------------------------
Install(j) ==
    \/ \E c \in Commit, args, manage \in BOOLEAN : Deploy(j, c, args, manage)
    \/ Skip(j) \/ StartPlaybook(j)
    \/ UseExisting(j) \/ CreateDirectory(j)
    \/ \E outcome \in {"partial", "whole"} : Build(j, outcome)
    \/ Verify(j)
    \/ \E changed \in BOOLEAN : InstallUnit(j, changed)
    \/ InspectCurrent(j) \/ Preserve(j) \/ Activate(j)
    \/ EnableService(j) \/ StartService(j)

PruneReleases(j) ==
    \/ Prune(j) \/ Plan(j)
    \/ \E c \in Commit : RemoveRelease(j, c) \/ RemovalStops(j, c)
    \/ PruneCompletes(j)

Service == ServiceDies \/ ServiceStarts

Next == Service \/ \E j \in Job : Install(j) \/ PruneReleases(j) \/ Stop(j)

Spec == Init /\ [][Next]_vars
-----------------------------------------------------------------------------
(* Safety *)

\* The links name releases that pass the check, whatever was built, removed or
\* interrupted ("Verify installed release before activation", install.yml:104;
\* inventory() protects both).
LinksResolve ==
    \A c \in {current, previous} \ {NoCommit} : release[c] \in Passing

\* A pruning that reports success leaves nothing that inventory() would list as
\* a candidate: no removal that failed, stopped halfway or was overtaken is
\* passed over (execute(), lines 89-108).  Whether the candidates are the right
\* ones it does not say: see Candidates.
PruneIsThorough ==
    [][\A j \in Job : pc[j] = "prune" /\ pc'[j] = "completed" => Candidates = {}]_vars

\* Every switch leaves the release it leaves as `previous`, and removals keep
\* off both, at every step of every job: an installation that stops between
\* lines 142 and 153 has lost the older release, never the active one.
Links == INSTANCE ReleaseLinks WITH
    intact <- {c \in Commit : release[c] \in Passing}

LinksKept == Links!LinksSpec

\* A deployment is skipped only when the release it would install is at work
\* (deploy.sh:25).
SkipIsHealthy ==
    \A j \in Job : pc[j] = "ready" /\ MaySkip(j) => running = local[j].rev
=============================================================================
