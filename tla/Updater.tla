------------------------------- MODULE Updater -------------------------------
(***************************************************************************)
(* deployment/update_and_build.sh: fast-forwards the rover's clone to the  *)
(* remote branch and builds it, or returns to the commit it came from.     *)
(* Two runs may meet: the one systemd starts before waverover.service, and *)
(* one started by hand.  The lock on a file dies with its run.             *)
(*                                                                         *)
(* A commit is a value with its set of ancestors.  A source tree or an     *)
(* install is a commit's, or "mixed" when writing it was cut short; the    *)
(* install is "none" before the first build.  Remote name, identity file   *)
(* and branch are checked by the script and never change: they are taken   *)
(* to be right.                                                            *)
(***************************************************************************)
EXTENDS Naturals

CONSTANTS
  Commits,
  Ancestors,       \* the commits each commit contains, itself included
  Runs,            \* runs of the script
  Clones,          \* what the operator may have left: <<branch, install>>
  MaxMishaps       \* bound on the runs killed

ASSUME CommitAssumption ==
  /\ "mixed" \notin Commits /\ "none" \notin Commits
  /\ Ancestors \in [Commits -> SUBSET Commits]
  /\ \A c \in Commits : c \in Ancestors[c]
  /\ \A c, d \in Commits : d \in Ancestors[c] => Ancestors[d] \subseteq Ancestors[c]
ASSUME CloneAssumption ==
  \A c \in Clones : c[1] \in Commits /\ c[2] \in {"none", c[1]}
ASSUME UpdaterBoundAssumption == MaxMishaps \in Nat

VARIABLES
  ref,         \* refs/heads/main
  tree,        \* the index and the files
  install,     \* the workspace's install directory
  at,          \* where each run is, or "idle"
  old,         \* old_commit of each run
  target,      \* target_commit of each run
  local,       \* history: the commit the operator left on the branch
  broken,      \* history: a run was killed, or failed to return, since the
               \* last build that succeeded
  mishaps      \* history: runs killed

clone == <<ref, tree, install>>
updaterVars == <<clone, at, old, target, local, broken, mishaps>>

Places ==
  {"idle", "check", "fetch", "compare", "tree", "build", "rollbackRef",
   "rollbackTree", "rebuild"}

UpdaterInit ==
  /\ \E c \in Clones : ref = c[1] /\ install = c[2]
  /\ tree = ref
  /\ at = [r \in Runs |-> "idle"]
  /\ old = [r \in Runs |-> ref]
  /\ target = [r \in Runs |-> ref]
  /\ local = ref
  /\ broken = FALSE
  /\ mishaps = 0

GoTo(r, place) == at' = [at EXCEPT ![r] = place]
Keep == UNCHANGED <<old, target>>

\* A run ends, and its variables with it.
End(r) ==
  /\ at' = [at EXCEPT ![r] = "idle"]
  /\ old' = [old EXCEPT ![r] = local]
  /\ target' = [target EXCEPT ![r] = local]

Descends(c, d) == d \in Ancestors[c]

-----------------------------------------------------------------------------
\* The lock is held from the first step to the last.
Locked == \E r \in Runs : at[r] # "idle"

Begin(r) ==
  /\ at[r] = "idle"
  /\ IF Locked THEN UNCHANGED at ELSE GoTo(r, "check")
  /\ UNCHANGED <<clone, old, target, local, broken, mishaps>>

\* git status, and the commit to come back to.
Check(r) ==
  /\ at[r] = "check"
  /\ IF tree = ref
     THEN GoTo(r, "fetch") /\ old' = [old EXCEPT ![r] = ref] /\ UNCHANGED target
     ELSE End(r)
  /\ UNCHANGED <<clone, local, broken, mishaps>>

FetchOffline(r) ==
  /\ at[r] = "fetch"
  /\ End(r)
  /\ UNCHANGED <<clone, local, broken, mishaps>>

\* The remote branch may be anywhere: forced pushes are possible.
Fetch(r) ==
  /\ at[r] = "fetch"
  /\ GoTo(r, "compare")
  /\ target' \in {[target EXCEPT ![r] = c] : c \in Commits}
  /\ UNCHANGED <<clone, old, local, broken, mishaps>>

AlreadyCurrent(r) ==
  /\ at[r] = "compare" /\ old[r] = target[r]
  /\ IF install # "none" THEN End(r) ELSE GoTo(r, "build") /\ Keep
  /\ UNCHANGED <<clone, local, broken, mishaps>>

\* Slip: any target but an ancestor is taken.
FastForwardsLoosely(r) == ~Descends(old[r], target[r])

\* The target contains the branch, and the branch not the target.
FastForwards(r) ==
  /\ ~Descends(old[r], target[r])
  /\ Descends(target[r], old[r])

Refuse(r) ==
  /\ at[r] = "compare" /\ old[r] # target[r] /\ ~FastForwards(r)
  /\ End(r)
  /\ UNCHANGED <<clone, local, broken, mishaps>>

\* update-ref compares with the old commit and swaps.
AdvanceRef(r) ==
  /\ at[r] = "compare" /\ old[r] # target[r] /\ FastForwards(r)
  /\ IF ref = old[r] THEN ref' = target[r] /\ GoTo(r, "tree") /\ Keep
     ELSE End(r) /\ UNCHANGED ref
  /\ UNCHANGED <<tree, install, local, broken, mishaps>>

ReadTree(r) ==
  /\ at[r] = "tree"
  /\ tree' = target[r]
  /\ GoTo(r, "build")
  /\ UNCHANGED <<ref, install, old, target, local, broken, mishaps>>

\* read-tree fails: the branch returns, and the tree if that goes well.
ReadTreeFails(r) ==
  /\ at[r] = "tree"
  /\ ref' = IF ref = target[r] THEN old[r] ELSE ref
  /\ tree' \in {old[r], "mixed"}
  /\ broken' = (broken \/ tree' = "mixed")
  /\ End(r)
  /\ UNCHANGED <<install, local, mishaps>>

Build(r) ==
  /\ at[r] \in {"build", "rebuild"}
  /\ install' = tree
  /\ broken' = FALSE
  /\ End(r)
  /\ UNCHANGED <<ref, tree, local, mishaps>>

\* What a build that fails or is killed leaves: a first one may leave no
\* setup.bash, and any may fail before it installs something.
CutShort(was) == {was, "mixed"}

\* Slip: the branch returns without a build.
BuildFailsForGood(r) ==
  /\ at[r] \in {"build", "rebuild"}
  /\ install' \in CutShort(install)
  /\ ref' = old[r] /\ tree' = old[r]
  /\ End(r)
  /\ UNCHANGED <<local, broken, mishaps>>

\* A failed build of a new commit is rolled back; others end the run.
BuildFails(r) ==
  /\ at[r] \in {"build", "rebuild"}
  /\ install' \in CutShort(install)
  /\ IF at[r] = "build" /\ old[r] # target[r]
     THEN GoTo(r, "rollbackRef") /\ Keep /\ UNCHANGED broken
     ELSE End(r) /\ broken' = TRUE
  /\ UNCHANGED <<ref, tree, local, mishaps>>

RollbackRef(r) ==
  /\ at[r] = "rollbackRef"
  /\ IF ref = target[r]
     THEN ref' = old[r] /\ GoTo(r, "rollbackTree") /\ Keep /\ UNCHANGED broken
     ELSE End(r) /\ broken' = TRUE /\ UNCHANGED ref
  /\ UNCHANGED <<tree, install, local, mishaps>>

\* Slip: the old commit is built from the new commit's files.
RollbackTreeForgotten(r) ==
  /\ at[r] = "rollbackTree"
  /\ GoTo(r, "rebuild")
  /\ UNCHANGED <<clone, old, target, local, broken, mishaps>>

RollbackTree(r) ==
  /\ at[r] = "rollbackTree"
  /\ \/ tree' = old[r] /\ GoTo(r, "rebuild") /\ Keep /\ UNCHANGED broken
     \/ tree' = "mixed" /\ End(r) /\ broken' = TRUE
  /\ UNCHANGED <<ref, install, local, mishaps>>

-----------------------------------------------------------------------------
\* What a run that is killed leaves of what it was writing.
KilledTree(r) ==
  IF at[r] \in {"tree", "rollbackTree"} THEN {tree, "mixed"} ELSE {tree}
KilledInstall(r) ==
  IF at[r] \in {"build", "rebuild"} THEN CutShort(install) ELSE {install}

KillEffect(r) ==
  /\ tree' \in KilledTree(r)
  /\ install' \in KilledInstall(r)
  /\ broken' = (broken \/ at[r] \in {"tree", "build", "rollbackRef",
                                     "rollbackTree", "rebuild"})
  /\ End(r)
  /\ UNCHANGED <<ref, local>>

Mishap == mishaps < MaxMishaps /\ mishaps' = mishaps + 1            \* bound

\* The 15 minutes of TimeoutStartSec, or the power, end.
Kill(r) ==
  /\ at[r] # "idle"
  /\ Mishap
  /\ KillEffect(r)

UpdaterStep(r) ==
  \/ Check(r) \/ FetchOffline(r) \/ Fetch(r) \/ AlreadyCurrent(r) \/ Refuse(r)
  \/ AdvanceRef(r) \/ ReadTree(r) \/ ReadTreeFails(r) \/ Build(r)
  \/ BuildFails(r) \/ RollbackRef(r) \/ RollbackTree(r)

UpdaterNext == \E r \in Runs : Begin(r) \/ UpdaterStep(r) \/ Kill(r)

UpdaterSpec == UpdaterInit /\ [][UpdaterNext]_updaterVars

-----------------------------------------------------------------------------
UpdaterTypeOK ==
  /\ ref \in Commits /\ local \in Commits
  /\ tree \in Commits \cup {"mixed"}
  /\ install \in Commits \cup {"mixed", "none"}
  /\ at \in [Runs -> Places]
  /\ old \in [Runs -> Commits] /\ target \in [Runs -> Commits]
  /\ broken \in BOOLEAN
  /\ mishaps \in 0..MaxMishaps

\* Between runs the branch, its files and its install are of one commit, unless
\* a run was killed half-way or could not return.
InstallIsBranch ==
  (~Locked /\ ~broken) => tree = ref /\ install \in {"none", ref}

\* Whatever is pushed to the remote and wherever a run is killed, the commit
\* the operator left on the branch stays part of it.
LocalCommitKept == Descends(ref, local)

\* What is built is a commit, and the one the branch names, however earlier runs
\* ended.
BuildsTheBranch ==
  \A r \in Runs : at[r] \in {"build", "rebuild"} => tree = ref
=============================================================================
