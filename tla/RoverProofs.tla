----------------------------- MODULE RoverProofs -----------------------------
(***************************************************************************)
(* Safety of the updater and of the service around it, for every history   *)
(* of commits, any number of runs and any number of mishaps; and the       *)
(* watchdog's two promises, for every value of its limits.                 *)
(*                                                                         *)
(* InstallIsBranch speaks of the time between runs.  The invariant adds    *)
(* what each step of a run finds: where the branch, its files and the      *)
(* install are, and what the way back needs.                               *)
(***************************************************************************)
EXTENDS RoverService, Integers, TLAPS

Sound == tree = ref /\ install \in {"none", ref}

\* What a run finds at each of its places.
Finds(r) ==
  /\ at[r] = "check" => (broken \/ Sound)
  /\ at[r] \in {"fetch", "compare"} => tree = ref /\ old[r] = ref /\ (broken \/ Sound)
  /\ at[r] = "tree" => /\ ref = target[r] /\ tree = old[r]
                       /\ broken \/ install \in {"none", old[r]}
  /\ at[r] = "build" => ref = target[r] /\ tree = ref
  /\ at[r] = "rollbackRef" => ref = target[r]
  /\ at[r] = "rollbackTree" => ref = old[r]
  /\ at[r] = "rebuild" => ref = old[r] /\ tree = ref

OneRun == \A r, s \in Runs : (at[r] # "idle" /\ at[s] # "idle") => r = s

UpdaterInv ==
  /\ UpdaterTypeOK
  /\ OneRun
  /\ Descends(ref, local)
  /\ \A r \in Runs : Descends(old[r], local)
  /\ \A r \in Runs : Finds(r)
  /\ (~Locked /\ ~broken) => Sound

-----------------------------------------------------------------------------
(***************************************************************************)
(* The updater.                                                            *)
(***************************************************************************)
LEMMA DescendsFromItself ==
  ASSUME NEW c \in Commits
  PROVE  Descends(c, c)
BY CommitAssumption DEF Descends

LEMMA DescendsThrough ==
  ASSUME NEW c \in Commits, NEW d \in Commits, NEW e \in Commits,
         Descends(c, d), Descends(d, e)
  PROVE  Descends(c, e)
BY CommitAssumption DEF Descends

\* A run that goes on to a place, or begins, is the only one.
LEMMA Alone ==
  ASSUME UpdaterInv, NEW r \in Runs, NEW place \in Places,
         at[r] # "idle" \/ ~Locked, at' = [at EXCEPT ![r] = place]
  PROVE  /\ at' \in [Runs -> Places] /\ at'[r] = place
         /\ \A s \in Runs : s # r => at'[s] = "idle"
<1>1. at \in [Runs -> Places]
  BY DEF UpdaterInv, UpdaterTypeOK
<1>2. \A s \in Runs : s # r => at[s] = "idle"
  BY DEF UpdaterInv, OneRun, Locked
<1>. QED
  BY <1>1, <1>2

LEMMA Moves ==
  ASSUME UpdaterInv, NEW r \in Runs, NEW place \in Places,
         at[r] # "idle" \/ ~Locked, at' = [at EXCEPT ![r] = place],
         UpdaterTypeOK', local' = local,
         Descends(ref', local), \A s \in Runs : Descends(old'[s], local),
         Finds(r)', place = "idle" => (broken' \/ Sound')
  PROVE  UpdaterInv'
<1>1. /\ at' \in [Runs -> Places] /\ at'[r] = place
      /\ \A s \in Runs : s # r => at'[s] = "idle"
  BY Alone
<1>2. OneRun'
  BY <1>1 DEF OneRun
<1>3. \A s \in Runs : Finds(s)'
  <2>. SUFFICES ASSUME NEW s \in Runs, s # r
                PROVE  Finds(s)'
    OBVIOUS
  <2>1. at'[s] = "idle"
    BY <1>1
  <2>. QED
    BY <2>1 DEF Finds
<1>4. (~Locked /\ ~broken)' => Sound'
  BY <1>1 DEF Locked
<1>. QED
  BY <1>2, <1>3, <1>4 DEF UpdaterInv, Descends

\* What the end of a run does to the variables of the runs.
LEMMA EndTyped ==
  ASSUME UpdaterInv, NEW r \in Runs, at[r] # "idle", End(r)
  PROVE  /\ at' = [at EXCEPT ![r] = "idle"] /\ at' \in [Runs -> Places]
         /\ at'[r] = "idle" /\ "idle" \in Places
         /\ old' \in [Runs -> Commits] /\ target' \in [Runs -> Commits]
         /\ \A s \in Runs : Descends(old'[s], local)
<1>1. "idle" \in Places /\ at' = [at EXCEPT ![r] = "idle"]
  BY DEF Places, End
<1>2. local \in Commits /\ old \in [Runs -> Commits] /\ target \in [Runs -> Commits]
  BY DEF UpdaterInv, UpdaterTypeOK
<1>3. old' = [old EXCEPT ![r] = local] /\ target' = [target EXCEPT ![r] = local]
  BY DEF End
<1>4. \A s \in Runs : Descends(old'[s], local)
  BY <1>2, <1>3, DescendsFromItself DEF UpdaterInv
<1>5. old' \in [Runs -> Commits] /\ target' \in [Runs -> Commits]
  BY <1>2, <1>3
<1>. QED
  BY <1>1, <1>4, <1>5, Alone

\* A run ends and leaves a branch that keeps the operator's commit.
LEMMA Ends ==
  ASSUME UpdaterInv, NEW r \in Runs, at[r] # "idle", End(r), local' = local,
         ref' \in Commits, Descends(ref', local),
         tree' \in Commits \cup {"mixed"}, install' \in Commits \cup {"mixed", "none"},
         broken' \in BOOLEAN, mishaps' \in 0..MaxMishaps,
         broken' \/ Sound'
  PROVE  UpdaterInv'
<1>1. /\ at' = [at EXCEPT ![r] = "idle"] /\ at' \in [Runs -> Places]
      /\ at'[r] = "idle" /\ "idle" \in Places
      /\ old' \in [Runs -> Commits] /\ target' \in [Runs -> Commits]
      /\ \A s \in Runs : Descends(old'[s], local)
  BY EndTyped
<1>2. UpdaterTypeOK'
  BY <1>1 DEF UpdaterInv, UpdaterTypeOK
<1>3. Finds(r)'
  BY <1>1 DEF Finds
<1>. QED
  BY <1>1, <1>2, <1>3, Moves

\* A run goes on; its commits stay.
LEMMA GoesOn ==
  ASSUME UpdaterInv, NEW r \in Runs, NEW place \in Places \ {"idle"},
         at[r] # "idle" \/ ~Locked, GoTo(r, place), Keep, local' = local,
         ref' \in Commits, Descends(ref', local),
         tree' \in Commits \cup {"mixed"}, install' \in Commits \cup {"mixed", "none"},
         broken' \in BOOLEAN, mishaps' = mishaps,
         at'[r] = place => Finds(r)'
  PROVE  UpdaterInv'
<1>1. at' = [at EXCEPT ![r] = place] /\ old' = old /\ target' = target
  BY DEF GoTo, Keep
<1>2. at' \in [Runs -> Places] /\ at'[r] = place
  BY <1>1, Alone
<1>3. UpdaterTypeOK'
  BY <1>1, <1>2 DEF UpdaterInv, UpdaterTypeOK
<1>4. \A s \in Runs : Descends(old'[s], local)
  BY <1>1 DEF UpdaterInv
<1>. QED
  BY <1>1, <1>2, <1>3, <1>4, Moves

LEMMA Typed ==
  ASSUME UpdaterInv, NEW r \in Runs
  PROVE  /\ ref \in Commits /\ local \in Commits
         /\ tree \in Commits \cup {"mixed"}
         /\ install \in Commits \cup {"mixed", "none"}
         /\ old[r] \in Commits /\ target[r] \in Commits
         /\ broken \in BOOLEAN /\ mishaps \in 0..MaxMishaps
         /\ Descends(ref, local) /\ Descends(old[r], local)
         /\ Finds(r)
BY DEF UpdaterInv, UpdaterTypeOK

LEMMA BeginStep ==
  ASSUME UpdaterInv, NEW r \in Runs, Begin(r)
  PROVE  UpdaterInv'
<1>1. UNCHANGED <<clone, old, target, local, broken, mishaps>> /\ at[r] = "idle"
  BY DEF Begin
<1>2. CASE Locked
  <2>1. at' = at
    BY <1>2 DEF Begin
  <2>. QED
    BY <1>1, <2>1 DEF UpdaterInv, UpdaterTypeOK, OneRun, Finds, Locked, Sound, clone
<1>3. CASE ~Locked
  <2>1. GoTo(r, "check") /\ Keep /\ "check" \in Places \ {"idle"}
    BY <1>1, <1>3 DEF Begin, Keep, Places
  <2>2. broken \/ Sound
    BY <1>3 DEF UpdaterInv
  <2>3. at'[r] = "check" => Finds(r)'
    BY <1>1, <2>2 DEF Finds, Sound, clone
  <2>4. UNCHANGED <<ref, tree, install, local, broken, mishaps>>
    BY <1>1 DEF clone
  <2>. QED
    BY <1>3, <2>1, <2>3, <2>4, Typed, GoesOn
<1>. QED
  BY <1>2, <1>3

LEMMA CheckStep ==
  ASSUME UpdaterInv, NEW r \in Runs, Check(r)
  PROVE  UpdaterInv'
<1>1. at[r] = "check" /\ UNCHANGED <<ref, tree, install, local, broken, mishaps>>
  BY DEF Check, clone
<1>2. Finds(r) /\ (broken \/ Sound)
  BY <1>1, Typed DEF Finds
<1>3. CASE tree = ref
  <2>1. /\ at' = [at EXCEPT ![r] = "fetch"] /\ old' = [old EXCEPT ![r] = ref]
        /\ target' = target
    BY <1>3 DEF Check, GoTo
  <2>2. "fetch" \in Places /\ at[r] # "idle"
    BY <1>1 DEF Places
  <2>3. at' \in [Runs -> Places] /\ at'[r] = "fetch"
    BY <2>1, <2>2, Alone
  <2>4. old' \in [Runs -> Commits] /\ old'[r] = ref
    BY <2>1, Typed DEF UpdaterInv, UpdaterTypeOK
  <2>5. UpdaterTypeOK'
    BY <1>1, <2>1, <2>3, <2>4 DEF UpdaterInv, UpdaterTypeOK
  <2>6. \A s \in Runs : Descends(old'[s], local)
    BY <2>1, Typed DEF UpdaterInv, UpdaterTypeOK
  <2>7. Finds(r)'
    BY <1>1, <1>2, <1>3, <2>3, <2>4 DEF Finds, Sound
  <2>. QED
    BY <1>1, <2>1, <2>2, <2>5, <2>6, <2>7, Typed, Moves
<1>4. CASE tree # ref
  <2>1. End(r) /\ broken'
    BY <1>1, <1>2, <1>4 DEF Check, Sound
  <2>. QED
    BY <1>1, <2>1, Typed, Ends
<1>. QED
  BY <1>3, <1>4

\* A run that ends before it has touched anything.
LEMMA EndsUntouched ==
  ASSUME UpdaterInv, NEW r \in Runs, at[r] \in {"fetch", "compare"}, End(r),
         UNCHANGED <<clone, local, broken, mishaps>>
  PROVE  UpdaterInv'
<1>1. UNCHANGED <<ref, tree, install>> /\ at[r] # "idle"
  BY DEF clone
<1>2. broken' \/ Sound'
  BY <1>1, Typed DEF Finds, Sound
<1>. QED
  BY <1>1, <1>2, Typed, Ends

LEMMA FetchStep ==
  ASSUME UpdaterInv, NEW r \in Runs, Fetch(r)
  PROVE  UpdaterInv'
<1>1. /\ at[r] = "fetch" /\ at' = [at EXCEPT ![r] = "compare"]
      /\ UNCHANGED <<ref, tree, install, old, local, broken, mishaps>>
  BY DEF Fetch, GoTo, clone
<1>2. "compare" \in Places /\ at[r] # "idle"
  BY <1>1 DEF Places
<1>3. at' \in [Runs -> Places] /\ at'[r] = "compare"
  BY <1>1, <1>2, Alone
<1>4. target' \in [Runs -> Commits]
  BY DEF Fetch, UpdaterInv, UpdaterTypeOK
<1>5. UpdaterTypeOK'
  BY <1>1, <1>3, <1>4 DEF UpdaterInv, UpdaterTypeOK
<1>6. Finds(r)'
  BY <1>1, <1>3, Typed DEF Finds, Sound
<1>7. \A s \in Runs : Descends(old'[s], local)
  BY <1>1 DEF UpdaterInv
<1>. QED
  BY <1>1, <1>2, <1>5, <1>6, <1>7, Typed, Moves

LEMMA AlreadyCurrentStep ==
  ASSUME UpdaterInv, NEW r \in Runs, AlreadyCurrent(r)
  PROVE  UpdaterInv'
<1>1. /\ at[r] = "compare" /\ old[r] = target[r]
      /\ UNCHANGED <<clone, local, broken, mishaps>>
  BY DEF AlreadyCurrent
<1>2. CASE install # "none"
  BY <1>1, <1>2, EndsUntouched DEF AlreadyCurrent
<1>3. CASE install = "none"
  <2>1. GoTo(r, "build") /\ Keep /\ "build" \in Places \ {"idle"}
    BY <1>3 DEF AlreadyCurrent, Places
  <2>2. at'[r] = "build" => Finds(r)'
    BY <1>1, <2>1, Typed DEF Finds, Keep, clone
  <2>3. UNCHANGED <<ref, tree, install, local, broken, mishaps>> /\ at[r] # "idle"
    BY <1>1 DEF clone
  <2>. QED
    BY <2>1, <2>2, <2>3, Typed, GoesOn
<1>. QED
  BY <1>2, <1>3

LEMMA AdvanceRefStep ==
  ASSUME UpdaterInv, NEW r \in Runs, AdvanceRef(r)
  PROVE  UpdaterInv'
<1>1. /\ at[r] = "compare" /\ at[r] # "idle" /\ FastForwards(r)
      /\ UNCHANGED <<tree, install, local, broken, mishaps>>
  BY DEF AdvanceRef
<1>2. tree = ref /\ old[r] = ref /\ (broken \/ Sound)
  BY <1>1, Typed DEF Finds
<1>3. ref' = target[r] /\ GoTo(r, "tree") /\ Keep /\ "tree" \in Places \ {"idle"}
  BY <1>2 DEF AdvanceRef, Places
<1>4. Descends(target[r], old[r])
  BY <1>1 DEF FastForwards
<1>5. Descends(ref', local)
  BY <1>3, <1>4, Typed, DescendsThrough
<1>6. at'[r] = "tree" => Finds(r)'
  BY <1>1, <1>2, <1>3 DEF Finds, Sound, Keep
<1>. QED
  BY <1>1, <1>3, <1>5, <1>6, Typed, GoesOn

LEMMA ReadTreeStep ==
  ASSUME UpdaterInv, NEW r \in Runs, ReadTree(r)
  PROVE  UpdaterInv'
<1>1. /\ at[r] = "tree" /\ at[r] # "idle" /\ tree' = target[r] /\ GoTo(r, "build") /\ Keep
      /\ "build" \in Places \ {"idle"}
      /\ UNCHANGED <<ref, install, local, broken, mishaps>>
  BY DEF ReadTree, Keep, Places
<1>2. at'[r] = "build" => Finds(r)'
  BY <1>1, Typed DEF Finds, Keep
<1>. QED
  BY <1>1, <1>2, Typed, GoesOn

LEMMA ReadTreeFailsStep ==
  ASSUME UpdaterInv, NEW r \in Runs, ReadTreeFails(r)
  PROVE  UpdaterInv'
<1>1. /\ at[r] = "tree" /\ at[r] # "idle" /\ tree' \in {old[r], "mixed"}
      /\ broken' = (broken \/ tree' = "mixed") /\ End(r)
      /\ UNCHANGED <<install, local, mishaps>>
  BY DEF ReadTreeFails
<1>2. ref = target[r] /\ (broken \/ install \in {"none", old[r]})
  BY <1>1, Typed DEF Finds
<1>3. ref' = old[r]
  BY <1>2 DEF ReadTreeFails
<1>4. broken' \/ Sound'
  BY <1>1, <1>2, <1>3 DEF Sound
<1>5. broken' \in BOOLEAN
  BY <1>1
<1>. QED
  BY <1>1, <1>3, <1>4, <1>5, Typed, Ends

LEMMA BuildStep ==
  ASSUME UpdaterInv, NEW r \in Runs, Build(r)
  PROVE  UpdaterInv'
<1>1. /\ at[r] \in {"build", "rebuild"} /\ at[r] # "idle"
      /\ install' = tree /\ broken' = FALSE /\ End(r)
      /\ UNCHANGED <<ref, tree, local, mishaps>>
  BY DEF Build
<1>2. tree = ref
  BY <1>1, Typed DEF Finds
<1>3. (broken' \/ Sound') /\ broken' \in BOOLEAN
  BY <1>1, <1>2 DEF Sound
<1>. QED
  BY <1>1, <1>2, <1>3, Typed, Ends

LEMMA CutShortTyped ==
  ASSUME UpdaterInv
  PROVE  CutShort(install) \subseteq Commits \cup {"mixed", "none"}
BY DEF CutShort, UpdaterInv, UpdaterTypeOK

LEMMA BuildFailsStep ==
  ASSUME UpdaterInv, NEW r \in Runs, BuildFails(r)
  PROVE  UpdaterInv'
<1>1. /\ at[r] \in {"build", "rebuild"} /\ at[r] # "idle"
      /\ install' \in Commits \cup {"mixed", "none"}
      /\ UNCHANGED <<ref, tree, local, mishaps>>
  BY CutShortTyped DEF BuildFails
<1>2. CASE at[r] = "build" /\ old[r] # target[r]
  <2>1. /\ GoTo(r, "rollbackRef") /\ Keep /\ broken' = broken
        /\ "rollbackRef" \in Places \ {"idle"}
    BY <1>2 DEF BuildFails, Places
  <2>2. at'[r] = "rollbackRef" => Finds(r)'
    BY <1>1, <1>2, <2>1, Typed DEF Finds, Keep
  <2>. QED
    BY <1>1, <2>1, <2>2, Typed, GoesOn
<1>3. CASE ~(at[r] = "build" /\ old[r] # target[r])
  <2>1. End(r) /\ broken' = TRUE
    BY <1>3 DEF BuildFails
  <2>2. broken' \in BOOLEAN /\ (broken' \/ Sound')
    BY <2>1
  <2>. QED
    BY <1>1, <2>1, <2>2, Typed, Ends
<1>. QED
  BY <1>2, <1>3

LEMMA RollbackRefStep ==
  ASSUME UpdaterInv, NEW r \in Runs, RollbackRef(r)
  PROVE  UpdaterInv'
<1>1. /\ at[r] = "rollbackRef" /\ at[r] # "idle" /\ UNCHANGED <<tree, install, local, mishaps>>
  BY DEF RollbackRef
<1>2. ref = target[r]
  BY <1>1, Typed DEF Finds
<1>3. /\ ref' = old[r] /\ GoTo(r, "rollbackTree") /\ Keep /\ broken' = broken
      /\ "rollbackTree" \in Places \ {"idle"}
  BY <1>2 DEF RollbackRef, Places
<1>4. at'[r] = "rollbackTree" => Finds(r)'
  BY <1>3 DEF Finds, Keep
<1>. QED
  BY <1>1, <1>3, <1>4, Typed, GoesOn

LEMMA RollbackTreeStep ==
  ASSUME UpdaterInv, NEW r \in Runs, RollbackTree(r)
  PROVE  UpdaterInv'
<1>1. /\ at[r] = "rollbackTree" /\ at[r] # "idle" /\ UNCHANGED <<ref, install, local, mishaps>>
  BY DEF RollbackTree
<1>2. CASE tree' = old[r] /\ GoTo(r, "rebuild") /\ Keep /\ UNCHANGED broken
  <2>1. "rebuild" \in Places \ {"idle"}
    BY DEF Places
  <2>2. at'[r] = "rebuild" => Finds(r)'
    BY <1>1, <1>2, Typed DEF Finds, Keep
  <2>. QED
    BY <1>1, <1>2, <2>1, <2>2, Typed, GoesOn
<1>3. CASE tree' = "mixed" /\ End(r) /\ broken' = TRUE
  <2>1. broken' \in BOOLEAN /\ (broken' \/ Sound')
    BY <1>3
  <2>. QED
    BY <1>1, <1>3, <2>1, Typed, Ends
<1>. QED
  BY <1>2, <1>3 DEF RollbackTree

LEMMA KillStep ==
  ASSUME UpdaterInv, NEW r \in Runs, at[r] # "idle", KillEffect(r), Mishap
  PROVE  UpdaterInv'
<1>1. /\ tree' \in Commits \cup {"mixed"} /\ install' \in Commits \cup {"mixed", "none"}
      /\ UNCHANGED <<ref, local>> /\ End(r)
  BY Typed, CutShortTyped DEF KillEffect, KilledTree, KilledInstall
<1>2. broken' = (broken \/ at[r] \in {"tree", "build", "rollbackRef", "rollbackTree",
                                      "rebuild"})
  BY DEF KillEffect
<1>3. broken' \in BOOLEAN
  BY <1>2
<1>4. mishaps' \in 0..MaxMishaps
  BY Typed, UpdaterBoundAssumption DEF Mishap
<1>5. broken' \/ Sound'
  <2>1. CASE at[r] \in {"check", "fetch", "compare"}
    <3>1. tree' = tree /\ install' = install
      BY <2>1 DEF KillEffect, KilledTree, KilledInstall
    <3>. QED
      BY <1>1, <1>2, <2>1, <3>1, Typed DEF Finds, Sound
  <2>2. CASE at[r] \notin {"check", "fetch", "compare"}
    <3>1. at[r] \in Places
      BY DEF UpdaterInv, UpdaterTypeOK
    <3>. QED
      BY <1>2, <2>2, <3>1 DEF Places
  <2>. QED
    BY <2>1, <2>2
<1>. QED
  BY <1>1, <1>3, <1>4, <1>5, Typed, Ends

LEMMA UpdaterStepKeeps ==
  ASSUME UpdaterInv, NEW r \in Runs, UpdaterStep(r)
  PROVE  UpdaterInv'
<1>1. CASE FetchOffline(r)
  BY <1>1, EndsUntouched DEF FetchOffline
<1>2. CASE Refuse(r)
  BY <1>2, EndsUntouched DEF Refuse
<1>. QED
  BY <1>1, <1>2, CheckStep, FetchStep, AlreadyCurrentStep, AdvanceRefStep, ReadTreeStep,
     ReadTreeFailsStep, BuildStep, BuildFailsStep, RollbackRefStep, RollbackTreeStep
  DEF UpdaterStep

\* Steps of the service that leave the updater alone.
LEMMA UpdaterAlone ==
  ASSUME UpdaterInv, UNCHANGED <<clone, at, old, target, local, broken>>,
         mishaps' \in 0..MaxMishaps
  PROVE  UpdaterInv'
BY DEF UpdaterInv, UpdaterTypeOK, OneRun, Finds, Locked, Sound, clone, Descends

LEMMA InitUpdater ==
  ASSUME UpdaterInit
  PROVE  UpdaterInv
<1>1. PICK c \in Clones : ref = c[1] /\ install = c[2]
  BY DEF UpdaterInit
<1>2. ref \in Commits /\ install \in {"none", ref}
  BY <1>1, CloneAssumption
<1>3. "idle" \in Places
  BY DEF Places
<1>4. mishaps \in 0..MaxMishaps
  BY UpdaterBoundAssumption DEF UpdaterInit
<1>5. UpdaterTypeOK
  BY <1>2, <1>3, <1>4 DEF UpdaterInit, UpdaterTypeOK
<1>6. \A r \in Runs : at[r] = "idle" /\ old[r] = ref
  BY DEF UpdaterInit
<1>7. Descends(ref, local) /\ (\A r \in Runs : Descends(old[r], local))
  BY <1>2, <1>6, DescendsFromItself DEF UpdaterInit
<1>8. OneRun /\ \A r \in Runs : Finds(r)
  BY <1>6 DEF OneRun, Finds
<1>9. Sound
  BY <1>2 DEF Sound, UpdaterInit
<1>. QED
  BY <1>5, <1>7, <1>8, <1>9 DEF UpdaterInv

-----------------------------------------------------------------------------
(***************************************************************************)
(* The service around it.                                                  *)
(***************************************************************************)
LEMMA PowerLossKeepsUpdater ==
  ASSUME UpdaterInv, PowerLoss
  PROVE  UpdaterInv'
<1>1. Mishap
  BY DEF PowerLoss
<1>2. CASE Locked
  <2>1. PICK r \in Runs : at[r] # "idle" /\ KillEffect(r)
    BY <1>2 DEF PowerLoss
  <2>. QED
    BY <1>1, <2>1, KillStep
<1>3. CASE ~Locked
  <2>1. UNCHANGED <<clone, at, old, target, local, broken>>
    BY <1>3 DEF PowerLoss
  <2>2. mishaps' \in 0..MaxMishaps
    BY <1>1, UpdaterBoundAssumption DEF Mishap, UpdaterInv, UpdaterTypeOK
  <2>. QED
    BY <2>1, <2>2, UpdaterAlone
<1>. QED
  BY <1>2, <1>3

LEMMA NextKeepsUpdater ==
  ASSUME UpdaterInv, [RoverNext]_roverVars
  PROVE  UpdaterInv'
<1>1. ASSUME UNCHANGED updaterVars
      PROVE  UpdaterInv'
  <2>1. UNCHANGED <<clone, at, old, target, local, broken>> /\ mishaps' = mishaps
    BY <1>1 DEF updaterVars
  <2>2. mishaps' \in 0..MaxMishaps
    BY <2>1 DEF UpdaterInv, UpdaterTypeOK
  <2>. QED
    BY <2>1, <2>2, UpdaterAlone
<1>2. CASE StartUpdater
  BY <1>2, BeginStep, ServiceAssumption DEF StartUpdater
<1>3. CASE StartStack \/ Pass \/ MonitorStarts \/ RestartDue \/ CheckSecond
  BY <1>1, <1>3 DEF StartStack, Pass, MonitorStarts, RestartDue, CheckSecond
<1>4. CASE Fault
  <2>1. mishaps' \in 0..MaxMishaps
    BY <1>4, UpdaterBoundAssumption DEF Fault, Mishap, UpdaterInv, UpdaterTypeOK
  <2>2. UNCHANGED <<clone, at, old, target, local, broken>>
    BY <1>4 DEF Fault
  <2>. QED
    BY <2>1, <2>2, UpdaterAlone
<1>5. CASE PowerLoss
  BY <1>5, PowerLossKeepsUpdater
<1>6. ASSUME NEW r \in Runs, UpdaterRuns(r)
      PROVE  UpdaterInv'
  <2>1. CASE UpdaterStep(r)
    BY <2>1, UpdaterStepKeeps
  <2>2. CASE Kill(r)
    BY <2>2, KillStep DEF Kill
  <2>. QED
    BY <1>6, <2>1, <2>2 DEF UpdaterRuns
<1>7. ASSUME NEW r \in Runs, StartByHand(r)
      PROVE  UpdaterInv'
  BY <1>7, BeginStep DEF StartByHand
<1>8. CASE UNCHANGED roverVars
  BY <1>1, <1>8 DEF roverVars
<1>. QED
  BY <1>2, <1>3, <1>4, <1>5, <1>6, <1>7, <1>8 DEF RoverNext

\* The updater's invariant, in the service, for every history of commits, any
\* number of runs and of mishaps.
THEOREM UpdaterInvariance == RoverSpec => []UpdaterInv
<1>1. RoverInit => UpdaterInv
  BY InitUpdater DEF RoverInit
<1>2. UpdaterInv /\ [RoverNext]_roverVars => UpdaterInv'
  BY NextKeepsUpdater
<1>. QED
  BY <1>1, <1>2, PTL DEF RoverSpec

\* Between runs the branch, its files and its install are of one commit, unless
\* a run was cut short.
THEOREM InstallOfBranch == RoverSpec => []InstallIsBranch
<1>1. UpdaterInv => InstallIsBranch
  BY DEF UpdaterInv, InstallIsBranch, Sound
<1>. QED
  BY <1>1, UpdaterInvariance, PTL

\* No push and no cut loses the commit the operator left.
THEOREM CommitKept == RoverSpec => []LocalCommitKept
<1>1. UpdaterInv => LocalCommitKept
  BY DEF UpdaterInv, LocalCommitKept
<1>. QED
  BY <1>1, UpdaterInvariance, PTL

\* What is built is the commit the branch names.
THEOREM BranchBuilt == RoverSpec => []BuildsTheBranch
<1>1. UpdaterInv => BuildsTheBranch
  BY DEF UpdaterInv, BuildsTheBranch, Finds
<1>. QED
  BY <1>1, UpdaterInvariance, PTL

-----------------------------------------------------------------------------
(***************************************************************************)
(* The watchdog and systemd's start limit, for every value of the limits.  *)
(* What both theorems need is an account of time: the checks that failed   *)
(* were paid for with seconds of silence, and the starts of the window     *)
(* with seconds of the window.                                             *)
(***************************************************************************)
ServiceTyped ==
  /\ MonitorTypeOK
  /\ phase \in {"starting", "updating", "booting", "running", "waiting", "abandoned"}
  /\ clock \in Nat
  /\ starts \in 0..StartBurst /\ windowAge \in 0..StartInterval
  /\ exits \in BOOLEAN
  /\ phase = "booting" => clock <= StartDelay
  /\ phase = "waiting" => clock <= RestartSec
  /\ phase \in {"starting", "updating", "booting"} => uptime = 0 /\ failures = 0
  /\ phase = "running" => failures < RequiredFailures
  /\ failures > 0 => uptime = StartupGrace

-----------------------------------------------------------------------------
(***************************************************************************)
(* Types.                                                                  *)
(***************************************************************************)
LEMMA Capped ==
  ASSUME NEW n \in Nat, NEW limit \in Nat
  PROVE  /\ Cap(n, limit) \in 0..limit
         /\ n < limit => Cap(n, limit) = n
         /\ n >= limit => Cap(n, limit) = limit
BY DEF Cap

LEMMA PatienceTyped == Patience = Threshold + RequiredFailures - 1 /\ Patience \in Nat
BY WatchdogAssumption DEF Patience

\* What a second does to the monitor.
LEMMA SecondTyped ==
  ASSUME ServiceTyped, phase = "running",
         NEW cmd \in BOOLEAN, NEW imu \in BOOLEAN,
         NEW state \in {navigation, "safe", "driving"},
         Second(cmd, imu, state), UNCHANGED monitorConfig
  PROVE  /\ MonitorTypeOK'
         /\ failures' = 0 \/ (failures' = failures + 1 /\ uptime' = StartupGrace)
         /\ uptime' = uptime \/ uptime' = uptime + 1
         /\ windowAge \in Nat
<1>1. /\ uptime \in 0..StartupGrace /\ failures \in 0..RequiredFailures
      /\ cmdAge \in 0..TooOld /\ imuAge \in 0..TooOld
      /\ quiet \in 0..Patience /\ failures < RequiredFailures
      /\ navigation \in {"none", "safe", "driving"} /\ windowAge \in Nat
  BY ServiceAssumption DEF ServiceTyped, MonitorTypeOK
<1>2. /\ StartupGrace \in Nat \ {0} /\ Threshold \in Nat \ {0}
      /\ RequiredFailures \in Nat \ {0} /\ TooOld \in Nat
  BY WatchdogAssumption DEF TooOld
<1>3. uptime' \in 0..StartupGrace /\ (uptime' = uptime \/ uptime' = uptime + 1)
  BY <1>1, <1>2 DEF Second, Cap
<1>4. failures' = 0 \/ (failures' = failures + 1 /\ ~(uptime' < StartupGrace))
  <2>1. (uptime' < StartupGrace \/ ~Unsatisfied) => failures' = 0
    BY DEF Second, Evaluate
  <2>2. ~(uptime' < StartupGrace \/ ~Unsatisfied) => failures' = failures + 1
    BY DEF Second, Evaluate
  <2>. QED
    BY <2>1, <2>2
<1>5. failures' = 0 \/ (failures' = failures + 1 /\ uptime' = StartupGrace)
  BY <1>2, <1>3, <1>4
<1>6. cmdAge' \in 0..TooOld /\ imuAge' \in 0..TooOld
  <2>1. /\ cmdAge' \in {0, Cap(cmdAge + 1, TooOld)}
        /\ imuAge' \in {0, Cap(imuAge + 1, TooOld)}
    BY DEF Second, Hear
  <2>2. Cap(cmdAge + 1, TooOld) \in 0..TooOld /\ Cap(imuAge + 1, TooOld) \in 0..TooOld
    <3>1. cmdAge + 1 \in Nat /\ imuAge + 1 \in Nat
      BY <1>1, <1>2
    <3>. QED
      BY <1>2, <3>1, Capped
  <2>3. 0 \in 0..TooOld
    BY <1>2
  <2>. QED
    BY <2>1, <2>2, <2>3
<1>7. quiet' \in 0..Patience
  <2>1. quiet' = IF (cmd \/ manual) /\ (imu \/ ~imuEnabled) THEN 0
                 ELSE Cap(quiet + 1, Patience)
    BY DEF Second
  <2>2. Cap(quiet + 1, Patience) \in 0..Patience
    <3>1. quiet + 1 \in Nat /\ Patience \in Nat
      BY <1>1, PatienceTyped
    <3>. QED
      BY <3>1, Capped
  <2>. QED
    BY <2>1, <2>2, PatienceTyped
<1>8. failures' \in 0..RequiredFailures
  BY <1>1, <1>2, <1>5
<1>9. /\ navigation' \in {"none", "safe", "driving"}
      /\ manual' \in BOOLEAN /\ imuEnabled' \in BOOLEAN
      /\ controllerHung' \in BOOLEAN /\ imuEnded' \in BOOLEAN
  BY <1>1 DEF Second, monitorConfig, ServiceTyped, MonitorTypeOK
<1>. QED
  BY <1>1, <1>3, <1>5, <1>6, <1>7, <1>8, <1>9 DEF MonitorTypeOK, TooOld, Patience

LEMMA FreshTyped ==
  ASSUME ServiceTyped, Restarted, UNCHANGED monitorConfig
  PROVE  MonitorTypeOK' /\ uptime' = 0 /\ failures' = 0
<1>1. 0 \in 0..StartupGrace /\ 0 \in 0..RequiredFailures /\ TooOld \in 0..TooOld
      /\ 0 \in 0..Patience
  BY WatchdogAssumption, PatienceTyped DEF TooOld
<1>2. manual' \in BOOLEAN /\ imuEnabled' \in BOOLEAN
  BY DEF monitorConfig, ServiceTyped, MonitorTypeOK
<1>. QED
  BY <1>1, <1>2 DEF Restarted, MonitorTypeOK, TooOld, Patience

LEMMA OlderTyped ==
  ASSUME ServiceTyped, Older
  PROVE  windowAge' \in 0..StartInterval /\ starts' = starts
BY Capped, ServiceAssumption DEF ServiceTyped, Older

LEMMA MonitorKept ==
  ASSUME ServiceTyped, UNCHANGED <<monitorConfig, monitorVars>>
  PROVE  MonitorTypeOK' /\ uptime' = uptime /\ failures' = failures
BY DEF ServiceTyped, MonitorTypeOK, monitorConfig, monitorVars, TooOld, Patience

LEMMA StackTyped ==
  ASSUME ServiceTyped, StartStack
  PROVE  ServiceTyped'
<1>1. /\ phase = "updating" /\ UNCHANGED <<monitorConfig, monitorVars, exits>>
  BY DEF StartStack
<1>2. MonitorTypeOK' /\ uptime' = uptime /\ failures' = failures
  BY <1>1, MonitorKept
<1>3. StartDelay \in Nat /\ StartInterval \in Nat /\ StartBurst \in Nat \ {0}
  BY ServiceAssumption
<1>4. CASE TooManyStarts
  BY <1>1, <1>2, <1>4 DEF StartStack, startLimit, ServiceTyped
<1>5. CASE ~TooManyStarts
  <2>1. phase' = "booting" /\ clock' = StartDelay /\ CountStart
    BY <1>5 DEF StartStack
  <2>2. starts' \in 0..StartBurst /\ windowAge' \in 0..StartInterval
    BY <1>3, <1>5, <2>1 DEF CountStart, TooManyStarts, ServiceTyped
  <2>. QED
    BY <1>1, <1>2, <1>3, <2>1, <2>2 DEF ServiceTyped
<1>. QED
  BY <1>4, <1>5

LEMMA CheckTyped ==
  ASSUME ServiceTyped, CheckSecond
  PROVE  ServiceTyped'
<1>1. phase = "running" /\ Older /\ UNCHANGED <<monitorConfig, exits>>
  BY DEF CheckSecond, Followed
<1>2. PICK cmd \in BOOLEAN, imu \in BOOLEAN, state \in {navigation, "safe", "driving"} :
        Second(cmd, imu, state)
  BY DEF CheckSecond
<1>3. /\ MonitorTypeOK'
      /\ failures' = 0 \/ (failures' = failures + 1 /\ uptime' = StartupGrace)
  BY <1>1, <1>2, SecondTyped
<1>4. failures' > 0 => uptime' = StartupGrace
  BY <1>3
<1>5. windowAge' \in 0..StartInterval /\ starts' = starts
  BY <1>1, OlderTyped
<1>6. CASE Exhausted
  <2>1. phase' = "waiting" /\ clock' = RestartSec /\ RestartSec \in Nat
    BY <1>6, ServiceAssumption DEF CheckSecond, Shutdown
  <2>. QED
    BY <1>1, <1>3, <1>4, <1>5, <2>1 DEF ServiceTyped
<1>7. CASE ~Exhausted
  <2>1. phase' = phase /\ clock' = clock
    BY <1>7 DEF CheckSecond
  <2>2. failures' \in Nat /\ failures' < RequiredFailures
    BY <1>3, <1>7, WatchdogAssumption DEF Exhausted, MonitorTypeOK
  <2>. QED
    BY <1>1, <1>3, <1>4, <1>5, <2>1, <2>2 DEF ServiceTyped
<1>. QED
  BY <1>6, <1>7

LEMMA FaultTyped ==
  ASSUME ServiceTyped, Fault
  PROVE  ServiceTyped'
<1>1. UNCHANGED <<monitorConfig, startLimit>>
  BY DEF Fault
<1>2. CASE phase = "running" /\ (HangController \/ EndImu) /\ UNCHANGED <<phase, clock, exits>>
  <2>1. MonitorTypeOK' /\ uptime' = uptime /\ failures' = failures
    BY <1>1, <1>2 DEF HangController, EndImu, ServiceTyped, MonitorTypeOK, monitorConfig,
       TooOld
  <2>. QED
    BY <1>1, <1>2, <2>1 DEF ServiceTyped, startLimit
<1>3. CASE Shutdown /\ exits' = TRUE /\ UNCHANGED monitorVars
  <2>1. MonitorTypeOK' /\ uptime' = uptime /\ failures' = failures
    BY <1>1, <1>3, MonitorKept
  <2>2. phase' = "waiting" /\ clock' = RestartSec /\ RestartSec \in Nat
    BY <1>3, ServiceAssumption DEF Shutdown
  <2>. QED
    BY <1>1, <1>3, <2>1, <2>2 DEF ServiceTyped, startLimit
<1>. QED
  BY <1>2, <1>3 DEF Fault

LEMMA NextTyped ==
  ASSUME ServiceTyped, [RoverNext]_roverVars
  PROVE  ServiceTyped'
<1>1. ASSUME UNCHANGED <<monitorConfig, monitorVars, serviceVars>>
      PROVE  ServiceTyped'
  <2>1. MonitorTypeOK' /\ uptime' = uptime /\ failures' = failures
    BY <1>1, MonitorKept
  <2>. QED
    BY <1>1, <2>1 DEF ServiceTyped, serviceVars, startLimit
<1>2. CASE StartUpdater
  <2>1. MonitorTypeOK' /\ uptime' = uptime /\ failures' = failures
    BY <1>2, MonitorKept DEF StartUpdater
  <2>. QED
    BY <1>2, <2>1 DEF StartUpdater, ServiceTyped, startLimit
<1>3. CASE Pass
  <2>1. MonitorTypeOK' /\ uptime' = uptime /\ failures' = failures
    BY <1>3, MonitorKept DEF Pass
  <2>2. windowAge' \in 0..StartInterval /\ starts' = starts
    BY <1>3, OlderTyped DEF Pass
  <2>3. clock' \in Nat /\ clock' <= clock
    BY <1>3 DEF Pass, ServiceTyped
  <2>4. (phase = "booting" => clock' <= StartDelay)
        /\ (phase = "waiting" => clock' <= RestartSec)
    BY <2>3, ServiceAssumption DEF ServiceTyped
  <2>. QED
    BY <1>3, <2>1, <2>2, <2>3, <2>4 DEF Pass, ServiceTyped
<1>4. CASE MonitorStarts
  <2>1. MonitorTypeOK' /\ uptime' = uptime /\ failures' = failures
    BY <1>4, MonitorKept DEF MonitorStarts
  <2>. QED
    BY <1>4, <2>1, WatchdogAssumption DEF MonitorStarts, ServiceTyped, startLimit
<1>5. CASE RestartDue
  <2>1. MonitorTypeOK' /\ uptime' = 0 /\ failures' = 0
    BY <1>5, FreshTyped DEF RestartDue
  <2>. QED
    BY <1>5, <2>1 DEF RestartDue, ServiceTyped, startLimit
<1>6. CASE PowerLoss
  <2>1. MonitorTypeOK' /\ uptime' = 0 /\ failures' = 0
    BY <1>6, FreshTyped DEF PowerLoss
  <2>2. 0 \in 0..StartBurst /\ 0 \in 0..StartInterval
    BY ServiceAssumption
  <2>3. /\ phase' = "starting" /\ clock' = 0 /\ starts' = 0 /\ windowAge' = 0
        /\ exits' = FALSE
    BY <1>6 DEF PowerLoss
  <2>4. exits' \in BOOLEAN
    BY <2>3
  <2>. QED
    BY <2>1, <2>2, <2>3, <2>4 DEF ServiceTyped
<1>7. ASSUME NEW r \in Runs, UpdaterRuns(r) \/ StartByHand(r)
      PROVE  ServiceTyped'
  BY <1>1, <1>7 DEF UpdaterRuns, StartByHand
<1>8. CASE UNCHANGED roverVars
  BY <1>1, <1>8 DEF roverVars
<1>. QED
  BY <1>2, <1>3, <1>4, <1>5, <1>6, <1>7, <1>8, StackTyped, CheckTyped, FaultTyped
  DEF RoverNext

LEMMA InitTyped == RoverInit => ServiceTyped
<1>. SUFFICES ASSUME RoverInit PROVE ServiceTyped
  OBVIOUS
<1>1. 0 \in 0..StartupGrace /\ 0 \in 0..RequiredFailures /\ TooOld \in 0..TooOld
      /\ 0 \in 0..Patience
      /\ 0 \in 0..StartBurst /\ 0 \in 0..StartInterval
  BY WatchdogAssumption, ServiceAssumption, PatienceTyped DEF TooOld
<1>2. manual \in BOOLEAN /\ imuEnabled \in BOOLEAN
  BY WatchdogAssumption DEF RoverInit, MonitorInit
<1>3. MonitorTypeOK
  BY <1>1, <1>2 DEF RoverInit, MonitorInit, Fresh, MonitorTypeOK
<1>4. /\ phase = "starting" /\ clock = 0 /\ starts = 0 /\ windowAge = 0
      /\ exits = FALSE /\ uptime = 0 /\ failures = 0
  BY DEF RoverInit, MonitorInit, Fresh
<1>5. exits \in BOOLEAN
  BY <1>4
<1>. QED
  BY <1>1, <1>3, <1>4, <1>5 DEF ServiceTyped

LEMMA ServiceTypes == RoverSpec => []ServiceTyped
BY InitTyped, NextTyped, PTL DEF RoverSpec

-----------------------------------------------------------------------------
(***************************************************************************)
(* Pauses.  Ages that no message set back are no shorter than the silence, *)
(* but for those of a new monitor, which the grace period covers.          *)
(***************************************************************************)
QuietLong ==
  /\ failures > 0 => quiet >= Threshold + failures - 1
  /\ ~manual => cmdAge <= quiet \/ uptime <= quiet \/ TooOld <= quiet
  /\ imuEnabled => imuAge <= quiet \/ uptime <= quiet \/ TooOld <= quiet

\* A second without both streams counts towards the silence.
LEMMA SecondIsQuiet ==
  ASSUME ServiceTyped, QuietLong, StartupGrace >= Threshold, phase = "running",
         NEW cmd \in BOOLEAN, NEW imu \in BOOLEAN,
         NEW state \in {navigation, "safe", "driving"},
         Second(cmd, imu, state), UNCHANGED monitorConfig
  PROVE  QuietLong'
<1>1. /\ uptime \in 0..StartupGrace /\ failures \in Nat /\ failures < RequiredFailures
      /\ cmdAge \in 0..TooOld /\ imuAge \in 0..TooOld
      /\ quiet \in 0..Patience
  BY WatchdogAssumption DEF ServiceTyped, MonitorTypeOK
<1>2. /\ StartupGrace \in Nat \ {0} /\ Threshold \in Nat \ {0}
      /\ RequiredFailures \in Nat \ {0} /\ TooOld = Threshold
      /\ Patience = Threshold + RequiredFailures - 1 /\ Patience \in Nat
  BY WatchdogAssumption, PatienceTyped DEF TooOld
<1>3. /\ uptime' = uptime + 1 \/ (uptime = StartupGrace /\ uptime' = uptime)
      /\ manual' = manual /\ imuEnabled' = imuEnabled
      /\ uptime' \in Nat
  BY <1>1, <1>2 DEF Second, Cap, monitorConfig
<1>4. quiet' = 0 \/ quiet' = quiet + 1 \/ quiet' = Patience
  BY <1>1, <1>2 DEF Second, Cap
<1>5. /\ cmdAge' = 0 \/ cmdAge' = cmdAge + 1 \/ (cmdAge >= TooOld /\ cmdAge' = TooOld)
      /\ imuAge' = 0 \/ imuAge' = imuAge + 1 \/ (imuAge >= TooOld /\ imuAge' = TooOld)
  BY <1>1, <1>2 DEF Second, Hear, Cap
<1>6. ASSUME ~manual, cmdAge' # 0
      PROVE  quiet' # 0
  <2>1. ~cmd
    BY <1>6 DEF Second, Hear
  <2>2. quiet' = Cap(quiet + 1, Patience)
    BY <1>6, <2>1 DEF Second
  <2>. QED
    BY <1>1, <1>2, <2>2 DEF Cap
<1>7. ASSUME imuEnabled, imuAge' # 0
      PROVE  quiet' # 0
  <2>1. ~imu
    BY <1>7 DEF Second, Hear
  <2>2. quiet' = Cap(quiet + 1, Patience)
    BY <1>7, <2>1 DEF Second
  <2>. QED
    BY <1>1, <1>2, <2>2 DEF Cap
<1>8. TooOld' = TooOld
  BY DEF TooOld
<1>9. ~manual' => cmdAge' <= quiet' \/ uptime' <= quiet' \/ TooOld' <= quiet'
  <2>. SUFFICES ASSUME ~manual, cmdAge' # 0
                PROVE  cmdAge' <= quiet' \/ uptime' <= quiet' \/ TooOld <= quiet'
    BY <1>1, <1>2, <1>3, <1>4, <1>8
  <2>1. quiet' = quiet + 1 \/ quiet' = Patience
    BY <1>4, <1>6
  <2>2. CASE quiet' = Patience
    BY <1>2, <2>2
  <2>3. CASE quiet' = quiet + 1
    <3>1. cmdAge <= quiet \/ uptime <= quiet \/ TooOld <= quiet
      BY DEF QuietLong
    <3>2. cmdAge' <= cmdAge + 1 /\ uptime' <= uptime + 1
      BY <1>1, <1>2, <1>3, <1>5
    <3>3. cmdAge' \in Nat
      BY <1>1, <1>2, <1>5
    <3>. QED
      BY <1>1, <1>2, <1>3, <2>3, <3>1, <3>2, <3>3
  <2>. QED
    BY <2>1, <2>2, <2>3
<1>10. imuEnabled' => imuAge' <= quiet' \/ uptime' <= quiet' \/ TooOld' <= quiet'
  <2>. SUFFICES ASSUME imuEnabled, imuAge' # 0
                PROVE  imuAge' <= quiet' \/ uptime' <= quiet' \/ TooOld <= quiet'
    BY <1>1, <1>2, <1>3, <1>4, <1>8
  <2>1. quiet' = quiet + 1 \/ quiet' = Patience
    BY <1>4, <1>7
  <2>2. CASE quiet' = Patience
    BY <1>2, <2>2
  <2>3. CASE quiet' = quiet + 1
    <3>1. imuAge <= quiet \/ uptime <= quiet \/ TooOld <= quiet
      BY DEF QuietLong
    <3>2. imuAge' <= imuAge + 1 /\ uptime' <= uptime + 1
      BY <1>1, <1>2, <1>3, <1>5
    <3>3. imuAge' \in Nat
      BY <1>1, <1>2, <1>5
    <3>. QED
      BY <1>1, <1>2, <1>3, <2>3, <3>1, <3>2, <3>3
  <2>. QED
    BY <2>1, <2>2, <2>3
<1>11. failures' > 0 => quiet' >= Threshold + failures' - 1
  <2>. SUFFICES ASSUME failures' > 0
                PROVE  quiet' >= Threshold + failures' - 1
    OBVIOUS
  <2>1. failures' = failures + 1 /\ uptime' = StartupGrace
    BY SecondTyped, <1>2
  <2>2. Unsatisfied
    BY <1>2 DEF Second, Evaluate
  <2>3. (~manual /\ cmdAge' = TooOld) \/ (imuEnabled /\ imuAge' = TooOld)
    BY <1>3, <2>2 DEF Unsatisfied, CmdVelStale, ImuStale
  <2>4. quiet' # 0 /\ quiet' \in Nat
    BY <1>1, <1>2, <1>4, <1>6, <1>7, <2>3
  <2>5. quiet' >= TooOld
    BY <1>1, <1>2, <1>3, <1>8, <1>9, <1>10, <2>1, <2>3, <2>4
  <2>6. CASE failures = 0
    BY <1>2, <2>1, <2>4, <2>5, <2>6
  <2>7. CASE failures > 0
    <3>1. quiet >= Threshold + failures - 1
      BY <2>7 DEF QuietLong
    <3>. QED
      BY <1>1, <1>2, <1>4, <2>1, <2>4, <3>1
  <2>. QED
    BY <1>1, <2>6, <2>7
<1>. QED
  BY <1>9, <1>10, <1>11 DEF QuietLong

LEMMA FreshIsQuiet ==
  ASSUME Restarted
  PROVE  QuietLong'
<1>1. failures' = 0 /\ uptime' = 0 /\ quiet' = 0
  BY DEF Restarted
<1>. QED
  BY <1>1 DEF QuietLong

LEMMA NextIsQuiet ==
  ASSUME ServiceTyped, QuietLong, StartupGrace >= Threshold, [RoverNext]_roverVars
  PROVE  QuietLong'
<1>1. ASSUME UNCHANGED <<uptime, failures, cmdAge, imuAge, quiet, monitorConfig>>
      PROVE  QuietLong'
  BY <1>1 DEF QuietLong, monitorConfig, TooOld
<1>2. CASE CheckSecond
  BY <1>2, SecondIsQuiet DEF CheckSecond, Followed
<1>3. CASE RestartDue \/ PowerLoss
  BY <1>3, FreshIsQuiet DEF RestartDue, PowerLoss
<1>4. CASE StartUpdater \/ StartStack \/ Pass \/ MonitorStarts
  BY <1>1, <1>4 DEF StartUpdater, StartStack, Pass, MonitorStarts, monitorVars
<1>5. CASE Fault
  BY <1>1, <1>5 DEF Fault, HangController, EndImu, monitorVars
<1>6. ASSUME NEW r \in Runs, UpdaterRuns(r) \/ StartByHand(r)
      PROVE  QuietLong'
  BY <1>1, <1>6 DEF UpdaterRuns, StartByHand, monitorVars
<1>7. CASE UNCHANGED roverVars
  BY <1>1, <1>7 DEF roverVars, monitorVars
<1>. QED
  BY <1>2, <1>3, <1>4, <1>5, <1>6, <1>7 DEF RoverNext

\* The watchdog ends the stack only after as much silence as both limits ask,
\* whatever they are, if the grace period is not shorter than the threshold.
THEOREM ForgivesPauses ==
  ASSUME StartupGrace >= Threshold
  PROVE  RoverSpec => PauseForgiven
<1>1. RoverInit => QuietLong
  BY DEF RoverInit, MonitorInit, Fresh, QuietLong
<1>2. ServiceTyped /\ QuietLong /\ [RoverNext]_roverVars => QuietLong'
  BY NextIsQuiet
<1>3. ASSUME ServiceTyped, ServiceTyped', QuietLong', [RoverNext]_roverVars,
             phase = "running", phase' = "waiting", exits' = exits, failures' # failures
      PROVE  quiet' = Patience
  <2>1. CheckSecond
    BY <1>3 DEF RoverNext, StartUpdater, StartStack, Pass, MonitorStarts, RestartDue, Fault,
       PowerLoss, UpdaterRuns, StartByHand, HangController, EndImu, monitorVars, serviceVars,
       roverVars, Shutdown
  <2>2. failures' >= RequiredFailures
    BY <1>3, <2>1 DEF CheckSecond, Exhausted
  <2>3. /\ quiet' \in 0..Patience
        /\ failures' \in 0..RequiredFailures
    BY <1>3 DEF ServiceTyped, MonitorTypeOK
  <2>4. failures' = RequiredFailures /\ failures' > 0
    BY <2>2, <2>3, WatchdogAssumption
  <2>5. quiet' >= Threshold + failures' - 1
    BY <1>3, <2>4 DEF QuietLong
  <2>. QED
    BY <2>3, <2>4, <2>5, WatchdogAssumption, PatienceTyped
<1>4. ServiceTyped /\ ServiceTyped' /\ QuietLong' /\ [RoverNext]_roverVars
      => [(phase = "running" /\ phase' = "waiting" /\ exits' = exits
           /\ failures' # failures)
          => quiet' = Patience]_roverVars
  BY <1>3
<1>. QED
  BY <1>1, <1>2, <1>4, ServiceTypes, PTL DEF RoverSpec, PauseForgiven

-----------------------------------------------------------------------------
(***************************************************************************)
(* The start limit.  A start that the watchdog ends has lasted a Cycle, so *)
(* the window is as old as its starts before the last make it, and what    *)
(* has passed since that one.                                              *)
(***************************************************************************)
Cycle == StartDelay + StartupGrace + (RequiredFailures - 1) + RestartSec

Elapsed ==
  CASE phase = "booting" -> StartDelay - clock
    [] phase = "running" ->
         StartDelay + uptime + (IF failures > 0 THEN failures - 1 ELSE 0)
    [] phase = "waiting" -> Cycle - clock
    [] OTHER -> Cycle

WindowPays ==
  ~exits => windowAge = StartInterval \/ windowAge >= (starts - 1) * Cycle + Elapsed

LEMMA CycleTyped == Cycle \in Nat
BY WatchdogAssumption, ServiceAssumption DEF Cycle

LEMMA OneMore ==
  ASSUME NEW n \in Nat
  PROVE  /\ (n - 1) * Cycle \in Int
         /\ (n - 1) * Cycle + Cycle = n * Cycle
         /\ ((n + 1) - 1) * Cycle = n * Cycle
         /\ (1 - 1) * Cycle = 0 /\ (0 - 1) * Cycle + Cycle = 0
<1>. DEFINE c == Cycle
<1>1. c \in Nat
  BY CycleTyped
<1>. HIDE DEF c
<1>2. /\ (n - 1) * c \in Int
      /\ (n - 1) * c + c = n * c
      /\ ((n + 1) - 1) * c = n * c
      /\ (1 - 1) * c = 0 /\ (0 - 1) * c + c = 0
  BY <1>1
<1>. QED
  BY <1>2 DEF c

\* A second, or a moment, in which no more elapses than the window ages.
LEMMA WindowAges ==
  ASSUME ServiceTyped, WindowPays, exits' = exits, starts' = starts,
         Elapsed \in Int, Elapsed' \in Int,
         \/ windowAge' = windowAge /\ Elapsed' <= Elapsed
         \/ Older /\ Elapsed' <= Elapsed + 1
  PROVE  WindowPays'
<1>. DEFINE before == (starts - 1) * Cycle
            was == Elapsed
            is == Elapsed'
            is_age == windowAge'
<1>1. before \in Int
  BY OneMore DEF ServiceTyped
<1>2. windowAge \in 0..StartInterval /\ StartInterval \in Nat
  BY ServiceAssumption DEF ServiceTyped
<1>3. Cycle' = Cycle
  BY DEF Cycle
<1>4. SUFFICES ASSUME ~exits
               PROVE  is_age = StartInterval \/ is_age >= before + is
  BY <1>3 DEF WindowPays
<1>5. windowAge = StartInterval \/ windowAge >= before + was
  BY <1>4 DEF WindowPays
<1>6. \/ is_age = windowAge /\ is <= was
      \/ (is_age = windowAge + 1 \/ is_age = StartInterval) /\ is <= was + 1
  BY <1>2 DEF Older, Cap
<1>7. windowAge = StartInterval => is_age = StartInterval
  BY <1>2 DEF Older, Cap
<1>8. was \in Int /\ is \in Int
  OBVIOUS
<1>. HIDE DEF before, was, is, is_age
<1>. QED
  BY <1>1, <1>2, <1>5, <1>6, <1>7, <1>8

LEMMA CheckPays ==
  ASSUME ServiceTyped, ServiceTyped', WindowPays, CheckSecond
  PROVE  WindowPays'
<1>1. phase = "running" /\ Older /\ UNCHANGED exits
  BY DEF CheckSecond, Followed
<1>2. starts' = starts
  BY <1>1, OlderTyped
<1>3. PICK cmd \in BOOLEAN, imu \in BOOLEAN, state \in {navigation, "safe", "driving"} :
        Second(cmd, imu, state)
  BY DEF CheckSecond
<1>4. /\ failures' = 0 \/ (failures' = failures + 1 /\ uptime' = StartupGrace)
      /\ uptime' = uptime \/ uptime' = uptime + 1
  BY <1>1, <1>3, SecondTyped DEF CheckSecond
<1>5. /\ uptime \in Nat /\ uptime <= StartupGrace /\ failures \in Nat
      /\ failures > 0 => uptime = StartupGrace
      /\ StartupGrace \in Nat /\ RequiredFailures \in Nat \ {0}
      /\ StartDelay \in Nat /\ RestartSec \in Nat /\ Cycle \in Nat
  BY WatchdogAssumption, ServiceAssumption, CycleTyped DEF ServiceTyped, MonitorTypeOK
<1>6. Elapsed = StartDelay + uptime + (IF failures > 0 THEN failures - 1 ELSE 0)
  BY <1>1 DEF Elapsed
<1>7. CASE ~Exhausted
  <2>1. Elapsed' = StartDelay + uptime' + (IF failures' > 0 THEN failures' - 1 ELSE 0)
    BY <1>1, <1>7 DEF CheckSecond, Elapsed
  <2>2. Elapsed \in Int /\ Elapsed' \in Int /\ Elapsed' <= Elapsed + 1
    BY <1>4, <1>5, <1>6, <2>1
  <2>. QED
    BY <1>1, <1>2, <2>2, WindowAges
<1>8. CASE Exhausted
  <2>1. phase' = "waiting" /\ clock' = RestartSec
    BY <1>8 DEF CheckSecond, Shutdown
  <2>2. Cycle' = Cycle
    BY DEF Cycle
  <2>3. Elapsed' = Cycle - RestartSec
    BY <2>1, <2>2 DEF Elapsed
  <2>4. failures' = RequiredFailures
    BY <1>4, <1>5, <1>8 DEF Exhausted, ServiceTyped, MonitorTypeOK
  <2>5. failures' = failures + 1 /\ uptime' = StartupGrace
    BY <1>4, <1>5, <2>4
  <2>6. Cycle - RestartSec = StartDelay + StartupGrace + (RequiredFailures - 1)
    BY <1>5 DEF Cycle
  <2>7. Elapsed \in Int /\ Elapsed' \in Int /\ Elapsed' <= Elapsed + 1
    BY <1>4, <1>5, <1>6, <2>3, <2>4, <2>5, <2>6
  <2>. QED
    BY <1>1, <1>2, <2>7, WindowAges
<1>. QED
  BY <1>7, <1>8

LEMMA StackPays ==
  ASSUME ServiceTyped, WindowPays, StartStack
  PROVE  WindowPays'
<1>1. phase = "updating" /\ UNCHANGED exits
  BY DEF StartStack
<1>2. Elapsed = Cycle
  BY <1>1 DEF Elapsed
<1>3. starts \in Nat /\ windowAge \in Nat /\ Cycle' = Cycle /\ Cycle \in Nat
      /\ StartDelay \in Nat
  BY ServiceAssumption, CycleTyped DEF ServiceTyped, Cycle
<1>4. CASE TooManyStarts
  <2>1. phase' = "abandoned" /\ UNCHANGED <<starts, windowAge>>
    BY <1>4 DEF StartStack, startLimit
  <2>2. Elapsed' = Cycle
    BY <1>3, <2>1 DEF Elapsed
  <2>. QED
    BY <1>1, <1>2, <1>3, <2>1, <2>2 DEF WindowPays
<1>5. CASE ~TooManyStarts
  <2>1. phase' = "booting" /\ clock' = StartDelay /\ CountStart
    BY <1>5 DEF StartStack
  <2>2. Elapsed' = 0
    BY <1>3, <2>1 DEF Elapsed
  <2>3. CASE starts' = 1 /\ windowAge' = 0
    <3>1. (starts' - 1) * Cycle = 0
      BY <1>3, <2>3, OneMore
    <3>. QED
      BY <1>3, <2>2, <2>3, <3>1 DEF WindowPays
  <2>4. CASE starts' = starts + 1 /\ windowAge' = windowAge
    <3>1. (starts' - 1) * Cycle = starts * Cycle
      BY <1>3, <2>4, OneMore
    <3>2. (starts - 1) * Cycle + Cycle = starts * Cycle /\ (starts - 1) * Cycle \in Int
      BY <1>3, OneMore
    <3>3. starts * Cycle \in Int
      BY <1>3, <3>2
    <3>. QED
      BY <1>1, <1>2, <1>3, <2>2, <2>4, <3>1, <3>2, <3>3 DEF WindowPays
  <2>. QED
    BY <2>1, <2>3, <2>4 DEF CountStart
<1>. QED
  BY <1>4, <1>5

LEMMA PowerPays ==
  ASSUME PowerLoss
  PROVE  WindowPays'
<1>1. phase' = "starting" /\ starts' = 0 /\ windowAge' = 0
  BY DEF PowerLoss
<1>2. Cycle' = Cycle
  BY DEF Cycle
<1>3. Elapsed' = Cycle
  BY <1>1, <1>2 DEF Elapsed
<1>4. (0 - 1) * Cycle + Cycle = 0
  BY OneMore
<1>5. (starts' - 1) * Cycle' + Elapsed' = 0
  BY <1>1, <1>2, <1>3, <1>4
<1>. QED
  BY <1>1, <1>5 DEF WindowPays

LEMMA NextPays ==
  ASSUME ServiceTyped, ServiceTyped', WindowPays, [RoverNext]_roverVars
  PROVE  WindowPays'
<1>1. Cycle' = Cycle /\ Cycle \in Nat /\ clock \in Nat /\ uptime \in Nat /\ failures \in Nat
      /\ StartDelay \in Nat
  BY ServiceAssumption, WatchdogAssumption, CycleTyped
  DEF ServiceTyped, MonitorTypeOK, Cycle
<1>2. Elapsed \in Int
  BY <1>1 DEF Elapsed
<1>3. ASSUME Elapsed' = Elapsed, UNCHANGED <<exits, starts, windowAge>>
      PROVE  WindowPays'
  BY <1>2, <1>3, WindowAges
<1>4. CASE StartUpdater
  BY <1>1, <1>3, <1>4 DEF StartUpdater, startLimit, Elapsed
<1>5. CASE Pass
  <2>1. Elapsed' = Elapsed + 1
    BY <1>1, <1>5 DEF Pass, Elapsed
  <2>2. starts' = starts /\ exits' = exits /\ Older
    BY <1>5 DEF Pass, Older
  <2>. QED
    BY <1>2, <2>1, <2>2, WindowAges
<1>6. CASE MonitorStarts
  <2>1. uptime' = 0 /\ failures' = 0 /\ phase = "booting" /\ clock = 0 /\ phase' = "running"
    BY <1>6 DEF MonitorStarts, monitorVars, ServiceTyped
  <2>2. Elapsed' = Elapsed
    BY <1>1, <2>1 DEF Elapsed
  <2>. QED
    BY <1>3, <1>6, <2>2 DEF MonitorStarts, startLimit
<1>7. CASE RestartDue
  <2>1. Elapsed' = Elapsed
    BY <1>1, <1>7 DEF RestartDue, Elapsed
  <2>. QED
    BY <1>3, <1>7, <2>1 DEF RestartDue, startLimit
<1>8. CASE Fault
  <2>1. CASE exits' = TRUE
    BY <2>1 DEF WindowPays
  <2>2. CASE UNCHANGED <<phase, clock, uptime, failures, exits>>
    <3>1. Elapsed' = Elapsed
      BY <1>1, <2>2 DEF Elapsed
    <3>. QED
      BY <1>3, <1>8, <2>2, <3>1 DEF Fault, startLimit
  <2>. QED
    BY <1>8, <2>1, <2>2 DEF Fault, HangController, EndImu
<1>9. ASSUME UNCHANGED <<monitorVars, serviceVars>>
      PROVE  WindowPays'
  <2>1. Elapsed' = Elapsed
    BY <1>1, <1>9 DEF Elapsed, monitorVars, serviceVars
  <2>. QED
    BY <1>3, <1>9, <2>1 DEF serviceVars, startLimit
<1>10. ASSUME NEW r \in Runs, UpdaterRuns(r) \/ StartByHand(r)
       PROVE  WindowPays'
  BY <1>9, <1>10 DEF UpdaterRuns, StartByHand
<1>11. CASE UNCHANGED roverVars
  BY <1>9, <1>11 DEF roverVars
<1>. QED
  BY <1>4, <1>5, <1>6, <1>7, <1>8, <1>10, <1>11, StackPays, CheckPays, PowerPays DEF RoverNext

\* The watchdog alone never exhausts the start limit, if the starts that it
\* allows take at least the interval.
THEOREM NeverAbandons ==
  ASSUME StartBurst * Cycle >= StartInterval
  PROVE  RoverSpec => []WatchdogNeverAbandons
<1>. DEFINE Paid == WindowPays /\ WatchdogNeverAbandons
<1>1. RoverInit => Paid
  <2>. SUFFICES ASSUME RoverInit
                PROVE  Paid
    OBVIOUS
  <2>1. phase = "starting" /\ starts = 0 /\ windowAge = 0
    BY DEF RoverInit
  <2>2. Elapsed = Cycle
    BY <2>1 DEF Elapsed
  <2>3. (0 - 1) * Cycle + Cycle = 0
    BY OneMore
  <2>4. (starts - 1) * Cycle + Elapsed = 0
    BY <2>1, <2>2, <2>3
  <2>. QED
    BY <2>1, <2>4 DEF WindowPays, WatchdogNeverAbandons
<1>2. ASSUME ServiceTyped, Paid, StartStack
      PROVE  WatchdogNeverAbandons'
  <2>1. CASE TooManyStarts
    <3>1. Elapsed = Cycle /\ starts = StartBurst /\ windowAge < StartInterval
      BY <1>2, <2>1 DEF StartStack, Elapsed, TooManyStarts
    <3>2. (starts - 1) * Cycle + Cycle = StartBurst * Cycle
      BY <3>1, OneMore, ServiceAssumption
    <3>3. StartBurst * Cycle \in Int /\ windowAge \in Nat /\ StartInterval \in Nat
      <4>1. StartBurst \in Nat /\ Cycle \in Nat
        BY CycleTyped, ServiceAssumption
      <4>2. StartBurst * Cycle \in Int
        BY <4>1, <3>2, OneMore
      <4>. QED
        BY <1>2, <4>2, ServiceAssumption DEF ServiceTyped
    <3>4. exits
      BY <1>2, <3>1, <3>2, <3>3 DEF WindowPays
    <3>. QED
      BY <1>2, <3>4 DEF StartStack, WatchdogNeverAbandons
  <2>2. CASE ~TooManyStarts
    BY <1>2, <2>2 DEF StartStack, WatchdogNeverAbandons
  <2>. QED
    BY <2>1, <2>2
<1>3. ASSUME ServiceTyped, ServiceTyped', Paid, [RoverNext]_roverVars
      PROVE  Paid'
  <2>1. WindowPays'
    BY <1>3, NextPays
  <2>2. CASE StartStack
    BY <1>2, <1>3, <2>1, <2>2
  <2>3. CASE phase' # "abandoned" \/ (phase' = phase /\ exits' = exits)
    BY <1>3, <2>1, <2>3 DEF WatchdogNeverAbandons
  <2>. QED
    BY <1>3, <2>2, <2>3 DEF RoverNext, StartUpdater, Pass, MonitorStarts, RestartDue,
       CheckSecond, Shutdown, Fault, PowerLoss, UpdaterRuns, StartByHand, serviceVars,
       roverVars, Followed
<1>. QED
  BY <1>1, <1>3, ServiceTypes, PTL DEF RoverSpec
=============================================================================
