SPECIFICATION Spec
CONSTANTS
  r1 = r1
  r2 = r2
  t1 = t1
  t2 = t2
  t3 = t3
  Robots = {r1, r2}
  Targets = {t1, t2, t3}
  NoPose = NoPose
  NoSnapshot = NoSnapshot
  NoTarget = NoTarget
  NoResult = NoResult
  Timeout = 4
  MaximumSkew = 0
  Depth = 2
  ControlPeriod = 2
  LongestCompute = 2
  SwitchPeriod = 1
  Horizon = 14
SYMMETRY Symmetric
INVARIANT PosesAreRecent
INVARIANT PosesBelongTogether
INVARIANT ResultFitsTheTarget
INVARIANT TargetIsOnTime
INVARIANT TargetStateIsCurrent
