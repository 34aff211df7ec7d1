SPECIFICATION Spec
CHECK_DEADLOCK FALSE
CONSTANTS
  Slugs = {s1, s2}
  Instances = {i1}
  Requests = {r1, r2, r3}
  MaxVersion = 2
  MaxSubmissions = 2
INVARIANTS VersionsInOrder InstancesAgree
