SPECIFICATION Spec
CONSTANTS
  Persons = {p1, p2}
  PortalUsers = {p2}
  Sites = {s1}
  AllSites = AllSites
  Nobody = Nobody
INVARIANTS
  HeadingAgrees
  SeesOwnChange
