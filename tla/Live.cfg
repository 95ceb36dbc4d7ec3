SPECIFICATION FairSpec
PROPERTY Reaches
PROPERTY GetsAddress
PROPERTY CallsEnd
PROPERTY WorkGoesOn
CHECK_DEADLOCK FALSE
CONSTANTS
  l1 = l1
  near = near
  far = far
  g1 = g1
  s1 = s1
  s2 = s2
  a1 = a1
  h1 = h1
  h3 = h3
  ns = ns
  gw = gw
  pub1 = pub1
  pub2 = pub2
  www = www
  none = none
  p1 = p1
  k1 = k1
  sub = sub
