SPECIFICATION Spec
INVARIANT TypeOK
INVARIANT PacketsGoRight
INVARIANT ResponsesWhole
INVARIANT TrustIsEarned
INVARIANT ShowsWhatWasAsked
INVARIANT TreeAndStyle
INVARIANT LaidOut
PROPERTY StepsRight
CHECK_DEADLOCK FALSE
CONSTANTS
  Parts = {"ip", "dhcp", "dns", "tcp", "response", "tls", "chain", "page", "numbers", "curves", "sealing", "tree", "sheets", "lines", "tables"}
  l1 = l1
  l2 = l2
  near = near
  far = far
  g1 = g1
  g2 = g2
  sv1 = sv1
  sv2 = sv2
  a1 = a1
  a2 = a2
  ha = ha
  hb = hb
  hc = hc
  ns = ns
  gw = gw
  pub1 = pub1
  pub2 = pub2
  www = www
  none = none
