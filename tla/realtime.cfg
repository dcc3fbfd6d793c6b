CONSTANTS
  Sources = {i1, i2}
  Gets = {g1, g2}
  MaxUnread = 1
  MaxChanges = 1
  MaxOutages = 1
  MaxExpiries = 1
  MaxMounts = 2
  NoSource = NoSource
  i1 = i1
  i2 = i2
  g1 = g1
  g2 = g2

SPECIFICATION Spec

INVARIANT NeverStranded CurrentSourceListens
PROPERTY BadgeConverges
