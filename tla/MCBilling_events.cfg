SPECIFICATION FairSpec
CONSTANTS
  s1 = s1  s2 = s2  t1 = t1  t2 = t2
  p1 = p1  p2 = p2  c1 = c1
  Subs = {s1, s2}
  Charges = {t1, t2}
  Plans = {p1, p2}
  Cancels = {c1}
  Null = Null
INVARIANT AccessIsInvoiced
PROPERTIES ChargesAreInvoiced CancellationSettles
