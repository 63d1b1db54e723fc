\* A test that rebuilds a mock in an inner context.
SPECIFICATION MCSpec
CONSTANTS
  m1 = m1  m2 = m2  m3 = m3  f = f  g = g  A = A
  a1 = a1  a2 = a2  a3 = a3  s1 = s1  s2 = s2  d1 = d1  v1 = v1  v2 = v2
  f1 = f1  f2 = f2  f3 = f3  v = v  A1 = A1  A2 = A2  A3 = A3  AV = AV
  all = all  some = some
  Orig = Orig
  NoMocker = NoMocker
  Mockers = {m1, m2, m3, a1, a2, a3, s1, s2, d1, v1, v2}
  Keys = {f, g, f1, f2, f3, v}
  Addrs = {A, A1, A2, A3, AV}
  target <- MCTarget
  addr <- MCAddr
  MaxDepth = 3
  VarMockers = {v1, v2}
  Groups = {all, some}
  Iface <- MCIface
  FuncList <- MCFuncList
  MemberOf <- MCMemberOf
  Short = {f3}
  Programs = {"functions"}
  Rules <- Anywhere
PROPERTY CleanupSparesOuterMocks
CHECK_DEADLOCK FALSE
