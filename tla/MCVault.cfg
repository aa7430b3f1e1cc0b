SPECIFICATION VaultSpec
CONSTANTS
  h1 = h1  h2 = h2  c1 = c1  t1 = t1  g1 = g1  g2 = g2  g3 = g3  g4 = g4  p1 = p1  p2 = p2  r1 = r1  r2 = r2
  ca = ca  cb = cb  va = va  vb = vb  vc = vc  Top = Top  Free = Free  None = None
  HostId = {h1, h2}
  CredId = {c1}
  TunnelId = {t1}
  HostInputs <- MCHostInputs
  CredInputs <- MCCredInputs
  FormHosts = {h1}
  Auths = {"password", "key"}
  MaxEdits = 2
  Group = {g1, g2, g3, g4}
  Host = {h1}
  GroupId = {g1, g2}
  Row = {r1, r2}
  Proc = {p1, p2}
  Columns <- MCColumns
  Versions <- MCVersions
  NameOrder <- MCVersions
  MaxBackups = 2
  OldFiles <- MCOldFiles
  MaxStarts = 3
  Device = {p1, p2}
  Field <- MCField
  Secret = {"hasPassword", "token"}
  Flag <- MCFlag
  MaxVaultEdits = 3
  MaxFaults = 1
  WritesFail = TRUE
  Hasty = FALSE
  Unreadable = Unreadable  Star = Star
  MaxReplies = 2
INVARIANTS VaultTypeOK NothingDangles  Forest OpenIsMigrated WindowShowsVault
PROPERTY RowsKept
CHECK_DEADLOCK FALSE
