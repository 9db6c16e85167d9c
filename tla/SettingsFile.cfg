SPECIFICATION FairSpec
CONSTANTS
  Names = {"ann"}
  Accounts = {a1, a2}
  NameOf <- OneName
  Tokens = {k1, k2}
  Passwords = {"p1", "p2"}
  Values = {"default", "other"}
  DefaultValue = "default"
  Threads = {t1, t2}
  Mixes <- MixesMC
  Nobody = Nobody
  Absent = "absent"
INVARIANTS
  TypeOK
  AccountsAreDue
  TokensAreDue
  SettingsAreDue
PROPERTIES
  SpentTokenLeavesFile
