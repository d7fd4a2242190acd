CONSTANTS
  c1 = c1 c2 = c2 root = root bad = bad p1 = p1 p2 = p2 k1 = k1 k2 = k2 record = record
  NoCA = NoCA Garbled = Garbled Nil = Nil Syncer = Syncer
  Conns = {c1}
  Users = {root, bad}
  ValidUsers = {root}
  Principals = {p1, p2}
  CAs = {k1, k2}
  Flags = {record}
  DefaultPolicy <- MCDefaultPolicy
  Answers <- MCAnswers
  MaxTime = 1
SPECIFICATION HistorySpec
INVARIANTS GarbledKeyKeepsTrust
