SPECIFICATION FairSpec
CONSTANTS
  Txs = {t1, t2}
  Miners = {m1, m2}
  Audits = {a1}
  MaxId = 2
INVARIANTS TypeOK CertificatesKept SavedChainValid BannerTruthful
PROPERTIES MiningEnds
CHECK_DEADLOCK FALSE
