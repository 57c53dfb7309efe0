\* The platform accepts every message and nothing is lost.
CONSTANTS
  Seqs = {1}
  Unfit = {}
  Modes = {"GATEWAY"}
  Codes = {0}
  MaxFaults = 0
SPECIFICATION CloudFairSpec
PROPERTY CacheDrains
