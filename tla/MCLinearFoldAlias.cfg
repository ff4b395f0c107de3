SPECIFICATION MCSpec
CONSTANTS
  P = 241
  ELL = 4
  CHUNK = 2
  RMS_LIMB_W = 1
  OpVec <- MCOpVec
  RopeCos <- MCRopeCos
  RopeSin <- MCRopeSin
  Tapes <- AliasTapes
  WithSettlements <- _with_synthesized_settlements
  Compile <- COMPILE_FNS
  Handle <- compile_op
  Asserts <- Accepts
  Cuts <- MCCuts
  WORD = 4
  GLOBAL_G = 7
  SIDE = 4
  K_DEG = 8
  N_LIG = 16
  BLAKE3_CHUNK_ROWS = 2
  P0_CHUNK = 3
  Challenge <- MCChallenge
  row_prg <- MCRowPrg
  Blinding <- MCBlinding
  Witnesses <- MCWitnesses
  Queries <- MCQueries
  BridgeJobs = {}
  BridgeCoins <- MCBridgeCoins
  BridgePrg <- MCBridgePrg
  BridgeRho <- MCBridgeRho
CHECK_DEADLOCK FALSE
INVARIANT FoldIsExact
