SPECIFICATION Spec
CONSTANTS
 KeyByte <- KeyBytes
 nmax_block_num = 2
 nblock_unit_num = 2
 MaxCall = 5
 pyTail <- Tails
 withmixsearch = TRUE
 pool_unit = 8
 pool_block = 8
 Inputs <- InputsDef
 mustWrite = 4
 MaxRun = 2
 pys <- Syllables
 MultiPY <- Several
 pyset <- PySet
 Segments <- Parted
 m_iMaxSplitNum = 3
 m_iMinSplitCenterWordLen = 2
 m_iMinSplitCenterSearchLen = 6
 m_iMaxSplitCenterSearchLen = 20
 Task = "x"
 Others = "y"
 Second <- SecondOf
INVARIANTS
 HeldIsFound
 LevelsBalanced
 PoolAccounts
 LoadedIsWhole
 EntriesAreTheLines
 NodesWeighBest
 FindIsFilter
 NineGridIsFilter
 EveryReadingFinds
 DeletedIsNeverAnswered
 MixedIsSound
 WordsAreUnique
CHECK_DEADLOCK FALSE
