\* Two loads or more by either script on one machine, with three files in results/.
SPECIFICATION FairSpec
CONSTANTS
  U32 = 4
  Architectures <- TwoArchitectures
  Systems = {"linux", "win"}
  Brands <- TwoBrands
  Committed <- Files
  LoadsPerRun = 2
  MaxLoads = 2
  LogSize = 6
  MaxLost = 1
  Iterations = 2
  MinCost = 1
  MaxCost = 2
  NoFile = NoFile
INVARIANTS
  TypeOK
  
  WindowsFileIsOneLoad
  
  PublishedFromOneLoad
  PublishedIsBest

  
