SPECIFICATION Spec
CONSTANTS
  x1 = x1
  x2 = x2
  x3 = x3
  fractal = fractal
  sector = sector
  alias = alias
  idle = idle
  Address = {x1, x2, x3}
  Name = {fractal, sector, alias, idle}
  Rate = {10, 20}
  Databases <- MCDatabases
  Asked <- MCAskedAll
  ChunkSize = 2
  MaxRuns = 4
INVARIANT DeltasAreConverted
PROPERTY RunsAreIndependent
