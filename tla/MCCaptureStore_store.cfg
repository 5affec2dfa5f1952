SPECIFICATION Spec
CONSTANTS
  h1 = h1
  h2 = h2
  h3 = h3
  r1 = r1
  r2 = r2
  r3 = r3
  Nobody = Nobody
  Junk = Junk
  Handlers <- ThreeHandlers
  Records <- ThreeRecords
  Formatters <- TwoFormatters
  Outdir = {TRUE, FALSE}
  InitialFiles <- UsedDirectories
  Crashes = TRUE
SYMMETRY HandlersAndRecords
INVARIANTS TypeOK LastFileSeals DenseNumbers
PROPERTIES ArchiveIntact ImplementsCaptureLog
