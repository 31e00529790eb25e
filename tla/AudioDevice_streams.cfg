\* Two threads, and room for two streams: every interleaving of opens, closes and
\* volumes, with the Amazon device and the allocator failing at will.
CONSTANTS
  t1 = t1  t2 = t2  s1 = s1  s2 = s2  w1 = w1  w2 = w2
  Threads = {t1, t2}
  Streams = {s1, s2}
  Wrappers = {w1, w2}
  Closed = Closed
  NoStream = NoStream
  NoWrapper = NoWrapper
  Configs <- ThreeConfigs
  AmazonConfigs <- TwoConfigs
  AmazonTables <- Some
  Volumes <- TwoVolumes
SPECIFICATION Spec
INVARIANTS TypeOK StreamsOwned NoNullCall OneRetrySuffices AspInformed
PROPERTIES ImplementsService
CHECK_DEADLOCK FALSE
SYMMETRY Symmetry
