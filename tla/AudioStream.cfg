\* Two threads on two streams whose memory is used again and again.
CONSTANTS
  t1 = t1  t2 = t2  s1 = s1  s2 = s2  w1 = w1  w2 = w2
  Threads = {t1, t2}
  Streams = {s1, s2}
  Blocks = {w1, w2}
  Closed = Closed
  OutTables <- Outs
  InTables <- Ins
  TrackLists <- Lists
SPECIFICATION Spec
INVARIANTS CallsLand NothingHidden MetadataIntact MmapClean
SYMMETRY Symmetry
