SPECIFICATION Spec
CONSTANTS
  w1 = w1
  w2 = w2
  u1 = u1
  u2 = u2
  Workers <- MCWorkers
  Uploads <- MCUploadsOne
  MaxPart = 1
  NumETags = 1
  PartSize <- MCPartSize
  MinPartSize = 5
  MaxBg = 1
SYMMETRY WorkersSymmetry
VIEW StateView
INVARIANT NoNilAppendRecord
