\* CompleteMultipartUpload writes the object's fs.json before it renames the
\* appended data onto the object: one part with two possible ETags, so that
\* a re-upload and a second Complete can also interleave with the commit.
SPECIFICATION Spec
CONSTANTS
  w1 = w1
  w2 = w2
  u1 = u1
  u2 = u2
  Workers <- MCWorkers
  Uploads <- MCUploadsOne
  MaxPart = 1
  NumETags = 2
  PartSize <- MCPartSize
  MinPartSize = 5
  MaxBg = 1
SYMMETRY WorkersSymmetry
VIEW StateView
INVARIANT ObjectMetaMatchesData
