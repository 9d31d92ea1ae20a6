SPECIFICATION Spec
CONSTANTS
  layer = layer
  image = image
  index = index
  Digest = {layer}
  Manifest = {image, index}
  Blobs <- ImageBlobs
  Children <- IndexChildren
  Tag = {latest}
  Repo <- RepoOf
  Upload = {u1}
  Handler = {h1, h2}
  MaxObjects = 2
  MaxRequests = 4
  MaxFaults = 2
INVARIANTS
  BlobsReadable
  TagsPullable
  ObjectsOwned
SYMMETRY Symmetry
CHECK_DEADLOCK FALSE
