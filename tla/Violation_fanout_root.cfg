SPECIFICATION Spec
CONSTANTS
  c1 = c1
  c2 = c2
  c3 = c3
  Content <- DeepContent
  Sizes <- ChunkSizes
  MaxLinks = 2
INVARIANT RootIsDirectory
