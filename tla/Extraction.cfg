SPECIFICATION Spec
CONSTANTS
  Paths <- MCPaths
  Above <- MCAbove
  Contents <- MCContents
  Targets <- MCTargets
  Empty <- MCEmpty
  Archives <- MCArchives
  LinksResolve <- MCLinksResolve
  MaxSymlinkDepth = 2
INVARIANTS TreeIsClosed AcceptedStaysAcceptable SuccessMeansExtracted
PROPERTIES OnlyOverlays
