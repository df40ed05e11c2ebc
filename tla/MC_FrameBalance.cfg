CONSTANTS
  Width = 8
  Roots <- MCRoots
  Rects <- MCRects
SPECIFICATION Spec
INVARIANT LayoutInsideParent
INVARIANT LayoutFillsSpace
