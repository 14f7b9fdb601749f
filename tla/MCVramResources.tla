--------------------------- MODULE MCVramResources ---------------------------
EXTENDS VramResources
MCCells == 1 .. 2
MCRects == {{1}, {2}, {1, 2}}
=============================================================================
