--------------------------- MODULE MCAmmReserves ---------------------------
EXTENDS AmmReserves
=============================================================================
