----------------------------- MODULE MCDiceTurn -----------------------------
EXTENDS DiceTurn
=============================================================================
