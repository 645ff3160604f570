----------------------------- MODULE MCRegStack -----------------------------
EXTENDS RegStack

MCStarts == {64, 65, 100, 126, 127}
=============================================================================
