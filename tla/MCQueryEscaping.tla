--------------------------- MODULE MCQueryEscaping ---------------------------
EXTENDS QueryEscaping

MCChar == {9, 57, 65, 37, -61}
=============================================================================
