--------------------------- MODULE MCTargetCatalog ---------------------------
\* Two phones of the same make; two requests of the page may overlap.
EXTENDS TargetCatalog

Makes    == <<"pixel", "pixel">>
Versions == <<"14", "14">>
===============================================================================
