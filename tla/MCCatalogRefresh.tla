-------------------------- MODULE MCCatalogRefresh --------------------------
EXTENDS CatalogRefresh

TwoRevisions == 1..2
ThreeRevisions == 1..3
None == {}
First == {1}
Second == {2}
Third == {3}
=============================================================================
