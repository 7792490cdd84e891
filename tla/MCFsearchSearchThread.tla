----------------------- MODULE MCFsearchSearchThread -----------------------
EXTENDS FsearchSearchThread

\* Two parameter sets are enough to tell a search's own parameters from
\* ones stored by a later db_search_update.
MCConfigs == {"c1", "c2"}

=============================================================================
