--------------------------- MODULE MCSidebarItems ---------------------------
EXTENDS SidebarItems

CONSTANTS u1, u2, u3, u4

\* Four urls: two items can be renamed onto each other while others stay.
MCUrls == {u1, u2, u3, u4}

=============================================================================
