--------------------------- MODULE MCVaultSaveKey ---------------------------
EXTENDS VaultSaveKey

CONSTANTS pw, pu

\* One file in a writable directory and one in a read-only one.
MCPaths == {pw, pu}
MCWritable == {pw}
=============================================================================
