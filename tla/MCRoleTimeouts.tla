--------------------------- MODULE MCRoleTimeouts ---------------------------
EXTENDS RoleTimeouts
MCIdle == {-1, 3}
=============================================================================
