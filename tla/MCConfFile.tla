----------------------------- MODULE MCConfFile -----------------------------
EXTENDS ConfFile
MCCommands == [server |-> {"idle", "listen"}, app |-> {"idle"}]
=============================================================================
