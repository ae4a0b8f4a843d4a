------------------------ MODULE MCLspInstaller ------------------------
EXTENDS LspInstaller

MCFiles == {"servers", "clients"}
=======================================================================
