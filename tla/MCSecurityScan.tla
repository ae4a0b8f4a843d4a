------------------------ MODULE MCSecurityScan ------------------------
EXTENDS SecurityScan

MCFiles == {"a.ts", "b.ts"}
=======================================================================
