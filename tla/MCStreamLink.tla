---------------------------- MODULE MCStreamLink ----------------------------
EXTENDS StreamLink

\* Every combination of the two transforms a TCP session may negotiate.
AllProfiles == SUBSET {Lzo, Encrypt}
=============================================================================
