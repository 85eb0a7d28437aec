--------------------------- MODULE MCRegistration ----------------------------
EXTENDS Registration

MCServer == <<2, 1>>  \* ACCESS, 1
==============================================================================
