-------------------------- MODULE MCRequestChannel --------------------------
EXTENDS RequestChannel
McTroubles == SUBSET TroubleKinds
McParts    == {{"parts"}}
=============================================================================
