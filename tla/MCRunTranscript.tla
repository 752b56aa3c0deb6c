-------------------------- MODULE MCRunTranscript --------------------------
EXTENDS RunTranscript
=============================================================================
