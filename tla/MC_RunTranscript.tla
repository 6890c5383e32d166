-------------------------- MODULE MC_RunTranscript --------------------------
(* RunTranscript on small instances.                                        *)
EXTENDS RunTranscript
=============================================================================
