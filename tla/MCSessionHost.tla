--------------------------- MODULE MCSessionHost ---------------------------
(* The session host as the .cfg files instantiate it: transcripts are model *)
(* values, and one of the two exists when the host starts.                  *)
EXTENDS SessionHost
=============================================================================
