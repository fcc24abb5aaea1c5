-------------------------- MODULE MCStreamSessions --------------------------
(* Instances of StreamSessions for TLC.                                    *)
EXTENDS StreamSessions

\* Sessions of browsers draw a fresh token each.
OwnTokens == [s \in Sessions |-> s]

\* A native client that reconnects with its ticket brings the same session token.
SharedTokens == [s \in Sessions |-> IF s = MaxSessions THEN 2 ELSE 1]
=============================================================================
