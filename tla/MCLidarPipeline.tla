--------------------------- MODULE MCLidarPipeline ---------------------------
(* Small instances of LidarPipeline for TLC. *)
EXTENDS LidarPipeline

\* The rest of a packet: plain, and with a false header in it.
MCScenes == {<<"other", "other">>, <<"header", "verlen">>}

\* The clock goes on between two messages, or is set back.
MCTicks == {1, -1}
=============================================================================
