---------------------------- MODULE MCSdkSession ----------------------------
(* Instances of SdkSession for TLC: two lidars that share a channel of the *)
(* host; in view mode an answer asks for one channel of its own; by type,  *)
(* it asks for the shared channel once more and for a broadcast socket.    *)
(* The thread of the commands also does what the one of the data does.     *)
EXTENDS SdkSession

MCThreadOrder == <<"detection", "command">>
MCWanted == <<"push", "push">>
MCUnkeyed == {"lidar broadcast"}
MCAsked == [mode \in BOOLEAN |->
              IF mode THEN {<<"point">>}
              ELSE {<<"push", "lidar broadcast">>}]
MCThreadOf ==
  [k \in {"broadcast", "host", "push", "lidar broadcast", "point"} |->
     IF k \in {"broadcast", "host"} THEN "detection" ELSE "command"]

=============================================================================
