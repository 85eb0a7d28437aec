--------------------------- MODULE MCProtoReplace ----------------------------
(* wsMsg_pb.js, discover_pb.js with the package it imports, and the meta file *)
(* of the editor beside them.                                                 *)
EXTENDS ProtoReplace

Ws       == "com.seeu.framework.websocket"
Ws_js    == [package |-> "wsMsg", ext |-> ".js"]
Disc_js  == [package |-> "discover", ext |-> ".js"]
Ws_meta  == [package |-> "wsMsg_pb", ext |-> ".meta"]
MCFiles  == {Ws_js, Disc_js, Ws_meta}
MCGenerated ==
  [f \in MCFiles |-> CASE f = Ws_js   -> <<Ws, "google-protobuf", Ws>>
                       [] f = Disc_js -> <<"com.seeu.framework.rpc", "com.seeu.proto">>
                       [] f = Ws_meta -> <<"uuid">>]
==============================================================================
