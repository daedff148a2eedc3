--------------------------- MODULE NetworkDevice ----------------------------
(***************************************************************************)
(* A game's device, from the request it is created from: the in-layer      *)
(* network runs on it if, in the request the driver took, all that the     *)
(* network needs was asked for (Hook_CreateDevice).                        *)
(***************************************************************************)
EXTENDS InLayerNetwork, DeviceFeatures

CONSTANTS
  Devices, Requests,  \* the physical devices, and what a game may ask of one
  With, Without       \* a device created with the network, and one without

ASSUME RequestsAssumption == Requests \subseteq Request

(* What is asked of which device, and whether the network is, until the device
   is created; then whether it has the network. *)
VARIABLE request

Asked == request \notin {Without, With}

DeviceInit ==
  /\ Init
  /\ request \in {q \in [device : Devices, info : Requests, wanted : BOOLEAN] : Accepts(q.device, q.info)}

CreateDevice ==
  /\ Asked
  /\ LET made == CreatedFrom(request.device, request.info, request.wanted)
         allowed == request.wanted /\ ~NetworkUnavailable(request.device)
     IN request' = IF allowed /\ NetworkEnabled(made) /\ HasFormatlessStorageWrites(made) THEN With ELSE Without
  /\ UNCHANGED vars

DeviceNext == CreateDevice \/ (request = With /\ Next /\ UNCHANGED request)
              \/ (request = Without /\ UNCHANGED <<vars, request>>)
DeviceSpec == DeviceInit /\ [][DeviceNext]_<<vars, request>>

-----------------------------------------------------------------------------
(* For every request of a game that the driver takes: what the layer asks for
   instead is taken too, loses nothing of the game's, and has the composition
   and the network on wherever the device supports them, unless a structure to
   change follows one the layer cannot copy (device_features.h,
   Hook_CreateDevice). *)
RequestsHold == Asked => RequestHolds(request.device, request.info, request.wanted)
=============================================================================
