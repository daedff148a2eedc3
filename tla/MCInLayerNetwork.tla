-------------------------- MODULE MCInLayerNetwork --------------------------
(* Two swapchains, of one extent or of two; frames with and without history,
   of two settings of the controls, in both formats. *)
EXTENDS NetworkDevice

CONSTANTS s1, s2, soft, sharp

MCControls == {soft, sharp}
MCExtents == {1, 2}

Still(extent) == [extent |-> extent, fp16 |-> FALSE, motion |-> FALSE, passes |-> 1,
                  controls |-> soft, stages |-> FALSE]
Moving(extent) == [Still(extent) EXCEPT !.motion = TRUE]

MCFramesOf(s) ==
  IF s = s1
  THEN {Moving(1), [Moving(1) EXCEPT !.controls = sharp], [Moving(1) EXCEPT !.fp16 = TRUE]}
  ELSE {Moving(1), [Still(2) EXCEPT !.passes = 2, !.stages = TRUE]}

-----------------------------------------------------------------------------
(* Devices that lack one thing, and every valid chain of up to three structures
   a game may ask for, with none, one or all of their bits. *)
AllFeatures == Names(NetworkFeatures) \cup {Formatless}
Full == [vulkan13 |-> TRUE, instance13 |-> TRUE, lanes32 |-> TRUE,
         extensions |-> NetworkExtensions \cup {"swapchain"}, features |-> AllFeatures]
MCDevices ==
  {Full, [Full EXCEPT !.instance13 = FALSE], [Full EXCEPT !.extensions = @ \ {"float8"}],
   [Full EXCEPT !.features = @ \ {Formatless}], [Full EXCEPT !.features = @ \ {"sync2"}]}

Bits(type) ==
  IF type = "features2" THEN {Formatless}
  ELSE Names({f \in NetworkFeatures : type \in {f.type, f.core}})
Structures ==
  {[type |-> t, bits |-> {}] : t \in {"loader", "unknown", "features2", "core12", "core13", "memoryModel"}}
  \cup {[type |-> t, bits |-> Bits(t)] : t \in {"features2", "core12", "float8"}}
  \cup {[type |-> "memoryModel", bits |-> {"deviceScope"}]}
Chains ==
  {c \in UNION {[1 .. n -> Structures] : n \in 0 .. 3} :
     \A i, j \in DOMAIN c : i # j => ~Conflict(c[i].type, c[j].type)}
MCRequests == [chain : Chains, legacy : 0 .. NoLegacy, extensions : {{"swapchain"}}]
=============================================================================
