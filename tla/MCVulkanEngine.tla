--------------------------- MODULE MCVulkanEngine ---------------------------
(* VulkanEngine for TLC: two extents, with and without what a network is
   built for, and two slots. *)
EXTENDS VulkanEngine

Frame(e, half, motion, passes, stages) ==
  [extent |-> e, fp16 |-> half, motion |-> motion, passes |-> passes,
   controls |-> "usual", stages |-> stages]

MCFrames == {Frame(1, FALSE, FALSE, 1, FALSE), Frame(1, TRUE, TRUE, 2, FALSE),
             Frame(2, FALSE, FALSE, 2, FALSE), Frame(2, FALSE, FALSE, 1, TRUE)}
MCIndex == -1
MCTierExtent == [small |-> 1, large |-> 2]
=============================================================================
