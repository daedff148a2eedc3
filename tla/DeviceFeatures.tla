---------------------------- MODULE DeviceFeatures ----------------------------
(***************************************************************************)
(* What the in-layer network needs of a device, and how the layer asks for *)
(* it: the request a game makes of vkCreateDevice is a chain of feature    *)
(* structures and a list of extensions, to which the layer adds bits in    *)
(* private copies of the game's structures, structures of its own, and     *)
(* extensions; what the driver then refuses is asked for as the game did.  *)
(***************************************************************************)
EXTENDS Integers, Sequences

NoExtension == "none"
NoCore == "uncored"

(* kNetworkFeatures: a feature, the structure that carries it alone, the core
   structure that carries it too, and the extension that provides it. *)
Feature(name, type, core, extension) ==
  [name |-> name, type |-> type, core |-> core, extension |-> extension]
NetworkFeatures ==
  {Feature("matrix", "matrix", NoCore, "matrix"),
   Feature("float8", "float8", NoCore, "float8"), Feature("float8Matrix", "float8", NoCore, "float8"),
   Feature("storage16", "storage16", "core11", NoExtension),
   Feature("storage8", "storage8", "core12", NoExtension),
   Feature("float16", "float16int8", "core12", NoExtension),
   Feature("int8", "float16int8", "core12", NoExtension),
   Feature("memoryModel", "memoryModel", "core12", NoExtension),
   Feature("deviceScope", "memoryModel", "core12", NoExtension),
   Feature("subgroupSize", "subgroupSize", "core13", NoExtension),
   Feature("sync2", "sync2", "core13", NoExtension)}
  \cup {Feature(name, "layout", NoCore, "layout") : name \in {"layout", "layout8", "layout16"}}

Names(fs) == {f.name : f \in fs}
NetworkExtensions == {f.extension : f \in NetworkFeatures} \ {NoExtension}

(* The network's own structures, chained for a query or a device. *)
NetworkFeatureChain ==
  {"matrix", "float8", "storage16", "storage8", "float16int8", "memoryModel", "subgroupSize",
   "sync2", "layout"}

(* What keeps the network off a device, which DEVICE describes: the versions of
   its instance and its own, its extensions, features and subgroup sizes.  ALSO
   is an extension wanted besides. *)
NetworkUnsupported(device, also) ==
  \/ ~device.vulkan13
  \/ ~(also \cup NetworkExtensions \subseteq device.extensions)
  \/ ~(Names(NetworkFeatures) \subseteq device.features)
  \/ ~device.lanes32

NetworkUnavailable(device) == ~device.instance13 \/ NetworkUnsupported(device, {})

-----------------------------------------------------------------------------
(* Chains.  A request is [chain, legacy, extensions], each structure [type,
   bits], LEGACY the formatless bit of pEnabledFeatures, if there is one.  *)

Formatless == "formatless"
NoLegacy == 2

Structure == [type : STRING, bits : SUBSET STRING]
Request == [chain : Seq(Structure), legacy : 0 .. NoLegacy, extensions : SUBSET STRING]

(* Where the first structure of a type is, or 0. *)
IsFirst(chain, type, i) == chain[i].type = type /\ \A j \in 1 .. i - 1 : chain[j].type # type
FindStructure(chain, type) ==
  IF \E i \in DOMAIN chain : IsFirst(chain, type, i)
  THEN CHOOSE i \in DOMAIN chain : IsFirst(chain, type, i) ELSE 0

(* Where a network feature is enabled: alone, else in the core structure. *)
BuggyNetworkFeatureIn(chain, f) == FindStructure(chain, f.type)

NetworkFeatureIn(chain, f) ==
  IF FindStructure(chain, f.type) # 0 THEN FindStructure(chain, f.type) ELSE FindStructure(chain, f.core)

HasFormatlessStorageWrites(r) ==
  LET i == FindStructure(r.chain, "features2")
  IN IF i # 0 THEN Formatless \in r.chain[i].bits ELSE r.legacy = 1

(* The ledger. *)
NetworkEnabled(r) ==
  /\ NetworkExtensions \subseteq r.extensions
  /\ \A f \in NetworkFeatures :
       LET i == NetworkFeatureIn(r.chain, f) IN i # 0 /\ f.name \in r.chain[i].bits

AddNetworkExtensions(r) == [r EXCEPT !.extensions = @ \cup NetworkExtensions]

(* Structures the layer can copy. *)
CopyNode ==
  {"loader", "features2", "core11", "core12", "core13", "core14", "group", "maintenance"}
  \cup NetworkFeatureChain

(* The bits to set in the game's structures. *)
Changes(r, network) ==
  LET features2 == FindStructure(r.chain, "features2")
  IN (IF features2 # 0 /\ ~HasFormatlessStorageWrites(r) THEN {<<features2, Formatless>>} ELSE {})
     \cup {<<NetworkFeatureIn(r.chain, f), f.name>> : f \in IF network THEN NetworkFeatures ELSE {}}

Missing(r, network) == {f \in NetworkFeatures : network /\ NetworkFeatureIn(r.chain, f) = 0}

(* Those that need it: a structure of the game's, without the bit. *)
Needed(r, network) == {c \in Changes(r, network) : c[1] # 0 /\ c[2] \notin r.chain[c[1]].bits}

(* Copies reach up to the last structure changed. *)
Copied(r, network, i) == \E c \in Needed(r, network) : i <= c[1]

CanEnable(r, network) == \A i \in DOMAIN r.chain : Copied(r, network, i) => r.chain[i].type \in CopyNode

(* The game's chain, with the bits set in the copies. *)
Changed(r, network) ==
  [i \in DOMAIN r.chain |->
     [r.chain[i] EXCEPT !.bits = @ \cup {c[2] : c \in {d \in Needed(r, network) : d[1] = i}}]]

(* A structure of the layer's own ahead of a chain, if the game has none for
   some feature of its type. *)
OwnBits(r, network, type) == Names({f \in Missing(r, network) : f.type = type})
Own(r, network, type, chain) ==
  IF OwnBits(r, network, type) = {} THEN chain
  ELSE <<[type |-> type, bits |-> OwnBits(r, network, type)]>> \o chain

Enabled(r, network) ==
  LET layout == Own(r, network, "layout", Changed(r, network))
      sync2 == Own(r, network, "sync2", layout)
      subgroupSize == Own(r, network, "subgroupSize", sync2)
      memoryModel == Own(r, network, "memoryModel", subgroupSize)
      float16int8 == Own(r, network, "float16int8", memoryModel)
      storage8 == Own(r, network, "storage8", float16int8)
      storage16 == Own(r, network, "storage16", storage8)
      float8 == Own(r, network, "float8", storage16)
      legacy == FindStructure(r.chain, "features2") = 0 /\ ~HasFormatlessStorageWrites(r)
  IN [r EXCEPT !.chain = Own(r, network, "matrix", float8), !.legacy = IF legacy THEN 1 ELSE @]

-----------------------------------------------------------------------------
(* Hook_CreateDevice.                                                      *)

(* A driver takes a request whose features and extensions it has, whose chain
   holds no structure twice, nor a structure beside the core one of the same
   features, and pEnabledFeatures only without features2. *)
Conflict(a, b) == a = b \/ \E f \in NetworkFeatures : f.type = a /\ f.core = b

Accepts(device, r) ==
  /\ r.extensions \subseteq device.extensions
  /\ \A i \in DOMAIN r.chain : r.chain[i].bits \subseteq device.features
  /\ \A i, j \in DOMAIN r.chain : i # j => ~Conflict(r.chain[i].type, r.chain[j].type)
  /\ r.legacy # NoLegacy => FindStructure(r.chain, "features2") = 0
  /\ r.legacy = 1 => Formatless \in device.features

(* What the layer asks for. *)
Effective(device, r, wanted) ==
  LET network == wanted /\ ~NetworkUnavailable(device)
      modified == IF network THEN AddNetworkExtensions(r) ELSE r
  IN IF Formatless \notin device.features THEN modified
     ELSE IF CanEnable(modified, network) THEN Enabled(modified, network)
     ELSE IF network /\ CanEnable(modified, FALSE) THEN Enabled(modified, FALSE)
     ELSE modified

(* The request a device is created from: the game's own, if the layer's fails. *)
CreatedFrom(device, r, wanted) ==
  IF Accepts(device, Effective(device, r, wanted)) THEN Effective(device, r, wanted) ELSE r

-----------------------------------------------------------------------------
(* Properties, for every request of a game and every device that takes it.  *)

(* What the game asked for stays: its structures in their order, with their
   bits, and its extensions. *)
GameKeeps(r, made) ==
  /\ \A i \in DOMAIN r.chain :
       LET j == FindStructure(made.chain, r.chain[i].type)
       IN /\ j # 0 /\ r.chain[i].bits \subseteq made.chain[j].bits
          /\ \A k \in 1 .. i - 1 : FindStructure(made.chain, r.chain[k].type) < j
  /\ r.extensions \subseteq made.extensions
  /\ r.legacy # NoLegacy => made.legacy >= r.legacy

(* The layer's request is never refused where the game's is not; the game has
   all it asked for; a device that can run the network, and the composition,
   runs it unless a structure to change is behind one the layer cannot copy;
   and the network is on only where it was wanted and the device supports it. *)
RequestHolds(device, r, wanted) ==
  LET made == CreatedFrom(device, r, wanted)
      network == wanted /\ ~NetworkUnavailable(device)
      copyable == \A i \in DOMAIN r.chain : r.chain[i].type \in CopyNode
  IN /\ Accepts(device, Effective(device, r, wanted))
     /\ GameKeeps(r, made)
     /\ copyable /\ Formatless \in device.features =>
          HasFormatlessStorageWrites(made) /\ (network => NetworkEnabled(made))
     /\ NetworkEnabled(made) => NetworkEnabled(r) \/ network
=============================================================================
