-------------------------- MODULE MCDeviceCatalogue --------------------------
(* Instances of DeviceCatalogue for TLC: a configuration is its protocol and
   a version, so that there are updates with and without a change of protocol. *)
EXTENDS DeviceCatalogue, TLC

CONSTANTS d1, d2, modbus1, modbus2, opcua1, opcua2, c1, c2, c3

AllConfigs == {modbus1, modbus2, opcua1, opcua2}
AllProtocols == {"modbus", "opcua"}
ProtocolOf == (modbus1 :> "modbus") @@ (modbus2 :> "modbus")
                @@ (opcua1 :> "opcua") @@ (opcua2 :> "opcua")
ProtocolOfAll == [c \in AllConfigs |-> ProtocolOf[c]]
AllOps == {"create", "delete", "update"}

ASSUME VersionAssumption == None \notin AllConfigs

OpcuaConfigs == {opcua1, opcua2}
ProtocolOfOpcua == [c \in OpcuaConfigs |-> "opcua"]
CreateAndUpdate == {"create", "update"}

Interchangeable == Permutations({c1, c2}) \cup Permutations({d1, d2})
ThreeSlots == Permutations({c1, c2, c3}) \cup Permutations({d1, d2})
=============================================================================
