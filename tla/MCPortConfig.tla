---------------------------- MODULE MCPortConfig ----------------------------
(* A small instance of PortConfig.                                         *)
EXTENDS PortConfig

ModelConfig(type, value) ==
  [common |-> value, type |-> type, flags |-> 1, ext |-> 1, newer |-> value]

SomeConfigs ==
  {ModelConfig("device", 1), ModelConfig("mix", 0), ModelConfig("session", 1),
   ModelConfig("none", 0)}

SomePorts ==
  {[common |-> 1, type |-> t, ext |-> 1, newer |-> 1, active |-> c] :
     t \in Types, c \in SomeConfigs}
=============================================================================
