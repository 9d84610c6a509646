------------------------------- MODULE MCLayers -------------------------------
(* The parts of Layers with the values that MCKafkaAssignors, MCKafkaRecords,
   MCKafkaWire, MCKafkaAdmin and MCDbPool give their constants.               *)
EXTENDS Layers

CONSTANTS t1, t2, g1, g2, a1, a2

\* The values of constants, from instances that do not take them.
AssignorsValues == INSTANCE MCKafkaAssignors WITH Clusters <- {}, Modes <- {}
RecordsValues == INSTANCE MCKafkaRecords WITH Modes <- {}, Timestamps <- {}, mode <- format
WireValues == INSTANCE MCKafkaWire WITH Messages <- {}, Following <- {}
AdminValues == INSTANCE MCKafkaAdmin WITH Brokers <- {}, Topics <- {}, ConsumerGroups <- {}, Foreign <- {},
                                          Calls <- {}, Starts <- {}, cluster <- brokers
PoolValues == INSTANCE MCDbPool WITH Threads <- {}, Connections <- {}

TheClusters    == AssignorsValues!TwoTopics
TheModes       == AssignorsValues!AllModes
TheRecordModes == RecordsValues!AllModes
TheTimes       == RecordsValues!Times
TheMessages    == WireValues!AllMessages
TheRests       == WireValues!Rests
TheBrokers     == AdminValues!TwoBrokers
TheTopics      == AdminValues!TwoTopics
TheGroups      == AdminValues!TwoGroups
TheForeign     == AdminValues!OneForeign
TheCalls       == AdminValues!AllCalls
TheStarts      == AdminValues!AllStarts
TheThreads     == PoolValues!TwoThreads
TheConnections == PoolValues!ThreeConnections
===============================================================================
