----------------------- MODULE MCModbusQualification -----------------------
(* A window of two intervals, six intervals in all, two accidents.         *)
EXTENDS ModbusQualification
=============================================================================
