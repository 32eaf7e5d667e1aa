--------------------------- MODULE MC_MqttSystem ---------------------------
EXTENDS MqttSystem, TLC
=============================================================================
