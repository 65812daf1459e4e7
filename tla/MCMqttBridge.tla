---------------------------- MODULE MCMqttBridge ----------------------------
(* Two threads, one of them MQTT's, and brightness of one and three digits. *)
EXTENDS MqttBridge

MCLevels == {5, 100}

=============================================================================
