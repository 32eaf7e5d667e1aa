---------------------------- MODULE MC_Services ----------------------------
(* Four parts of the bundle that share nothing, each in a world of its own: *)
(* the key-value store, the wifi service, the NTP client, and buttons.      *)
EXTENDS KeyValueStore, WifiService, NtpClient, Buttons

CONSTANT Worlds

VARIABLE world

vars == <<world, kvVars, wifiVars, ntpVars, buttonVars>>

(* The others rest in one of their initial states.                          *)
MCInit ==
  /\ world \in Worlds /\ KvInit /\ WifiInit /\ NtpInit /\ ButtonsInit
  /\ world = "kv" \/ backend = "memory"
  /\ world = "wifi" \/ (wifi.blocks /\ wifi.budget = Unset /\ ~ap)
  /\ world = "ntp" \/ ntp.reopens
  /\ world = "buttons" \/ pin = [k \in Pins |-> FALSE]

KvStep ==
  world = "kv" /\ KvNext /\ UNCHANGED <<world, wifiVars, ntpVars, buttonVars>>
WifiStep ==
  world = "wifi" /\ WifiNext /\ UNCHANGED <<world, kvVars, ntpVars, buttonVars>>
NtpStep ==
  world = "ntp" /\ NtpNext /\ UNCHANGED <<world, kvVars, wifiVars, buttonVars>>
ButtonsStep ==
  world = "buttons" /\ ButtonsNext /\ UNCHANGED <<world, kvVars, wifiVars, ntpVars>>

MCNext == KvStep \/ WifiStep \/ NtpStep \/ ButtonsStep

(* The runner goes on calling each of them and time goes on; a radio that   *)
(* is asked to join again and again finds the access point in the end; a    *)
(* client asked again and again finds its deadline passed.                  *)
MCFairness ==
  /\ WF_wifiVars(world = "wifi" /\ WifiHandle)
  /\ WF_wifiVars(world = "wifi" /\ WifiElapse)
  /\ WF_wifiVars(world = "wifi" /\ Joined)
  /\ SF_wifiVars(world = "wifi" /\ wifi.blocks /\ JoinsAtOnce)
  /\ SF_wifiVars(world = "wifi" /\ JoinDispatched)
  /\ WF_ntpVars(world = "ntp" /\ Receive)
  /\ SF_ntpVars(world = "ntp" /\ NothingReceived)
  /\ WF_buttonVars(world = "buttons" /\ (ConstructSource \/ Check))
  /\ SF_buttonVars(world = "buttons" /\ ButtonsElapse)

MCSpec == MCInit /\ [][MCNext]_vars /\ MCFairness
=============================================================================
