----------------------------- MODULE MCPluginRun -----------------------------
(* One plugin of each form. *)
EXTENDS PluginRun
MCPlugins == {"Tools", "ResourcePoolsMemory", "VirtualHardwareVersion",
              "Host2Datastores2VMs", "DatastoresSize", "Alarms"}
=============================================================================
