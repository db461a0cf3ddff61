--------------------------- MODULE MCPluginState ---------------------------
(* Instances of PluginState for TLC. *)
EXTENDS PluginState

CONSTANTS service, widget, k1, k2

\* The service sets every key, the widget watches.
ServiceWrites == {service} \X Key
=============================================================================
