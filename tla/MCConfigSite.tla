----------------------------- MODULE MCConfigSite -----------------------------
(* Instances of ConfigSite for TLC.                                        *)
EXTENDS ConfigSite

CONSTANTS a, b, v, w

==============================================================================
