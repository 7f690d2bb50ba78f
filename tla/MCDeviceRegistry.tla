-------------------------- MODULE MCDeviceRegistry --------------------------
(* Small instances of DeviceRegistry.                                      *)
EXTENDS DeviceRegistry, TLC

\* Handlers and MACs are interchangeable.
Symmetry == Permutations(Handlers) \cup Permutations(Macs)

\* The alerts count only for a row that is there and not excused: an id that is
\* used again starts from none, whatever was raised for the row before.
LiveAlerts ==
    <<devices, identities, history, owned, raced, req, excused \cap Unknown,
      [i \in Unknown \ excused |-> alerts[i]]>>
=============================================================================
