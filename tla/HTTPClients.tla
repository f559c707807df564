------------------------------ MODULE HTTPClients ------------------------------
(* What the two places that keep idle clients have in common. *)

CONSTANTS
    Threads,
    MaxClients,     \* bound: clients made by a session, alive at one time beside a cache
    None
=============================================================================
