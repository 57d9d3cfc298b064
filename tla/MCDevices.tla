------------------------------ MODULE MCDevices ------------------------------
(* Adapters of three queue families, and those open_shared never looks at. *)
EXTENDS Devices

First == [can : {{"graphics", "compute"}, {"graphics", "compute", "decode"}}, count : {1, 2}]
Other == [can : {{"compute"}, {"decode"}, {"compute", "decode"}, {"graphics", "compute"}}, count : {1}]

Adapter(f0, f1, f2) ==
  [software |-> FALSE, vulkan |-> TRUE, video |-> TRUE, flow |-> TRUE,
   families |-> [f \in 0 .. 2 |-> CASE f = 0 -> f0 [] f = 1 -> f1 [] f = 2 -> f2]]

Usual == Adapter([can |-> {"graphics", "compute", "flow"}, count |-> 1],
                 [can |-> {"decode"}, count |-> 1], [can |-> {"compute", "flow"}, count |-> 1])

MCMachines ==
  {Adapter(f0, f1, f2) : f0 \in First, f1 \in Other, f2 \in Other}
    \cup {Usual, [Usual EXCEPT !.software = TRUE], [Usual EXCEPT !.vulkan = FALSE],
          [Usual EXCEPT !.video = FALSE], [Usual EXCEPT !.flow = FALSE]}
=============================================================================
