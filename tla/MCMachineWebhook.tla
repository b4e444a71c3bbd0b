-------------------------- MODULE MCMachineWebhook --------------------------
(* Constants for TLC's run of MachineWebhook.                               *)
EXTENDS MachineWebhook

MachineOf(group, types, pool) ==
    [group |-> group, types |-> types, pool |-> pool, status |-> <<>>, deleting |-> FALSE]

GPU(family, product) ==
    [type |-> "nvidia.com/gpu", num |-> 1, family |-> family, product |-> product,
     machine |-> ""]

Type(name, gpu) == [name |-> name, gpu |-> gpu]
Entry(node, types) == [node |-> node, machineType |-> types]

(* Two good Machines, and one that each validation refuses.                *)
MCManifests ==
    {MachineOf("g", <<Type("a", NoGPU)>>, <<Entry("n1", <<"a">>)>>),
     MachineOf("g", <<Type("a", NoGPU), Type("b", GPU("ampere", ""))>>, <<Entry("n2", <<"b">>)>>),
     MachineOf("", <<>>, <<>>),
     MachineOf("g", <<Type("a", NoGPU)>>, <<Entry("n1", <<"b">>)>>),
     MachineOf("g", <<Type("a", NoGPU), Type("a", NoGPU)>>, <<>>),
     MachineOf("g", <<Type("a", NoGPU)>>, <<Entry("n1", <<"a", "a">>)>>),
     MachineOf("g", <<Type("b", GPU("ampere", "A100"))>>, <<>>)}
=============================================================================
