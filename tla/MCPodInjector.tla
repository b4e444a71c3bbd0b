---------------------------- MODULE MCPodInjector ----------------------------
(* Constants for TLC's runs of PodInjector.                                *)
EXTENDS PodInjector, TLC

MCGPUOf ==
    "cpu" :> [family |-> "", product |-> "", machine |-> ""]
    @@ "gpu" :> [family |-> "ampere", product |-> "", machine |-> ""]

LabelsOf(type, role, container) ==
    [group |-> MachineGroup, type |-> type, role |-> role, container |-> container]
MCLabels == {LabelsOf("gpu", "guest", ""), LabelsOf("cpu", "guest", ""), LabelsOf("gpu", "", "")}

MCOffers ==
    {"cpu" :> "some" @@ "gpu" :> "some",
     "cpu" :> "absent" @@ "gpu" :> "none",
     "cpu" :> "none" @@ "gpu" :> "unlisted"}

Zone == <<"topology.kubernetes.io", "zone">>
Worker == <<"node-role.kubernetes.io", "worker">>
Family == <<"nvidia.com", "gpu.family">>

Machine == Requirement(GenerateMachineTypeLabelTaintKey("gpu"), "In", <<"group">>)
Ready == Requirement(MachineStatusKey, "In", <<"ready">>)
InZone == Requirement(Zone, "In", <<"a">>)
OffDisk == Requirement(<<"", "disk">>, "NotIn", <<"hdd">>)
AnyZone == Requirement(Zone, "Exists", <<>>)
IsWorker == Requirement(Worker, "In", <<"">>)

Terms(n, requirements) == UNION {[1 .. k -> requirements] : k \in 0 .. n}

PodOf(labels, level, terms, tolerations) ==
    [labels |-> labels,
     containers |-> << [name |-> "main", resources |-> <<"user">>],
                       [name |-> "side", resources |-> <<"user">>] >>,
     affinity |-> [level |-> level, terms |-> terms],
     tolerations |-> tolerations]

Guest == LabelsOf("gpu", "guest", "side")

MCTemplate == PodOf(LabelsOf("gpu", "guest", ""), "nil", <<>>, <<>>)

(* Terms of up to three requirements, of which the injection brings two    *)
(* too, one has an empty value and one none; two terms; partly absent      *)
(* affinities; tolerations the injection brings too; and Pods that are no  *)
(* guests.                                                                 *)
MCManifests ==
    {PodOf(Guest, "required", <<t>>, <<>>) :
        t \in Terms(2, {Machine, Ready, InZone}) \cup Terms(2, {IsWorker, AnyZone})
             \cup {Append(t, OffDisk) : t \in [1 .. 2 -> {Machine, Ready, InZone}]}}
    \cup {PodOf(Guest, "required", <<<<InZone>>, <<Machine, InZone>>>>, <<>>)}
    \cup {PodOf(Guest, level, <<>>, tolerations) :
             level \in {"nil", "noNodeAffinity", "preferred"},
             tolerations \in {GenerateToleration("gpu"),
                              GenerateToleration("cpu") \o GenerateToleration("gpu")}}
    \cup {PodOf(LabelsOf("cpu", "", ""), "nil", <<>>, <<>>),
          [PodOf(Guest, "nil", <<>>, <<>>) EXCEPT !.containers = <<>>]}

(* Nodes with and without each label, with the taints of a machine type.   *)
MCNodes ==
    {[labels |-> [k \in K \cup {MachineStatusKey} |->
                     CASE k = MachineStatusKey -> status
                       [] k = Zone             -> "a"
                       [] k = Family           -> "ampere"
                       [] OTHER                -> "group"],
      taints |-> {[key |-> GenerateMachineTypeLabelTaintKey("gpu"), value |-> "group",
                   effect |-> "NoSchedule"],
                  [key |-> MachineStatusKey, value |-> status, effect |-> "NoSchedule"]}] :
        K \in SUBSET {GenerateMachineTypeLabelTaintKey("gpu"), Family, Zone},
        status \in {"ready", "not-ready"}}
=============================================================================
