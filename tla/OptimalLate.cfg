\* The optimal tree on a machine where it goes wrong.
CONSTANT
  Machines <- UnevenMachines
SPECIFICATION Spec
INVARIANT
  LabelsAreLeast
