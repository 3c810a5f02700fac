------------------------------ MODULE MCUnpatch ------------------------------
(***************************************************************************)
(* BindingsPatcher against what its header says of the way back.           *)
(***************************************************************************)
EXTENDS BindingsPatcher

\* bindings_patcher.hpp:65-66 says of UnpatchGenericHmdBindings: "Per D-11: returns
\* true and does nothing if the target file is missing or has no MicMap marker".
\* A file without a marker is not written while it is unpatched.
UnmarkedLeftAlone ==
  [][pc[Cli] = "look" /\ job[Cli] = Unpatch /\ at[Cli] = Generic /\ pc'[Cli] # "look"
     /\ files[Generic] \in Document /\ ~Ours(files[Generic])
       => files'[Generic] = files[Generic]]_vars
=============================================================================
