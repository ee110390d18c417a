--------------------------- MODULE KernelLibrary ---------------------------
(***************************************************************************)
(* Where kernels come from: a binary compiled with the crate, if there is  *)
(* one, or their source, compiled when needed for the GPU at hand; and the *)
(* pipelines kept by the name of the kernel.  Kernels have the number of   *)
(* elements a thread reads compiled in, while the host computes its grids  *)
(* from the tuning of the GPU: the two have to agree.                      *)
(***************************************************************************)
EXTENDS Integers

CONSTANTS
  Machines,     \* [family, metallib]: the GPU family detected, and the binary,
                \* "absent", "loads" or "refused" (by new_library_with_data)
  AppleTuning,  \* GpuTuning::for_family of apple4 and later ..
  OlderTuning   \* .. and of everything else: [threads, reads]

VARIABLES
  machine,    \* where the program runs, and with which build of the crate
  debug,      \* DEBUG_ENABLED
  pipelines   \* PIPELINE_CACHE: kernel name -> how it was built

libraryVars == <<machine, debug, pipelines>>

NewerFamilies == {"apple4", "apple5", "apple6", "apple7", "apple8", "apple9"}

GpuTuning == IF machine.family \in NewerFamilies THEN AppleTuning ELSE OlderTuning

\* build.rs writes down the values of the fallback branch.
DefaultTuning == OlderTuning

elements_per_reduce_group == GpuTuning.threads * GpuTuning.reads

InitLibrary ==
  /\ machine \in Machines
  /\ debug = FALSE
  /\ pipelines = << >>

Precompiled == ~debug /\ machine.metallib = "loads"

\* load_library, as far as its kernels can tell.
LoadedBuild ==
  IF Precompiled THEN [reads |-> DefaultTuning.reads, debug |-> FALSE]
                 ELSE [reads |-> GpuTuning.reads, debug |-> debug]

\* get_pipeline_state of a kernel in the library just loaded.
BuildOf(kernel) ==
  IF kernel \in DOMAIN pipelines THEN pipelines[kernel] ELSE LoadedBuild

GetPipelines(kernels) ==
  pipelines' = [k \in DOMAIN pipelines \cup kernels |-> BuildOf(k)]

\* Mutant: pipelines of the other mode stay.
KeepPipelines == UNCHANGED pipelines

ClearPipelines == pipelines' = << >>

set_debug_enabled(on) ==
  /\ debug' = on
  /\ ClearPipelines
  /\ UNCHANGED machine

\* The cache is keyed by name alone, so that what it holds must have been built
\* in the mode that is on: no kernel without logging after debug mode was turned
\* on, and none with it after.
PipelinesFollowDebug ==
  \A k \in DOMAIN pipelines : pipelines[k].debug = debug

ASSUME TuningAssumption ==
  \A t \in {AppleTuning, OlderTuning} :
    /\ t = [threads |-> t.threads, reads |-> t.reads]
    /\ t.threads \in Nat \ {0} /\ t.reads \in Nat \ {0}
=============================================================================
