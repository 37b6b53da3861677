--------------------------- MODULE MCBuildTargets ---------------------------
(* Instances of BuildTargets for TLC. *)
EXTENDS BuildTargets

UpTo(n, names) == UNION {[1..k -> names] : k \in 0..n}

\* Command lines about the project's own files.
ProjectArgvs ==
  {<<"init">>, <<"kernel_headers", "init">>, <<"init", "kernel">>, <<"kernel", "init">>,
   <<"clean">>, <<"init", "clean", "init">>,
   <<"lib_util", "clean", "init">>,
   <<"lib_util", "hello_world">>}

\* Command lines about the kernel and its configurations.
KernelArgvs ==
  UpTo(3, {"kernel", "configure", "save_config", "use_saved_config", "clean", "misspelt"})
    \cup {<<"signing_key", "clean", "kernel">>}
=============================================================================
