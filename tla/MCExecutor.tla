----------------------------- MODULE MCExecutor -----------------------------
\* A kernel file, a second file of the same library name that lacks an export,
\* and one that defines its library and raises afterwards.
EXTENDS Executor

full == {"kernel-info", "kernel-capabilities", "kernel-apply"}
MCFiles == {[key |-> "k", exports |-> full, raises |-> FALSE],
            [key |-> "k", exports |-> full \ {"kernel-apply"}, raises |-> FALSE],
            [key |-> "j", exports |-> full, raises |-> TRUE],
            [key |-> "none", exports |-> {}, raises |-> FALSE]}
=============================================================================
