---------------------------- MODULE MCLinkCache ----------------------------
(* Two links at a time, and a third after one of them; a.o is given by its  *)
(* path, libc is found in a search path.                                    *)
EXTENDS LinkCache

CONSTANTS l1, l2

MCLinks == {l1, l2}

MCFiles == {"a.o", "libc"}

MCKeyed == {"a.o"}

=============================================================================
