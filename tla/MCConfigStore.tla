--------------------------- MODULE MCConfigStore ---------------------------
(* ConfigStore with a plain host, an IPv6 host and two chosen directories. *)
EXTENDS ConfigStore, TLC

CONSTANTS p1, p2

MCHosts == {<<"h1">>, <<"2001", ":", ":", "1">>}
MCOwnDirs == {<<"keys">>, <<".">>}
MCRest == {"a", "b"}

ASSUME \A h \in MCHosts : OwnName(h)

Symmetry == Permutations({p1, p2})
=============================================================================
