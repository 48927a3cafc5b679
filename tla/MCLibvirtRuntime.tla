--------------------------- MODULE MCLibvirtRuntime ---------------------------
(* Small instances of LibvirtRuntime for TLC. *)
EXTENDS LibvirtRuntime, TLC

CONSTANTS c1, c2, t1, t10

MCCallers == {c1, c2}
MCNames   == {t1, t10}
OneName   == {t1}
OnePort   == {2200}
TwoPorts  == {2200, 2201}

\* Names none of which contains another, and "tenant-1" next to "tenant-10".
Distinct == {<<n, n>> : n \in MCNames}
DistinctOne == {<<t1, t1>>}
Prefixed == Distinct \cup {<<t10, t1>>}

LibvirtFaults == {"fail", "timeout"}
FailOnly      == {"fail"}
FailAndKill   == {"fail", "kill"}

SymmetryAll == Permutations(MCCallers) \cup Permutations(MCNames)
===============================================================================
