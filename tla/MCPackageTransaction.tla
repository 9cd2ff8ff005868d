------------------------ MODULE MCPackageTransaction ------------------------
(* Instances of PackageTransaction for TLC. *)
EXTENDS PackageTransaction

CONSTANTS s1, p1, p2, main, u1, u2

\* Releases 1 and 2 have the same version string and two version codes: the
\* second takes the place of the first in its directory.  Release 3 has a
\* directory of its own.
Codes == [v \in {1, 2, 3} |-> v]
Strings == [v \in {1, 2, 3} |-> IF v = 3 THEN "new" ELSE "old"]

\* Image 1 ships a provider that the catalog rejects; image 2 ships one that it
\* accepts, and that excludes p1's release 1.
Excluded == {<<1, s1, 1>>, <<2, p1, 1>>}
=============================================================================
