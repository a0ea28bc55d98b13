------------------------------ MODULE MCRegistry ------------------------------
EXTENDS RegistryServer, TLC

CONSTANTS c1, c2, d1, d2

Symmetry == Permutations({c1, c2}) \cup Permutations({d1, d2})

Scenario(f, stock, n, ups, fault, crash, gcs) ==
    [format |-> f, stock |-> stock, calls |-> n, uploads |-> ups, faults |-> fault,
     crashes |-> crash, collections |-> gcs]

\* The protocols with few routes start on two versions, the others on one.
Small == {"cargo", "rubygems", "generic", "hex", "nuget", "swift", "composer", "go", "helm", "pub"}
Large == {"npm", "pypi", "maven", "conan"}

AllScenarios ==
    {Scenario(f, Versions, 2, 0, 0, 0, 0) : f \in Small}
    \cup {Scenario(f, {1}, 2, 0, 0, 0, 0) : f \in Large}
    \cup {Scenario("hex", {1}, 2, 0, 1, 0, 0), Scenario("generic", {1}, 1, 0, 1, 0, 0),
          Scenario("cargo", {1}, 1, 0, 1, 0, 0), Scenario("npm", {1}, 1, 0, 1, 0, 0),
          Scenario("conan", {1}, 1, 0, 1, 0, 0),
          Scenario("composer", {1}, 2, 0, 0, 1, 0),
          Scenario("hex", {1}, 2, 0, 0, 0, 1), Scenario("hex", {1}, 1, 0, 1, 0, 1),
          Scenario("oci", {}, 2, 0, 0, 0, 0), Scenario("oci", {}, 2, 0, 1, 0, 0),
          Scenario("oci", {}, 1, 0, 0, 0, 1),
          Scenario("oci", {}, 1, 2, 0, 0, 1),
          Scenario("oci", {}, 0, 4, 0, 0, 0), Scenario("oci", {}, 0, 3, 1, 1, 0)}
===============================================================================
