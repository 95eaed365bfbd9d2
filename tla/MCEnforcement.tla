--------------------------- MODULE MCEnforcement ---------------------------
(* Instances of Enforcement for TLC. *)
EXTENDS Enforcement

CONSTANTS c1, s1, u1

\* A container's own limits only.
OwnLimits == {<<c1, "cpu">>, <<c1, "disk">>, <<c1, "ram-usage-bsec">>}

\* A container without limits of its own, in a segment, under two scopes.
ScopeLimits == {<<s1, "cpu">>, <<Host, "disk">>}

OwnCpuLimit == {<<c1, "cpu">>}

\* Both limits that are enforced through the io.max of the container's cgroup.
IOLimits == {<<c1, "disk-io-bytes">>, <<c1, "disk-io-ops">>}

\* A container's own limit and a limit of the host, on different types.
RaceLimits == {<<c1, "cpu">>, <<Host, "disk">>}

\* One limit type at two levels.
SameTypeLimits == {<<c1, "cpu">>, <<Host, "cpu">>}
=============================================================================
