----------------------------- MODULE MCPerfPage -----------------------------
EXTENDS PerfPage

\* A clock of less than a cycle in a ns, and one of more than two.
MCClocks == {<<5, 2>>, <<3, 3>>}
MCCaps == {{}, {"rdpmc", "time"}, {"rdpmc", "time", "short"}}
MCInitLock == {4}

\* The product of the clock and time_mult is beyond 2^LongBits, more than once,
\* though the time it shows is not.
MCInitTsc == {22}
=============================================================================
