-------------------------- MODULE MCDeferredSandbox --------------------------
EXTENDS DeferredSandbox

CONSTANTS a, b, c, d

\* a and d are below the floor, a is of tier T1a and d has a signal; c scores more
\* than both T1a keys.
MCScore == (a :> 1) @@ (b :> 6) @@ (c :> 9) @@ (d :> 1)

=============================================================================
