------------------------------ MODULE MCIngestion ------------------------------
EXTENDS Ingestion

\* Small enough for every arm of both catch-up protections to be taken.
MCLimit == [f \in Feeds |-> IF f = "npm" THEN 1 ELSE 2]
MCProbeMin == MCLimit
MCCatchupMax == [f \in Feeds |-> IF f = "npm" THEN 0 ELSE 1]

=============================================================================
