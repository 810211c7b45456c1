------------------------------- MODULE MCMetrics -------------------------------
EXTENDS Metrics

CONSTANTS r1, j1

OneBound == <<1>>
=============================================================================
