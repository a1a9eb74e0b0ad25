--------------------------- MODULE MCGatewayPipe ---------------------------
EXTENDS GatewayPipe

Mix(c, m, r, f) ==
    [calls |-> c, csmsCalls |-> m, repeats |-> r, faults |-> f]

\* Both sides call twice; three calls of the station meet a late answer; three
\* CSMS calls outlive the ring of two; repeats and faults in small company.
MCTraffic == {Mix(2, 2, 0, 0), Mix(3, 1, 0, 0), Mix(0, 3, 0, 0),
              Mix(2, 1, 1, 0), Mix(2, 1, 0, 1), Mix(1, 1, 1, 1)}
=============================================================================
