\* Any of the three ports open, in any order, and room for two endpoints.
CONSTANTS
    Ports = {80, 443, 9000}
    HttpsPorts = {443}
    HttpPorts = {80}
    MaxEndpoints = 2
SPECIFICATION Spec
CHECK_DEADLOCK FALSE
INVARIANTS
    WebPortsAccountedFor
    EndpointsKeepTheirFiles
    LoadIsBounded
