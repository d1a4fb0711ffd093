\* A domain name that begins with http.
CONSTANTS
    Ports = {80, 443, 9000}
    HttpsPorts = {443}
    HttpPorts = {80}
    MaxEndpoints = 2
SPECIFICATION Spec
CHECK_DEADLOCK FALSE
INVARIANTS
    PhaseComesBack
