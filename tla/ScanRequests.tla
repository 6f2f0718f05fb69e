---------------------------- MODULE ScanRequests ----------------------------
(***************************************************************************)
(* The lines of an order and the scan requests made while it is picked and *)
(* packed: the constants ScanTask and PickPack share.                      *)
(***************************************************************************)
EXTENDS Naturals, FiniteSets

CONSTANTS
    Lines,
    Skus,
    Sku,      \* the SKU of a line
    Required, \* units required of a line
    Scans,    \* requests: one unit held under a scanner
    Scanned,  \* the SKU a request carries
    Scanners, \* how many requests are in progress at once
    NotSet    \* a timestamp that is null

ASSUME LinesAssumption ==
    /\ IsFiniteSet(Lines) /\ IsFiniteSet(Scans) /\ NotSet \notin Scans
    /\ Sku \in [Lines -> Skus]
    /\ Required \in [Lines -> Nat \ {0}]
ASSUME ScansAssumption == Scanned \in [Scans -> Skus] /\ Scanners \in Nat \ {0}
=============================================================================
