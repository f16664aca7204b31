-------------------------- MODULE HelloNegotiation --------------------------
(***************************************************************************)
(* The choice of the OpenFlow version in hello_handler of                  *)
(* ryu/controller/ofp_handler.py.                                          *)
(***************************************************************************)
EXTENDS Integers, FiniteSetsExt

CONSTANTS
    Versions,   \* wire versions: 1 is OpenFlow 1.0, 4 is 1.3, 6 is 1.5
    Supported   \* supported_ofp_version: the versions all applications accept

ASSUME VersionsAssumption ==
    /\ Versions \subseteq Nat \ {0}
    /\ IsFiniteSet(Versions)
    /\ Supported \subseteq Versions
    /\ Supported # {}

\* A hello message: the version in its header, and the versions of its version
\* bitmaps when it has elements.
Hellos == [version : Versions, elements : BOOLEAN, bitmap : SUBSET Versions]

Failed == 0

Usable(h) ==
    IF h.elements THEN h.bitmap \cap Supported
                  ELSE {v \in Supported : v <= h.version}

\* The version the switch takes to be negotiated: the controller announces its
\* highest version and sends no bitmap of its own.
SwitchChoice(h) ==
    IF h.elements THEN Max({v \in h.bitmap : v <= Max(Supported)})
                  ELSE Min({h.version, Max(Supported)})

\* hello_handler: the highest usable version, unless the switch is going to use
\* another one.  The four early returns of the code end in _hello_failed; the
\* highest of the negotiated versions exists whenever a usable one does.
Negotiate(h) ==
    IF Usable(h) # {} /\ Max(Usable(h)) = SwitchChoice(h) THEN Max(Usable(h)) ELSE Failed

\* The reference: version v is common to both sides, and the switch has no
\* version between v and the highest one the controller announces.  Without a
\* bitmap the specification of OpenFlow leaves only the smaller of the two
\* announced versions.
AgreedVersion(h, v) ==
    /\ v \in Supported
    /\ IF h.elements
       THEN v \in h.bitmap /\ \A w \in h.bitmap : w > v => \A s \in Supported : s < w
       ELSE \/ v = h.version /\ \E s \in Supported : s >= v
            \/ v <= h.version /\ \A s \in Supported : s <= v

\* A hello without elements whose version lies in a gap of the supported ones:
\* there are lower versions that both sides have, but the switch does not know.
Gap(h) == ~h.elements /\ Usable(h) # {} /\ Max(Usable(h)) # SwitchChoice(h)

\* hello_handler accepts a hello exactly when there is an agreed version, and
\* then uses that version.  With a gap it fails the hello.  The comment there
\* says that the highest usable version is used then, "with the hope that the
\* switch is able to understand lower version"; the code does not do this.
NegotiationSound ==
    \A h \in Hellos :
        IF Gap(h) THEN Negotiate(h) = Failed
        ELSE \A v \in Versions : Negotiate(h) = v <=> AgreedVersion(h, v)
=============================================================================
