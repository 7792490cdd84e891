\* The per-entry acceptance of both worker bodies against the spec.
SPECIFICATION Spec
INVARIANT AcceptanceAgrees
