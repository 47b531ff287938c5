\* An impatient sender: two uploads overlap, and one is committed meanwhile.
SPECIFICATION ArtifactSpec
CONSTANTS
    Contents = {c1, c2}
    Uploads = {u1, u2}
    Patient = FALSE
    NoBytes = NoBytes
INVARIANT ServedAsCommitted
CHECK_DEADLOCK FALSE
