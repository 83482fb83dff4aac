SPECIFICATION Spec
CONSTANTS
  Files = {f1, f2}
  Absent = Absent
  Kinds = {"ink", "cr", "nl"}
  SliceBytes = 2
  MaxBytes = 4
  MaxRotations = 2
  MaxErrors = 1
INVARIANTS TypeOK MarkLaw SameLinesHoweverPolled
PROPERTY CatchesUp
