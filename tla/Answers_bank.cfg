\* A scan and a document with text, and time for answers to run out twice.
CONSTANTS
  Docs = {scan, paper}
  Scans = {scan}
  MaxAge = 2
  MaxTime = 5
  Never = Never
SPECIFICATION Spec
INVARIANTS TypeOK AnswersLastAsTheirRows NoOldLabelIsUsed
