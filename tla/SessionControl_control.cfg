\* Two Attachments contend for control of one Session; two inputs; one crash.
CONSTANTS
  Attachment = {a1, a2}
  NoAttachment = NoAttachment
  Cmd = {c1, c2}
  Terminate = {t1}
  Resize = {r1, r2}
  InitialSize = InitialSize
  LeaseTtl = 2
  MaxToken = 2
  MaxResizes = 2
  MaxOpen = 1
  MaxCrashes = 1
SPECIFICATION Spec
INVARIANTS
  TypeOK
  InputSound
  LeaseSound
  SizeAgrees
PROPERTIES
  ConfirmedOnly
  ImplementsFencedWriter
\* An ended Session whose commands have all been answered has nothing left to do.
CHECK_DEADLOCK FALSE
SYMMETRY ControlSymmetry
