\* Two notices, one of them a check; one channel; a table of one row; two
\* recounts at a time.
SPECIFICATION Spec
CONSTANTS
  Notice = {n1, n2}
  Channel = {c1}
  Review = {n1}
  Recount = {r1, r2}
  MaxMessages = 1
  NoCounts = NoCounts
CHECK_DEADLOCK FALSE
PROPERTIES NoticeReturns BadgeCatchesUp
